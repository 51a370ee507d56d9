--------------------------- MODULE WebhooksProofs ---------------------------
(***************************************************************************)
(* Proofs about the webhook handlers, for any messages, any number of      *)
(* handlers and any raw types.                                             *)
(*                                                                         *)
(* A handler acts in its second session on what it read in the first.  The *)
(* invariant WebhookInv says how far that can be out of date: a row with a *)
(* provider id keeps it and is at least sent, and a final status that a    *)
(* handler saw is still final.                                             *)
(***************************************************************************)
EXTENDS Webhooks, TLAPS, SequenceTheorems

\* A row has no provider id before its mail has one.
IdComesWithSending ==
  \A m \in Msg : msgs[m].status \in {"absent", "queued"} => ~msgs[m].external

\* The statuses a row with a provider id may have.
Reported == {"sent"} \cup Terminal

\* The message of the event in a handler's hands, its event_type, and the row as
\* the second session will leave it.
HeldMsg(h)  == handler[h].event[1]
HeldType(h) == ParseEvent(handler[h].event[2])
HeldRow(h)  == RowAfter(HeldMsg(h), HeldType(h), handler[h].seen)

\* What a handler read is still true as far as it goes.
SeenHolds(h) ==
  handler[h] # Free =>
    /\ msgs[HeldMsg(h)].external
    /\ handler[h].seen \in Reported
    /\ handler[h].seen \in Terminal => msgs[HeldMsg(h)].status \in Terminal

WebhookInv ==
  /\ WebhookTypeOK
  /\ IdComesWithSending
  /\ \A h \in Handler : SeenHolds(h)
  /\ StatusHasEvent
  /\ EventIsApplied

-----------------------------------------------------------------------------
\* parse_event makes an event_type of every raw type; an event type that is a
\* final status is stored as that status.
LEMMA ParsedTypes ==
  ASSUME NEW raw \in RawTypes
  PROVE  /\ ParseEvent(raw) \in EventType \ {"dropped"}
         /\ HasStatus(ParseEvent(raw)) <=> ParseEvent(raw) \in Terminal
         /\ EventToStatus(ParseEvent(raw)) = ParseEvent(raw)
<1>1. raw \in KnownRaw \cup {"unknown"}
  BY RawAssumption
<1>2. CASE raw \in {"sent", "delivery_delayed"}
  <2>1. ParseEvent(raw) = "sent"
    BY <1>2 DEF ParseEvent, SameName
  <2> QED
    BY <2>1 DEF EventType, HasStatus, EventToStatus, Terminal
<1>3. CASE raw = "complained"
  <2>1. ParseEvent(raw) = "complaint"
    BY <1>3 DEF ParseEvent, SameName
  <2> QED
    BY <2>1 DEF EventType, HasStatus, EventToStatus, Terminal
<1>4. CASE raw \in {"delivered", "bounced", "opened", "clicked"}
  <2>1. ParseEvent(raw) = raw
    BY <1>4 DEF ParseEvent, SameName
  <2> QED
    BY <1>4, <2>1 DEF EventType, HasStatus, EventToStatus, Terminal
<1>5. CASE raw = "unknown"
  <2>1. ParseEvent(raw) = "failed"
    BY <1>5 DEF ParseEvent, SameName
  <2> QED
    BY <2>1 DEF EventType, HasStatus, EventToStatus, Terminal
<1> QED
  BY <1>1, <1>2, <1>3, <1>4, <1>5 DEF KnownRaw

\* What a busy handler holds.
LEMMA HandlerHolds ==
  ASSUME WebhookTypeOK, NEW h \in Handler, handler[h] # Free
  PROVE  /\ handler[h].event \in RawEvent
         /\ handler[h].event[1] \in Msg
         /\ handler[h].event[2] \in RawTypes
         /\ handler[h].seen \in Status
         /\ handler[h] = Found(handler[h].event, handler[h].seen)
<1>1. PICK e \in RawEvent, s \in Status : handler[h] = Found(e, s)
  BY DEF WebhookTypeOK
<1>2. handler[h].event = e /\ handler[h].seen = s
  BY <1>1 DEF Found
<1> QED
  BY <1>1, <1>2 DEF RawEvent

\* An idle handler is told from a busy one.
LEMMA FoundIsBusy == \A e, s : Found(e, s) # Free
<1>1. \A e, s : Found(e, s).at = "found"
  BY DEF Found
<1>2. Free.at = "idle"
  BY DEF Free
<1> QED
  BY <1>1, <1>2

\* A row with a provider id has a status the provider may report about.
LEMMA ExternalIsReported ==
  ASSUME WebhookTypeOK, IdComesWithSending, NEW m \in Msg, msgs[m].external
  PROVE  msgs[m].status \in Reported
BY DEF WebhookTypeOK, RowsTypeOK, Row, Status, IdComesWithSending, Reported, Terminal

\* The row after the UPDATE of the second session: sent becomes the status of the
\* event, and a final status stays, whatever the handler read.
LEMMA RowAfterFacts ==
  ASSUME WebhookTypeOK, IdComesWithSending,
         NEW h \in Handler, handler[h] # Free, SeenHolds(h)
  PROVE  /\ HeldRow(h) \in Row
         /\ HeldRow(h).external
         /\ HeldRow(h).status \in Reported
         /\ msgs[HeldMsg(h)].status \in Terminal => HeldRow(h) = msgs[HeldMsg(h)]
         /\ HeldType(h) \in Terminal => HeldRow(h).status \in Terminal
         /\ HeldRow(h).status \in Terminal =>
              HeldRow(h).status \in {msgs[HeldMsg(h)].status, HeldType(h)}
         /\ TriggersAllow(msgs[HeldMsg(h)], HeldRow(h))
<1> DEFINE old == msgs[HeldMsg(h)]
<1>1. HeldMsg(h) \in Msg /\ handler[h].event[2] \in RawTypes
  BY HandlerHolds DEF HeldMsg
<1>2. old \in Row /\ old.external
  BY <1>1 DEF WebhookTypeOK, RowsTypeOK, SeenHolds
<1>3. old.status \in Reported
  BY <1>1, <1>2, ExternalIsReported
<1>4. /\ handler[h].seen \in Reported
      /\ handler[h].seen \in Terminal => old.status \in Terminal
  BY DEF SeenHolds
<1>5. /\ HasStatus(HeldType(h)) <=> HeldType(h) \in Terminal
      /\ EventToStatus(HeldType(h)) = HeldType(h)
  BY <1>1, ParsedTypes DEF HeldType
<1>6. CASE HeldType(h) \in Terminal /\ handler[h].seen = "sent" /\ old.status = "sent"
  <2>1. HeldRow(h) = [old EXCEPT !.status = HeldType(h)]
    BY <1>5, <1>6 DEF HeldRow, RowAfter
  <2>2. /\ HeldRow(h) \in Row /\ HeldRow(h).external
        /\ HeldRow(h).status = HeldType(h)
    BY <1>2, <1>6, <2>1 DEF Row, Status, Terminal
  <2>3. HeldRow(h).request = old.request
    BY <1>2, <2>1 DEF Row
  <2>4. "sent" \notin Terminal
    BY DEF Terminal
  <2> QED
    BY <1>6, <2>2, <2>3, <2>4
    DEF Reported, TriggersAllow, LifecycleAllows, MutationAllows
<1>7. CASE ~(HeldType(h) \in Terminal /\ handler[h].seen = "sent" /\ old.status = "sent")
  <2>1. HeldRow(h) = old
    BY <1>3, <1>4, <1>5, <1>7 DEF HeldRow, RowAfter, Reported, Terminal
  <2>2. HeldType(h) \in Terminal => old.status \in Terminal
    BY <1>3, <1>4, <1>7 DEF Reported
  <2> QED
    BY <1>2, <1>3, <2>1, <2>2 DEF TriggersAllow, LifecycleAllows, MutationAllows
<1> QED
  BY <1>6, <1>7

-----------------------------------------------------------------------------
(* The invariant, one lemma per kind of step.                              *)

\* Nothing is sent, emitted, stored or in the hands of a handler at first.
LEMMA WebhookInitInv == WebhookInit => WebhookInv
<1> SUFFICES ASSUME WebhookInit PROVE WebhookInv
  OBVIOUS
<1> USE DEF WebhookInit, HooksInit
<1>1. AbsentRow \in Row /\ AbsentRow.status = "absent" /\ AbsentRow.external = FALSE
  BY DEF AbsentRow, Row, Status, LedgerStatus
<1>2. WebhookTypeOK
  BY <1>1, OwnAssumption DEF WebhookTypeOK, RowsTypeOK
<1> QED
  BY <1>1, <1>2
  DEF WebhookInv, IdComesWithSending, SeenHolds, StatusHasEvent, EventIsApplied

\* A step that leaves the table alone: what a handler takes into its hands is
\* what it has just read.
LEMMA ReportInv ==
  ASSUME WebhookInv, Report, UNCHANGED msgs
  PROVE  WebhookInv'
<1> USE DEF WebhookInv
<1>1. UNCHANGED <<events, eventsCount>>
  BY DEF Report, Emit, Drop, LookUp, Refuse, Rotate
<1>2. /\ emitted' \subseteq RawEvent /\ acked' \subseteq RawEvent /\ dropped' \subseteq RawEvent
      /\ credential' \in OwnStates
  BY DEF Report, Emit, Drop, LookUp, Refuse, Rotate, WebhookTypeOK
<1>3. ASSUME NEW h \in Handler
      PROVE  \/ handler'[h] = handler[h]
             \/ handler'[h] = Free
             \/ \E e \in RawEvent : /\ handler'[h] = Found(e, msgs[e[1]].status)
                                    /\ msgs[e[1]].external
  BY DEF Report, Emit, Drop, LookUp, Refuse, Rotate, WebhookTypeOK
<1>4. \A e \in RawEvent : e[1] \in Msg /\ msgs[e[1]].status \in Status
  BY DEF RawEvent, WebhookTypeOK, RowsTypeOK, Row
<1>5. handler' \in [Handler -> {Free} \cup {Found(e, s) : e \in RawEvent, s \in Status}]
  BY <1>4 DEF Report, Emit, Drop, LookUp, Refuse, Rotate, WebhookTypeOK
<1>6. WebhookTypeOK'
  BY <1>1, <1>2, <1>5 DEF WebhookTypeOK, RowsTypeOK
<1>7. ASSUME NEW h \in Handler PROVE SeenHolds(h)'
  <2>1. CASE handler'[h] = handler[h] \/ handler'[h] = Free
    BY <2>1 DEF SeenHolds, HeldMsg
  <2>2. CASE \E e \in RawEvent : /\ handler'[h] = Found(e, msgs[e[1]].status)
                                 /\ msgs[e[1]].external
    <3>1. PICK e \in RawEvent : /\ handler'[h] = Found(e, msgs[e[1]].status)
                                /\ msgs[e[1]].external
      BY <2>2
    <3>2. handler'[h].event = e /\ handler'[h].seen = msgs[e[1]].status
      BY <3>1 DEF Found
    <3>3. msgs[e[1]].status \in Reported
      BY <1>4, <3>1, ExternalIsReported
    <3> QED
      BY <3>1, <3>2, <3>3 DEF SeenHolds, HeldMsg
  <2> QED
    BY <1>3, <2>1, <2>2
<1> QED
  BY <1>1, <1>6, <1>7 DEF IdComesWithSending, StatusHasEvent, EventIsApplied

\* The second session: its event and its status are one transaction, and the other
\* handlers, whose reading it may put out of date, still hold a true one.
LEMMA PersistInv ==
  ASSUME WebhookInv, NEW h \in Handler, Persist(h)
  PROVE  WebhookInv'
<1> DEFINE e    == handler[h].event
           m    == HeldMsg(h)
           type == HeldType(h)
<1>1. /\ handler[h] # Free
      /\ handler' = [handler EXCEPT ![h] = Free]
      /\ UNCHANGED <<emitted, dropped, credential>>
      /\ \/ /\ RecordEvent(m, type)
            /\ msgs' = [msgs EXCEPT ![m] = HeldRow(h)]
            /\ acked' = acked \cup {e}
         \/ UNCHANGED <<msgs, events, eventsCount, acked>>
  BY DEF Persist, HeldMsg, HeldType, HeldRow
<1>2. WebhookTypeOK /\ IdComesWithSending /\ SeenHolds(h)
  BY DEF WebhookInv
<1>3. e \in RawEvent /\ m \in Msg /\ e[2] \in RawTypes
  BY <1>1, <1>2, HandlerHolds DEF HeldMsg
<1>4. /\ HeldRow(h) \in Row /\ HeldRow(h).external /\ HeldRow(h).status \in Reported
      /\ msgs[m].status \in Terminal => HeldRow(h) = msgs[m]
      /\ type \in Terminal => HeldRow(h).status \in Terminal
      /\ HeldRow(h).status \in Terminal => HeldRow(h).status \in {msgs[m].status, type}
  BY <1>1, <1>2, RowAfterFacts
<1>5. type \in EventType
  BY <1>3, ParsedTypes DEF HeldType
<1>6. /\ handler' \in [Handler -> {Free} \cup {Found(f, s) : f \in RawEvent, s \in Status}]
      /\ \A k \in Handler : handler'[k] # Free => handler'[k] = handler[k]
  BY <1>1, <1>2 DEF WebhookTypeOK
<1> HIDE DEF m, type
<1>7. CASE UNCHANGED <<msgs, events, eventsCount, acked>>
  <2>1. WebhookTypeOK'
    BY <1>1, <1>2, <1>6, <1>7 DEF WebhookTypeOK, RowsTypeOK
  <2>2. ASSUME NEW k \in Handler PROVE SeenHolds(k)'
    BY <1>6, <1>7 DEF WebhookInv, SeenHolds, HeldMsg
  <2> QED
    BY <1>7, <2>1, <2>2
    DEF WebhookInv, IdComesWithSending, StatusHasEvent, EventIsApplied
<1>8. CASE /\ RecordEvent(m, type)
           /\ msgs' = [msgs EXCEPT ![m] = HeldRow(h)]
           /\ acked' = acked \cup {e}
  <2>1. /\ msgs' \in [Msg -> Row] /\ msgs'[m] = HeldRow(h)
        /\ \A n \in Msg \ {m} : msgs'[n] = msgs[n]
    BY <1>2, <1>3, <1>4, <1>8 DEF WebhookTypeOK, RowsTypeOK
  <2>2. events' = events \cup {<<m, type>>}
    BY <1>8 DEF RecordEvent
  <2>3. eventsCount' \in [Msg -> Nat]
    <3>1. PICK n : /\ n = IF <<m, type>> \in events THEN eventsCount[m] ELSE eventsCount[m] + 1
                   /\ eventsCount' = [eventsCount EXCEPT ![m] = n]
      BY <1>8 DEF RecordEvent
    <3>2. eventsCount \in [Msg -> Nat] /\ eventsCount[m] \in Nat
      BY <1>2, <1>3 DEF WebhookTypeOK
    <3>3. n \in Nat
      BY <3>1, <3>2
    <3> QED
      BY <3>1, <3>2, <3>3
  <2>4. WebhookTypeOK'
    BY <1>1, <1>2, <1>3, <1>5, <1>6, <1>8, <2>1, <2>2, <2>3 DEF WebhookTypeOK, RowsTypeOK
  <2>5. IdComesWithSending'
    BY <1>2, <1>4, <2>1 DEF IdComesWithSending, Reported, Terminal
  <2>6. \A n \in Msg : /\ msgs[n].external => msgs'[n].external
                       /\ msgs[n].status \in Terminal => msgs'[n].status \in Terminal
    BY <1>4, <2>1
  <2>7. ASSUME NEW k \in Handler PROVE SeenHolds(k)'
    <3> SUFFICES ASSUME handler'[k] # Free PROVE SeenHolds(k)'
      BY DEF SeenHolds
    <3>1. handler'[k] = handler[k] /\ SeenHolds(k)
      BY <1>6 DEF WebhookInv
    <3>2. HeldMsg(k) \in Msg /\ HeldMsg(k)' = HeldMsg(k)
      BY <1>2, <3>1, HandlerHolds DEF HeldMsg
    <3> QED
      BY <2>6, <3>1, <3>2 DEF SeenHolds
  <2>8. StatusHasEvent'
    <3> SUFFICES ASSUME NEW n \in Msg, msgs'[n].external, msgs'[n].status \in Terminal
                 PROVE  <<n, msgs'[n].status>> \in events'
      BY DEF StatusHasEvent
    <3>1. msgs'[n] = msgs[n] => <<n, msgs'[n].status>> \in events'
      BY <2>2 DEF WebhookInv, StatusHasEvent
    <3>2. CASE n = m /\ msgs'[m].status = type
      BY <2>2, <3>2
    <3>3. CASE n = m /\ msgs'[m].status = msgs[m].status
      BY <1>4, <2>1, <3>1, <3>3
    <3> QED
      BY <1>4, <2>1, <3>1, <3>2, <3>3
  <2>9. EventIsApplied'
    <3> SUFFICES ASSUME NEW n \in Msg, NEW t \in Terminal, <<n, t>> \in events'
                 PROVE  msgs'[n].status \in Terminal
      BY DEF EventIsApplied
    <3>1. CASE <<n, t>> \in events
      BY <2>6, <3>1 DEF WebhookInv, EventIsApplied
    <3>2. CASE n = m /\ t = type
      BY <1>4, <2>1, <3>2
    <3> QED
      BY <2>2, <3>1, <3>2
  <2> QED
    BY <2>4, <2>5, <2>7, <2>8, <2>9 DEF WebhookInv
<1> QED
  BY <1>1, <1>7, <1>8

\* What else may write to a row as long as the provider knows nothing of it.
OutsideStep(m) ==
  \/ msgs'[m].status = msgs[m].status /\ msgs'[m].external = msgs[m].external
  \/ /\ msgs[m].status \in {"absent", "queued"}
     /\ msgs'[m].status \in {"queued", "sent", "failed"}
     /\ msgs'[m].external => msgs'[m].status = "sent"

\* Writers outside the webhooks keep the invariant if they leave the status and the
\* id of every row with a provider id alone; the other columns are theirs.
LEMMA OutsideInv ==
  ASSUME WebhookInv, UNCHANGED hookVars, msgs' \in [Msg -> Row],
         \A m \in Msg : OutsideStep(m)
  PROVE  WebhookInv'
<1>1. \A m \in Msg : msgs[m].external =>
        msgs'[m].status = msgs[m].status /\ msgs'[m].external = msgs[m].external
  BY DEF WebhookInv, IdComesWithSending, OutsideStep
<1>2. WebhookTypeOK'
  BY DEF WebhookInv, WebhookTypeOK, RowsTypeOK, hookVars
<1>3. IdComesWithSending'
  BY DEF WebhookInv, IdComesWithSending, OutsideStep
<1>4. ASSUME NEW h \in Handler PROVE SeenHolds(h)'
  <2> SUFFICES ASSUME handler[h] # Free PROVE SeenHolds(h)'
    BY DEF hookVars, SeenHolds
  <2>1. HeldMsg(h) \in Msg /\ SeenHolds(h)
    BY HandlerHolds DEF WebhookInv, HeldMsg
  <2>2. HeldMsg(h)' = HeldMsg(h)
    BY DEF HeldMsg, hookVars
  <2> QED
    BY <1>1, <2>1, <2>2 DEF SeenHolds, hookVars
<1>5. StatusHasEvent'
  BY <1>1 DEF WebhookInv, StatusHasEvent, OutsideStep, Terminal, hookVars
<1>6. EventIsApplied'
  BY DEF WebhookInv, EventIsApplied, OutsideStep, Terminal, hookVars
<1> QED
  BY <1>2, <1>3, <1>4, <1>5, <1>6 DEF WebhookInv

\* What the rest of the system writes does not touch a row with a provider id.
LEMMA DispatchesInv ==
  ASSUME WebhookInv, NEW m \in Msg, Dispatches(m)
  PROVE  WebhookInv'
<1>1. msgs \in [Msg -> Row] /\ UNCHANGED hookVars
  BY DEF WebhookInv, WebhookTypeOK, RowsTypeOK, Dispatches
<1>2. msgs[m].status \in {"absent", "queued"} /\ ~msgs[m].external
  BY DEF Dispatches, WebhookInv, IdComesWithSending
<1>3. /\ msgs' \in [Msg -> Row]
      /\ \A n \in Msg \ {m} : msgs'[n] = msgs[n]
      /\ msgs'[m].status \in {"queued", "sent", "failed"}
      /\ msgs'[m].external => msgs'[m].status = "sent"
  BY <1>1, <1>2 DEF Dispatches, Row, Status
<1>4. \A n \in Msg : OutsideStep(n)
  BY <1>2, <1>3 DEF OutsideStep
<1> QED
  BY <1>1, <1>3, <1>4, OutsideInv

\* The invariant is inductive.
LEMMA WebhookNextInv == WebhookInv /\ [WebhookNext]_webhookVars => WebhookInv'
<1> SUFFICES ASSUME WebhookInv, [WebhookNext]_webhookVars PROVE WebhookInv'
  OBVIOUS
<1>1. CASE UNCHANGED webhookVars
  <2>1. UNCHANGED <<msgs, emitted, acked, dropped, handler, events, eventsCount, credential>>
    BY <1>1 DEF webhookVars, hookVars
  <2>2. WebhookTypeOK'
    BY <2>1 DEF WebhookInv, WebhookTypeOK, RowsTypeOK
  <2>3. \A h \in Handler : SeenHolds(h)'
    BY <2>1 DEF WebhookInv, SeenHolds, HeldMsg
  <2> QED
    BY <2>1, <2>2, <2>3
    DEF WebhookInv, IdComesWithSending, StatusHasEvent, EventIsApplied
<1> QED
  BY <1>1, ReportInv, PersistInv, DispatchesInv DEF WebhookNext

-----------------------------------------------------------------------------
(* The loop over the candidate credentials.                                *)

\* Of at most three candidates, those that stop the loop have a first one.
LEMMA FirstStop ==
  ASSUME NEW stops \in SUBSET (1 .. 3), stops # {}
  PROVE  \E i \in stops : \A j \in stops : i <= j
<1>1. CASE 1 \in stops
  BY <1>1
<1>2. CASE 1 \notin stops /\ 2 \in stops
  BY <1>2
<1>3. CASE 1 \notin stops /\ 2 \notin stops
  <2>1. \A j \in stops : j = 3 /\ 3 <= j
    BY <1>3
  <2>2. 3 \in stops
    BY <2>1
  <2> QED
    BY <2>1, <2>2
<1> QED
  BY <1>1, <1>2, <1>3

\* The loop believes the webhook exactly if the first candidate that is not
\* passed over is the tenant's and is not broken.
LEMMA VerdictOfFirst ==
  ASSUME NEW n \in 0 .. 3, NEW cs, DOMAIN cs = 1 .. n
  PROVE  Verdict(cs) = "valid" <=>
           \E i \in 1 .. n : /\ cs[i].state \notin {"other", "broken"}
                             /\ cs[i].tenant = "target"
                             /\ \A j \in 1 .. n : j < i => cs[j].state = "other"
<1> DEFINE stops == {i \in DOMAIN cs : cs[i].state # "other"}
           at    == CHOOSE i \in stops : \A j \in stops : i <= j
<1>1. CASE stops = {}
  <2>1. Verdict(cs) \in {"404", "401"}
    BY <1>1 DEF Verdict
  <2>2. \A i \in 1 .. n : cs[i].state = "other"
    BY <1>1
  <2> QED
    BY <2>1, <2>2
<1>2. CASE stops # {}
  <2>1. stops \in SUBSET (1 .. 3)
    OBVIOUS
  <2>2. \E i \in stops : \A j \in stops : i <= j
    BY <1>2, <2>1, FirstStop
  <2>3. at \in stops /\ \A j \in stops : at <= j
    BY <2>2
  <2>4. Verdict(cs) = IF cs[at].state = "broken" THEN "500"
                      ELSE IF cs[at].tenant = "target" THEN "valid" ELSE "401"
    BY <1>2 DEF Verdict
  <2> HIDE DEF at
  <2>5. Verdict(cs) = "valid" <=> cs[at].state # "broken" /\ cs[at].tenant = "target"
    BY <2>4
  <2>6. at \in 1 .. n /\ cs[at].state # "other"
        /\ \A j \in 1 .. n : j < at => cs[j].state = "other"
    BY <2>3
  <2>7. \A i \in 1 .. n :
          cs[i].state # "other" /\ (\A j \in 1 .. n : j < i => cs[j].state = "other") => i = at
    BY <2>3, <2>6
  <2> QED
    BY <2>5, <2>6, <2>7
<1> QED
  BY <1>1, <1>2

\* The query's answer: the tenant's own credential first, if it has one, and then
\* those of others, of which two are considered.
LEMMA CandidatesInOrder ==
  ASSUME NEW own \in CredentialState \cup {"missing"}, NEW others \in Others
  PROVE  \E n \in 0 .. 3 :
           /\ DOMAIN Candidates(own, others) = 1 .. n
           /\ own # "missing" =>
                n >= 1 /\ Candidates(own, others)[1] = Candidate("target", own)
           /\ \A i \in 1 .. n : own = "missing" \/ i > 1 =>
                Candidates(own, others)[i].tenant = "another"
<1>1. PICK n \in 0 .. 2 : others \in [1 .. n -> CredentialState]
  BY DEF Others
<1> DEFINE rest == [i \in DOMAIN others |-> Candidate("another", others[i])]
           C    == {Candidate(t, s) : t \in {"target", "another"}, s \in CredentialState}
<1>2. n \in Nat /\ DOMAIN rest = 1 .. n /\ \A i \in 1 .. n : rest[i].tenant = "another"
  BY <1>1 DEF Candidate
<1>3. rest \in [1 .. n -> C]
  BY <1>1
<1>4. rest \in Seq(C) /\ Len(rest) = n
  <2>1. rest \in Seq(C)
    BY <1>2, <1>3, SeqDef
  <2>2. DOMAIN rest = 1 .. Len(rest) /\ Len(rest) \in Nat
    BY <2>1, LenProperties
  <2> QED
    BY <1>2, <2>1, <2>2
<1> HIDE DEF rest, C
<1>5. CASE own = "missing"
  <2>1. Candidates(own, others) = rest
    BY <1>4, <1>5, ConcatEmptySeq DEF Candidates, rest
  <2>2. n \in 0 .. 3
    OBVIOUS
  <2> QED
    BY <1>2, <1>5, <2>1, <2>2
<1>6. CASE own # "missing"
  <2> DEFINE mine == <<Candidate("target", own)>>
  <2>1. Candidate("target", own) \in C
    BY <1>6 DEF C
  <2>2. mine \in Seq(C) /\ Len(mine) = 1 /\ mine[1] = Candidate("target", own)
    BY <2>1
  <2>3. Candidates(own, others) = mine \o rest
    BY <1>6 DEF Candidates, rest
  <2> HIDE DEF mine
  <2>4. /\ mine \o rest \in Seq(C) /\ Len(mine \o rest) = 1 + n
        /\ \A i \in 1 .. 1 + n :
             (mine \o rest)[i] = IF i <= 1 THEN mine[i] ELSE rest[i - 1]
    <3>1. /\ mine \o rest \in Seq(C) /\ Len(mine \o rest) = Len(mine) + Len(rest)
          /\ \A i \in 1 .. Len(mine) + Len(rest) :
               (mine \o rest)[i] = IF i <= Len(mine) THEN mine[i] ELSE rest[i - Len(mine)]
      BY <1>4, <2>2, ConcatProperties
    <3> QED
      BY <1>4, <2>2, <3>1
  <2>5. DOMAIN (mine \o rest) = 1 .. (1 + n)
    BY <2>4, LenProperties
  <2>6. (mine \o rest)[1] = Candidate("target", own)
    BY <1>2, <2>2, <2>4
  <2>7. \A i \in 1 .. (1 + n) : i > 1 => (mine \o rest)[i].tenant = "another"
    BY <1>2, <2>4
  <2>8. 1 + n \in 0 .. 3 /\ 1 + n >= 1
    BY <1>2
  <2> QED
    BY <1>6, <2>3, <2>5, <2>6, <2>7, <2>8
<1> QED
  BY <1>5, <1>6

\* The tenant's own secret decides, whatever the credentials of other tenants.
LEMMA OwnSecretLemma == credential \in OwnStates => OwnSecretDecides
<1> SUFFICES ASSUME credential \in OwnStates, NEW others \in Others
             PROVE  Verdict(Candidates(credential, others)) = "valid" <=> credential = "signs"
  BY DEF OwnSecretDecides
<1> DEFINE cs == Candidates(credential, others)
<1>1. credential \in CredentialState \cup {"missing"}
  BY OwnAssumption
<1>2. PICK n \in 0 .. 3 :
        /\ DOMAIN cs = 1 .. n
        /\ credential # "missing" => n >= 1 /\ cs[1] = Candidate("target", credential)
        /\ \A i \in 1 .. n : credential = "missing" \/ i > 1 => cs[i].tenant = "another"
  BY <1>1, CandidatesInOrder
<1> HIDE DEF cs
<1>3. Verdict(cs) = "valid" <=>
        \E i \in 1 .. n : /\ cs[i].state \notin {"other", "broken"}
                          /\ cs[i].tenant = "target"
                          /\ \A j \in 1 .. n : j < i => cs[j].state = "other"
  BY <1>2, VerdictOfFirst
<1>4. credential # "missing" => cs[1].state = credential /\ cs[1].tenant = "target"
  BY <1>2 DEF Candidate
<1>5. CASE credential = "signs"
  <2>1. 1 \in 1 .. n /\ \A j \in 1 .. n : ~(j < 1)
    BY <1>2, <1>5
  <2> QED
    BY <1>3, <1>4, <1>5, <2>1 DEF cs
<1>6. CASE credential # "signs"
  <2>1. \A i \in 1 .. n : cs[i].tenant = "target" => i = 1 /\ credential # "missing"
    BY <1>2
  <2>2. credential # "missing" => cs[1].state \in {"other", "broken"}
    BY <1>1, <1>4, <1>6 DEF CredentialState
  <2> QED
    BY <1>3, <1>6, <2>1, <2>2 DEF cs
<1> QED
  BY <1>5, <1>6

\* With the status of the first session out of date, the UPDATE still asks for a
\* step the triggers allow.
LEMMA InvPersistIsLegal == WebhookInv => PersistIsLegal
BY RowAfterFacts DEF WebhookInv, PersistIsLegal, HeldMsg, HeldType, HeldRow

-----------------------------------------------------------------------------
(* The theorems.                                                           *)

\* In every reachable state what the handlers hold is true as far as it goes, and
\* statuses and events agree.
THEOREM WebhookInvariance == WebhookSpec => []WebhookInv
BY WebhookInitInv, WebhookNextInv, PTL DEF WebhookSpec

\* Every variable of the webhook side keeps its type.
THEOREM WebhookTypeCorrect == WebhookSpec => []WebhookTypeOK
<1>1. WebhookInv => WebhookTypeOK
  BY DEF WebhookInv
<1> QED
  BY <1>1, WebhookInvariance, PTL

\* However webhooks interleave, a final status has its event and an event its
\* final status; no second session asks for what a trigger forbids; and the
\* tenant's own secret decides who is believed.
THEOREM WebhookSafety ==
  WebhookSpec => [](StatusHasEvent /\ EventIsApplied /\ PersistIsLegal /\ OwnSecretDecides)
<1>1. WebhookInv => StatusHasEvent /\ EventIsApplied /\ PersistIsLegal /\ OwnSecretDecides
  BY InvPersistIsLegal, OwnSecretLemma DEF WebhookInv, WebhookTypeOK
<1> QED
  BY <1>1, WebhookInvariance, PTL
=============================================================================
