--------------------------- MODULE CentroMensajes ---------------------------
(***************************************************************************)
(* The Centro de Mensajes around its table: dispatch requests, webhook     *)
(* handlers and retry workers over the same rows.  The components share    *)
(* the committed rows and PostgreSQL's row locks; the mail provider and    *)
(* finanzas-core are reached by POSTs.  Each step of the system is a step  *)
(* of one component.                                                       *)
(***************************************************************************)
EXTENDS Dispatch, LedgerRetry, Webhooks

vars == <<dispatchVars, workerVars, hookVars>>

Init == DispatchInit /\ LedgerInit /\ WebhookInit

\* Slip for the mutation checks: writers do not wait for FOR UPDATE.
RowFreeAlways(m) == TRUE

\* A statement that writes the row waits for the transaction that locked it.
RowFree(m) == m \notin Locked

\* A request of POST /v1/messages/email.
Serve(m) ==
  /\ HandleRequest(m) \/ Crash(m)
  /\ UNCHANGED <<workerVars, hookVars>>

\* A turn of the retry loop; main.py starts the loops only under the flag.
Settle ==
  /\ Reporting # {}
  /\ (\E w \in Worker : Work(w) \/ Abort(w)) \/ Elapse
  /\ UNCHANGED <<request, lastError, accepted, hookVars>>

\* The provider reports about mails it has, and webhooks answer it.
Notify ==
  /\ \/ /\ \E e \in RawEvent :
             \/ e[1] \in accepted /\ Emit(e)
             \/ Drop(e)
             \/ \E h \in Handler : LookUp(h, e)
        /\ UNCHANGED msgs
     \/ (\E h \in Handler : Refuse(h)) /\ UNCHANGED msgs
     \/ (\E state \in OwnStates : Rotate(state)) /\ UNCHANGED msgs
     \/ \E h \in Handler :
          handler[h] # Free /\ RowFree(handler[h].event[1]) /\ Persist(h)
  /\ UNCHANGED <<request, lastError, accepted, workerVars>>

Next == (\E m \in Msg : Serve(m)) \/ Settle \/ Notify

Spec == Init /\ [][Next]_vars

-----------------------------------------------------------------------------
\* Only mails the provider took are ever charged: the dispatch's account of
\* what was sent and the worker's account of what is owed never disagree.
ChargedIsAccepted == \A e \in book : e.msg \in accepted

\* A message that finanzas-core holds an entry for, or that its row owes it or
\* has settled with it, is a message that reports/usage counts, unless a stored
\* webhook event has declared it failed: nothing is owed for a mail that failed
\* on the way out, and no charge outlives the mail without a trace of why.
Claimed(m)   == msgs[m].ledger # "not_applicable" \/ \E e \in book : e.msg = m
Explained(m) == msgs[m].status \in Billable \/ <<m, "failed">> \in events

ClaimIsReported == \A m \in Msg : Claimed(m) => Explained(m)

\* The webhook side sees nothing of the ledger columns; with those hidden, the
\* whole system behaves as the module Webhooks says, so what is shown there
\* holds here.  (LedgerSpec plays the same part for the retry worker.)
HookView == INSTANCE Webhooks WITH
  msgs <- [m \in Msg |-> [msgs[m] EXCEPT !.ledger = "not_applicable", !.attempts = 0,
                                        !.request = NoRef, !.entry = NoRef]]

KeepsWebhookSpec == HookView!WebhookSpec

\* The webhook route answers 204 to a message it does not know, "puede ser de
\* otro env", so that the provider does not retry: what it forgets that way is
\* never news of a mail whose provider id a row of this database keeps.
ForgottenIsForeign == \A e \in dropped : ~msgs[e[1]].external
=============================================================================
