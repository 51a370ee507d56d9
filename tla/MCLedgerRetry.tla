--------------------------- MODULE MCLedgerRetry ---------------------------
(* Instances of LedgerRetry for TLC.                                         *)
EXTENDS LedgerRetry, TLC

CONSTANTS m1, m2, m3, w1, w2

TwoMessages   == {m1, m2}
ThreeMessages == {m1, m2, m3}
OneUntyped    == {m1}

\* Sound for the safety run only: messages and workers are interchangeable.
Symmetry == Permutations(Msg) \cup Permutations(Worker)

\* The liveness runs start when the messages have been sent and are owed, as
\* the dispatch commits them: what led there does not matter to the worker.
BacklogInit ==
  /\ msgs = [m \in Msg |-> [AbsentRow EXCEPT !.status = "sent", !.external = TRUE,
                                             !.ledger = "pending"]]
  /\ picked  = [w \in Worker |-> NoRows]
  /\ todo    = [w \in Worker |-> {}]
  /\ written = [w \in Worker |-> NoRows]
  /\ last    = [m \in Msg |-> 0]
  /\ began   = [w \in Worker |-> 0]
  /\ cooling = {}
  /\ book    = {}

\* A webhook can only end such a wait (failed) or leave it as it is, so the
\* liveness runs leave the rest of the system still.
BacklogNext == (\E w \in Worker : Work(w) \/ Abort(w)) \/ Elapse

BacklogSpec == BacklogInit /\ [][BacklogNext]_ledgerVars /\ LedgerFairness
=============================================================================
