---------------------------- MODULE LedgerRetry ----------------------------
(***************************************************************************)
(* The ledger retry worker, one loop per server process.  A turn of the    *)
(* loop is one database transaction: it locks up to BATCH_SIZE rows with   *)
(* FOR UPDATE SKIP LOCKED, POSTs each one to finanzas-core under the row's *)
(* source_ref, writes the outcome of each POST, and commits once, at the   *)
(* end.  A turn that dies takes its writes with it, but not its POSTs.     *)
(*                                                                         *)
(* finanzas-core is external: `book` is what it has recorded.  It answers  *)
(* a source_ref it already holds with the entry it has.                    *)
(***************************************************************************)
EXTENDS Messages

CONSTANTS Worker,       \* the retry loops, one per server process
          MaxAttempts,  \* MAX_ATTEMPTS
          BatchSize,    \* BATCH_SIZE
          Untyped       \* messages answered, at times, by a 2xx that is not JSON

ASSUME WorkerAssumption      == IsFiniteSet(Worker)
ASSUME MaxAttemptsAssumption == MaxAttempts \in Nat \ {0}
ASSUME BatchSizeAssumption   == BatchSize \in Nat \ {0}
ASSUME UntypedAssumption     == Untyped \subseteq Msg

VARIABLES
  picked,    \* worker -> the rows its transaction holds, as its SELECT read them
  todo,      \* worker -> the rows of the batch not POSTed yet
  written,   \* worker -> the rows its transaction has written, not committed
  last,      \* message -> order of its ledger_last_attempt_at among the stamps in
             \* use, 0 = NULL; 0 again once settled, when no SELECT looks at it
  began,     \* worker -> order of its transaction's NOW() among the stamps, 0 = none
  cooling,   \* messages still owed, attempted less than 60 seconds ago
  book       \* the entries of finanzas-core

workerVars == <<picked, todo, written, last, began, cooling, book>>
ledgerVars == <<msgs, workerVars>>

Entry == [ref : Ref, msg : Msg]

IsRowMap(f) == DOMAIN f \subseteq Msg /\ f \in [DOMAIN f -> Row]

NoRows == [m \in {} |-> AbsentRow]

LedgerTypeOK ==
  /\ RowsTypeOK
  /\ DOMAIN picked = Worker  /\ \A w \in Worker : IsRowMap(picked[w])
  /\ DOMAIN written = Worker /\ \A w \in Worker : IsRowMap(written[w])
  /\ todo    \in [Worker -> SUBSET Msg]
  /\ last    \in [Msg -> Nat]
  /\ began   \in [Worker -> Nat]
  /\ cooling \subseteq Msg
  /\ book    \subseteq Entry

LedgerInit ==
  /\ msgs    = [m \in Msg |-> AbsentRow]
  /\ picked  = [w \in Worker |-> NoRows]
  /\ todo    = [w \in Worker |-> {}]
  /\ written = [w \in Worker |-> NoRows]
  /\ last    = [m \in Msg |-> 0]
  /\ began   = [w \in Worker |-> 0]
  /\ cooling = {}
  /\ book    = {}

-----------------------------------------------------------------------------
Held(w) == DOMAIN picked[w]
Idle(w) == Held(w) = {}

\* Slip for the mutation checks: a SELECT without FOR UPDATE.
LockedNothing == {}

\* The rows an open transaction has locked.
Locked == UNION {Held(w) : w \in Worker}

\* Slip: the WHERE clause without its condition on status.
DueAnyStatus(m) ==
  /\ msgs[m].ledger \in Owed
  /\ msgs[m].attempts < MaxAttempts
  /\ m \notin cooling

\* The WHERE clause of the worker's SELECT.
Due(m) ==
  /\ msgs[m].ledger \in Owed
  /\ msgs[m].attempts < MaxAttempts
  /\ msgs[m].status \in Billable
  /\ m \notin cooling

\* Stamps matter only through their order: those in use are renumbered from 1.
Renumbered(stamps, starts) ==
  LET used    == {stamps[m] : m \in Msg} \cup {starts[w] : w \in Worker}
      rank(n) == Cardinality(used \cap (1 .. n))
  IN /\ last'  = [m \in Msg |-> rank(stamps[m])]
     /\ began' = [w \in Worker |-> rank(starts[w])]

\* NOW(), the start of the transaction: later than every stamp and every start.
Now == Cardinality(Msg) + Cardinality(Worker) + 1

Eligible == {m \in Msg : Due(m)} \ Locked

\* ORDER BY ledger_last_attempt_at ASC NULLS FIRST LIMIT BATCH_SIZE.
IsBatch(B) ==
  /\ B \subseteq Eligible
  /\ Cardinality(B) <= BatchSize
  /\ Cardinality(B) = BatchSize \/ B = Eligible
  /\ \A m \in B, n \in Eligible \ B : last[m] <= last[n]

Pick(w) ==
  /\ Idle(w)
  /\ \E B \in SUBSET Eligible :
       /\ B # {}
       /\ IsBatch(B)
       /\ picked' = [picked EXCEPT ![w] = [m \in B |-> msgs[m]]]
       /\ todo' = [todo EXCEPT ![w] = B]
  /\ Renumbered(last, [began EXCEPT ![w] = Now])
  /\ UNCHANGED <<msgs, written, cooling, book>>

\* Slip: a request id of its own for every attempt.
RequestIdPerAttempt(m, row) == <<"msg-email", m, row.attempts>>

\* The source_ref of the POST: the row's own, or the one derived from its id.
RequestId(m, row) == IF row.request # NoRef THEN row.request ELSE SourceRef(m)

\* What finanzas-core may do with a POST for m, and what record_entry makes of
\* its answer: "ok"; "transient" for a 5xx or a network error, before or after
\* the entry was made; "fatal" for 401, 403, 422, another status (no entry), or
\* a 2xx with an id that is missing or no UUID; "untyped" when resp.json fails.
Answers(m) ==
  {[says |-> "ok",        made |-> TRUE],
   [says |-> "transient", made |-> FALSE], [says |-> "transient", made |-> TRUE],
   [says |-> "fatal",     made |-> FALSE], [says |-> "fatal",     made |-> TRUE]}
  \cup (IF m \in Untyped THEN [says : {"untyped"}, made : BOOLEAN] ELSE {})

\* finanzas-core makes one entry per source_ref.
BookAfter(m, ref, answer) ==
  IF answer.made /\ \A e \in book : e.ref # ref
  THEN book \cup {[ref |-> ref, msg |-> m]}
  ELSE book

\* Slip: the limit is compared with the attempts before this one.
OutcomeLate(answer, row) ==
  CASE answer.says = "ok"    -> "recorded"
    [] answer.says = "fatal" -> "manual"
    [] OTHER -> IF row.attempts >= MaxAttempts THEN "manual" ELSE "failed"

\* Slip: a timeout is taken for a success.
OutcomeHopeful(answer, row) == IF answer.says = "fatal" THEN "manual" ELSE "recorded"


\* The ledger_status an attempt ends in.
Outcome(answer, row) ==
  CASE answer.says = "ok"    -> "recorded"
    [] answer.says = "fatal" -> "manual"
    [] OTHER -> IF row.attempts + 1 >= MaxAttempts THEN "manual" ELSE "failed"

\* _persist: the id of the entry and the request id are only ever set.
AttemptedRow(m, row, answer) ==
  LET ref == RequestId(m, row)
  IN [msgs[m] EXCEPT !.ledger   = Outcome(answer, row),
                     !.attempts = @ + 1,
                     !.request  = IF @ = NoRef THEN ref ELSE @,
                     !.entry    = IF answer.says = "ok" THEN ref ELSE @]

\* Slip: the attempts column counts nothing.
AttemptedRowUncounted(m, row, answer) ==
  [msgs[m] EXCEPT !.ledger  = Outcome(answer, row),
                  !.request = IF @ = NoRef THEN SourceRef(m) ELSE @]

\* One row of the batch: POST, then its UPDATE inside the open transaction.  An
\* untyped exception skips the UPDATE and the batch goes on.
Attempt(w, m) ==
  /\ m \in todo[w]
  /\ todo' = [todo EXCEPT ![w] = @ \ {m}]
  /\ \E answer \in Answers(m) :
       /\ book' = BookAfter(m, RequestId(m, picked[w][m]), answer)
       /\ written' = IF answer.says = "untyped" THEN written
                     ELSE [written EXCEPT ![w] =
                            [n \in DOMAIN @ \cup {m} |->
                               IF n = m THEN AttemptedRow(m, picked[w][m], answer)
                               ELSE @[n]]]
  /\ UNCHANGED <<msgs, picked, last, began, cooling>>

\* The rows of the turn that the worker will have to try again.
StillOwed(w) == {m \in DOMAIN written[w] : written[w][m].ledger \in Owed}

\* ledger_last_attempt_at once the turn's writes are in: NOW(), for its rows.
Stamped(w) == [m \in Msg |-> CASE m \in StillOwed(w)      -> began[w]
                               [] m \in DOMAIN written[w] \ StillOwed(w) -> 0
                               [] OTHER                   -> last[m]]

Release(w) ==
  /\ picked'  = [picked EXCEPT ![w] = NoRows]
  /\ written' = [written EXCEPT ![w] = NoRows]

\* The only commit of a turn; the locks go with it.
Commit(w) ==
  /\ ~Idle(w)
  /\ todo[w] = {}
  /\ msgs' = [m \in Msg |-> IF m \in DOMAIN written[w] THEN written[w][m] ELSE msgs[m]]
  /\ Renumbered(Stamped(w), [began EXCEPT ![w] = 0])
  /\ cooling' = cooling \cup StillOwed(w)
  /\ Release(w)
  /\ UNCHANGED <<todo, book>>

\* The process dies, is shut down, or the commit fails: the database rolls back.
Abort(w) ==
  /\ ~Idle(w)
  /\ todo' = [todo EXCEPT ![w] = {}]
  /\ Renumbered(last, [began EXCEPT ![w] = 0])
  /\ Release(w)
  /\ UNCHANGED <<msgs, cooling, book>>

\* Sixty seconds pass for the rows stamped longest ago.
Elapse ==
  \E m \in cooling :
    /\ \A n \in cooling : last[m] <= last[n]
    /\ cooling' = {n \in cooling : last[n] # last[m]}
    /\ UNCHANGED <<msgs, picked, todo, written, last, began, book>>

\* The rest of the system, as the worker sees it: send_email inserts a row and
\* commits its outcome, record_message inserts a sent one, a webhook ends a sent
\* message that has a provider id unless its row is locked.
OthersWrite(m) ==
  /\ m \notin Locked
  /\ \/ /\ msgs[m].status = "absent"
        /\ \E s \in {"queued", "sent"} : msgs' = [msgs EXCEPT ![m].status = s]
     \/ /\ msgs[m].status = "queued"
        /\ msgs' = [msgs EXCEPT ![m].status = "failed"]
     \/ /\ msgs[m].status = "queued"
        /\ \E l \in {"not_applicable", "pending"} :
             msgs' = [msgs EXCEPT ![m].status = "sent", ![m].external = TRUE,
                                  ![m].ledger = l]
     \/ /\ msgs[m].status = "sent" /\ msgs[m].external
        /\ \E s \in Terminal : msgs' = [msgs EXCEPT ![m].status = s]
  /\ UNCHANGED workerVars

Work(w) == Pick(w) \/ (\E m \in Msg : Attempt(w, m)) \/ Commit(w)

LedgerNext ==
  \/ \E w \in Worker : Work(w) \/ Abort(w)
  \/ Elapse
  \/ \E m \in Msg : OthersWrite(m)

LedgerSpec == LedgerInit /\ [][LedgerNext]_ledgerVars

\* A turn that dies with rows to POST or writes to commit.
LosesBatch(w) == Abort(w) /\ (todo[w] # {} \/ written[w] # NoRows)

\* The loop of every worker goes on, time passes, and processes do not die for
\* ever: the supervisor restarts them and some turn runs to its end.
LedgerFairness ==
  /\ \A w \in Worker : WF_ledgerVars(Work(w))
  /\ WF_ledgerVars(Elapse)
  /\ <>[][\A w \in Worker : ~LosesBatch(w)]_ledgerVars

LedgerFairSpec == LedgerSpec /\ LedgerFairness

-----------------------------------------------------------------------------
\* A message is charged at most once, however many timeouts, aborted batches
\* and concurrent workers retried it.
ChargedOnce == \A e, f \in book : e.msg = f.msg => e = f

\* A row says recorded only when finanzas-core holds its entry, under the id
\* the row keeps in ledger_entry_id.
RecordedHasEntry ==
  \A m \in Msg : msgs[m].ledger = "recorded" =>
    [ref |-> msgs[m].entry, msg |-> m] \in book

\* A row still owed has attempts left: none is stranded at the limit, where
\* the worker's SELECT would no longer see it and nobody would review it.
OwedHasTriesLeft ==
  \A m \in Msg : msgs[m].ledger \in Owed => msgs[m].attempts < MaxAttempts

\* What the SELECT read is still what the table holds when the row's POST is
\* built and its outcome written, up to a whole batch of timeouts later.
BatchIsFresh ==
  \A w \in Worker : \A m \in Held(w) : picked[w][m] = msgs[m]

\* No charge is made for a message that was not sent, or that a webhook has
\* meanwhile declared failed.
ChargesOnlyBillable ==
  [][\A e \in book' \ book : msgs[e.msg].status \in Billable]_ledgerVars

\* Once recorded or manual, a row's ledger columns stay as they are: a slower
\* worker cannot turn a recorded charge back into a failed one.
SettledIsFinal ==
  [][\A m \in Msg : msgs[m].ledger \in {"recorded", "manual"} =>
        /\ msgs'[m].ledger = msgs[m].ledger
        /\ msgs'[m].entry = msgs[m].entry]_ledgerVars

\* The worker keeps the promise stated in ChargePromise.
Promise == INSTANCE ChargePromise WITH
             claim <- [m \in Msg |-> msgs[m].ledger], entries <- book

KeepsPromise == Promise!Spec

SettlesAmong(S) ==
  \A m \in S :
    (msgs[m].ledger \in Owed /\ msgs[m].status \in Billable) ~>
      (msgs[m].ledger \in {"recorded", "manual"} \/ msgs[m].status = "failed")


\* The integration document and the worker's docstring say it of every message:
\* after MAX_ATTEMPTS without success it is promoted to manual.
EverySettles == SettlesAmong(Msg)
=============================================================================
