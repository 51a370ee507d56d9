------------------------- MODULE LedgerRetryProofs -------------------------
(***************************************************************************)
(* Proofs about the ledger retry worker, for any number of messages,       *)
(* workers and attempts and any batch size.                                *)
(*                                                                         *)
(* None of the safety properties is inductive: whether a commit keeps the  *)
(* committed rows right depends on what the open transactions hold.  The   *)
(* invariant LedgerInv says it: locks are exclusive, a locked row is the   *)
(* row its SELECT read, and an uncommitted row is already a right one.     *)
(***************************************************************************)
EXTENDS LedgerRetry, TLAPS, FiniteSetTheorems

\* A row is locked by one transaction at most.
LocksExclusive ==
  \A v, w \in Worker : v # w => Held(v) \cap Held(w) = {}

\* What a worker has to POST and what it has written are rows it holds, and
\* no row is both.
BatchesHeld ==
  \A w \in Worker : /\ todo[w] \subseteq Held(w)
                    /\ DOMAIN written[w] \subseteq Held(w)
                    /\ todo[w] \cap DOMAIN written[w] = {}

\* A locked row is still what the SELECT's WHERE clause asked for.
HeldRowsDue ==
  \A w \in Worker : \A m \in Held(w) :
    /\ picked[w][m] = msgs[m]
    /\ msgs[m].ledger \in Owed
    /\ msgs[m].attempts < MaxAttempts
    /\ msgs[m].status \in Billable

\* The ledger columns of message m in a row are right, given the entries of
\* finanzas-core.
SoundRow(m, row, entries) ==
  /\ row.request \in {NoRef, SourceRef(m)}
  /\ row.ledger = "recorded" =>
       /\ row.entry = SourceRef(m)
       /\ [ref |-> SourceRef(m), msg |-> m] \in entries
  /\ row.ledger \in Owed => row.attempts < MaxAttempts
  /\ row.ledger = "not_applicable" => row.attempts = 0
  /\ row.status \in {"absent", "queued"} => row.ledger = "not_applicable"

RowsSound == \A m \in Msg : SoundRow(m, msgs[m], book)

\* An uncommitted row is the committed one with an attempt's outcome.
WrittenSound ==
  \A w \in Worker : \A m \in DOMAIN written[w] :
    /\ written[w][m].status = msgs[m].status
    /\ written[w][m].ledger \in {"recorded", "failed", "manual"}
    /\ SoundRow(m, written[w][m], book)

\* Every entry was made under its message's own source_ref.
BookByRef == \A e \in book : e.ref = SourceRef(e.msg)

LedgerInv ==
  /\ LedgerTypeOK
  /\ LocksExclusive
  /\ BatchesHeld
  /\ HeldRowsDue
  /\ RowsSound
  /\ WrittenSound
  /\ BookByRef

-----------------------------------------------------------------------------
\* Two messages have two source_refs.
LEMMA SourceRefInjective ==
  ASSUME NEW m \in Msg, NEW n \in Msg, SourceRef(m) = SourceRef(n)
  PROVE  m = n
BY DEF SourceRef

\* A source_ref is one of the refs the row may hold.
LEMMA RefsTyped == \A m \in Msg : SourceRef(m) \in Ref
BY DEF Ref

\* Renumbered, the stamps and the starts are natural numbers.
LEMMA RenumberedTyped ==
  ASSUME NEW stamps \in [Msg -> Nat], NEW starts \in [Worker -> Nat],
         Renumbered(stamps, starts)
  PROVE  last' \in [Msg -> Nat] /\ began' \in [Worker -> Nat]
<1> DEFINE used == {stamps[m] : m \in Msg} \cup {starts[w] : w \in Worker}
<1>1. ASSUME NEW n \in Nat
      PROVE  Cardinality(used \cap (1 .. n)) \in Nat
  <2>1. IsFiniteSet(1 .. n)
    BY FS_Interval
  <2>2. used \cap (1 .. n) \in SUBSET (1 .. n)
    OBVIOUS
  <2>3. IsFiniteSet(used \cap (1 .. n))
    BY <2>1, <2>2, FS_Subset
  <2> QED
    BY <2>3, FS_CardinalityType
<1>2. /\ last'  = [m \in Msg |-> Cardinality(used \cap (1 .. stamps[m]))]
      /\ began' = [w \in Worker |-> Cardinality(used \cap (1 .. starts[w]))]
  BY DEF Renumbered
<1> HIDE DEF used
<1> QED
  BY <1>1, <1>2

\* NOW() is a stamp.
LEMMA NowTyped == Now \in Nat
BY MsgAssumption, WorkerAssumption, FS_CardinalityType DEF Now

\* Every POST for a message goes out under the one source_ref it has.
LEMMA RequestIdIsSourceRef ==
  ASSUME LedgerInv, NEW w \in Worker, NEW m \in Held(w)
  PROVE  /\ m \in Msg
         /\ RequestId(m, picked[w][m]) = SourceRef(m)
<1>1. m \in Msg
  BY DEF LedgerInv, LedgerTypeOK, IsRowMap, Held
<1>2. picked[w][m].request \in {NoRef, SourceRef(m)}
  BY <1>1 DEF LedgerInv, HeldRowsDue, RowsSound, SoundRow
<1> QED
  BY <1>1, <1>2 DEF RequestId

\* finanzas-core after a POST: nothing is lost, everything is still under its
\* message's ref, and an entry made or found is there.
LEMMA BookAfterPost ==
  ASSUME NEW m \in Msg, NEW answer \in Answers(m), book \subseteq Entry, BookByRef,
         book' = BookAfter(m, SourceRef(m), answer)
  PROVE  /\ book' \subseteq Entry
         /\ book \subseteq book'
         /\ BookByRef'
         /\ answer.made => [ref |-> SourceRef(m), msg |-> m] \in book'
<1> DEFINE entry == [ref |-> SourceRef(m), msg |-> m]
<1>1. entry \in Entry
  BY RefsTyped DEF Entry
<1>2. CASE answer.made /\ \A e \in book : e.ref # SourceRef(m)
  BY <1>1, <1>2 DEF BookAfter, BookByRef
<1>3. CASE answer.made /\ \E e \in book : e.ref = SourceRef(m)
  <2>1. book' = book
    BY <1>3 DEF BookAfter
  <2>2. PICK e \in book : e.ref = SourceRef(m)
    BY <1>3
  <2>3. e.msg \in Msg /\ e.ref = SourceRef(e.msg)
    BY DEF Entry, BookByRef
  <2>4. e.msg = m
    BY <2>2, <2>3, SourceRefInjective
  <2>5. e = entry
    BY <2>2, <2>4 DEF Entry
  <2> QED
    BY <2>1, <2>5 DEF BookByRef
<1>4. CASE ~answer.made
  BY <1>4 DEF BookAfter, BookByRef
<1> QED
  BY <1>2, <1>3, <1>4

\* What an attempt writes is a row, and a sound one.
LEMMA AttemptedRowSound ==
  ASSUME LedgerInv, NEW w \in Worker, NEW m \in Held(w),
         NEW answer \in Answers(m), answer.says # "untyped",
         NEW entries,
         answer.made => [ref |-> SourceRef(m), msg |-> m] \in entries
  PROVE  /\ AttemptedRow(m, picked[w][m], answer) \in Row
         /\ AttemptedRow(m, picked[w][m], answer).status = msgs[m].status
         /\ AttemptedRow(m, picked[w][m], answer).ledger \in {"recorded", "failed", "manual"}
         /\ SoundRow(m, AttemptedRow(m, picked[w][m], answer), entries)
<1> DEFINE row == AttemptedRow(m, picked[w][m], answer)
           old == msgs[m]
<1>1. m \in Msg /\ RequestId(m, picked[w][m]) = SourceRef(m)
  BY RequestIdIsSourceRef
<1>2. old \in Row /\ SoundRow(m, old, book) /\ picked[w][m] = old
  BY <1>1 DEF LedgerInv, LedgerTypeOK, RowsTypeOK, RowsSound, HeldRowsDue
<1>3. old.ledger \in Owed /\ old.attempts \in Nat /\ old.attempts < MaxAttempts
      /\ old.status \in Billable
  BY <1>1, <1>2 DEF LedgerInv, HeldRowsDue, Row
<1>4. row = [old EXCEPT !.ledger   = Outcome(answer, old),
                        !.attempts = @ + 1,
                        !.request  = IF @ = NoRef THEN SourceRef(m) ELSE @,
                        !.entry    = IF answer.says = "ok" THEN SourceRef(m) ELSE @]
  BY <1>1, <1>2 DEF AttemptedRow
<1>5. /\ Outcome(answer, old) \in {"recorded", "failed", "manual"}
      /\ Outcome(answer, old) = "recorded" => answer.says = "ok" /\ answer.made
      /\ Outcome(answer, old) = "failed" => old.attempts + 1 < MaxAttempts
  BY <1>3, MaxAttemptsAssumption DEF Outcome, Answers
<1>6. row \in Row
  <2> DEFINE request == IF old.request = NoRef THEN SourceRef(m) ELSE old.request
             entry   == IF answer.says = "ok" THEN SourceRef(m) ELSE old.entry
  <2>1. row = [status |-> old.status, external |-> old.external,
               ledger |-> Outcome(answer, old), attempts |-> old.attempts + 1,
               request |-> request, entry |-> entry]
    BY <1>2, <1>4 DEF Row
  <2>2. old.status \in Status /\ old.external \in BOOLEAN
    BY <1>2 DEF Row
  <2>3. request \in Ref \cup {NoRef} /\ entry \in Ref \cup {NoRef}
    BY <1>1, <1>2, RefsTyped DEF Row
  <2>4. Outcome(answer, old) \in LedgerStatus
    BY <1>5 DEF LedgerStatus
  <2>5. old.attempts + 1 \in Nat
    BY <1>3
  <2> HIDE DEF row, old, request, entry
  <2> QED
    BY <2>1, <2>2, <2>3, <2>4, <2>5 DEF Row
<1>7. /\ row.status = old.status
      /\ row.ledger = Outcome(answer, old)
      /\ row.attempts = old.attempts + 1
      /\ row.request = IF old.request = NoRef THEN SourceRef(m) ELSE old.request
      /\ row.entry = IF answer.says = "ok" THEN SourceRef(m) ELSE old.entry
  BY <1>2, <1>4 DEF Row
<1>8. row.request \in {NoRef, SourceRef(m)}
  BY <1>2, <1>7 DEF SoundRow
<1>9. row.status \notin {"absent", "queued"}
  BY <1>3, <1>7 DEF Billable
<1> QED
  BY <1>5, <1>6, <1>7, <1>8, <1>9 DEF SoundRow, Owed

-----------------------------------------------------------------------------
(* The invariant, one lemma per action.                                    *)

\* The empty table and idle workers satisfy the invariant.
LEMMA InitInv == LedgerInit => LedgerInv
<1> SUFFICES ASSUME LedgerInit PROVE LedgerInv
  OBVIOUS
<1> USE DEF LedgerInit, NoRows, Held
<1>1. AbsentRow \in Row
  BY DEF AbsentRow, Row, Status, LedgerStatus
<1>2. LedgerTypeOK
  BY <1>1 DEF LedgerTypeOK, RowsTypeOK, IsRowMap
<1>3. LocksExclusive /\ BatchesHeld /\ HeldRowsDue /\ WrittenSound /\ BookByRef
  BY DEF LocksExclusive, BatchesHeld, HeldRowsDue, WrittenSound, BookByRef
<1>4. RowsSound
  BY DEF RowsSound, SoundRow, AbsentRow, Owed
<1> QED
  BY <1>2, <1>3, <1>4 DEF LedgerInv

\* A turn locks rows that are due and that nobody else holds.
LEMMA PickInv ==
  ASSUME LedgerInv, NEW w \in Worker, Pick(w)
  PROVE  LedgerInv'
<1> USE DEF LedgerInv
<1>1. PICK B \in SUBSET Eligible :
        /\ picked' = [picked EXCEPT ![w] = [m \in B |-> msgs[m]]]
        /\ todo' = [todo EXCEPT ![w] = B]
  BY DEF Pick
<1>2. UNCHANGED <<msgs, written, cooling, book>> /\ Held(w) = {}
  BY DEF Pick, Idle
<1>3. B \subseteq Msg /\ \A m \in B : Due(m) /\ \A v \in Worker : m \notin Held(v)
  BY <1>1 DEF Eligible, Locked
<1>4. picked'[w] = [m \in B |-> msgs[m]] /\ todo'[w] = B
  BY <1>1 DEF LedgerTypeOK
<1>5. \A v \in Worker \ {w} : picked'[v] = picked[v] /\ todo'[v] = todo[v]
  BY <1>1 DEF LedgerTypeOK
<1>6. Held(w)' = B /\ \A v \in Worker \ {w} : Held(v)' = Held(v)
  BY <1>4, <1>5 DEF Held
<1>7. LedgerTypeOK'
  <2>1. IsRowMap(picked'[w])
    BY <1>3, <1>4 DEF LedgerTypeOK, RowsTypeOK, IsRowMap
  <2>2. \A v \in Worker : IsRowMap(picked'[v])
    BY <1>5, <2>1 DEF LedgerTypeOK
  <2>3. DOMAIN picked' = Worker /\ todo' \in [Worker -> SUBSET Msg]
    BY <1>1, <1>3 DEF LedgerTypeOK
  <2>4. Renumbered(last, [began EXCEPT ![w] = Now])
    BY DEF Pick
  <2>5. last \in [Msg -> Nat] /\ [began EXCEPT ![w] = Now] \in [Worker -> Nat]
    BY NowTyped DEF LedgerTypeOK
  <2>6. last' \in [Msg -> Nat] /\ began' \in [Worker -> Nat]
    BY <2>4, <2>5, RenumberedTyped
  <2> QED
    BY <1>2, <2>2, <2>3, <2>6 DEF LedgerTypeOK, RowsTypeOK
<1>8. LocksExclusive'
  BY <1>3, <1>6 DEF LocksExclusive
<1>9. BatchesHeld'
  BY <1>2, <1>4, <1>5, <1>6 DEF BatchesHeld
<1>10. HeldRowsDue'
  BY <1>2, <1>3, <1>4, <1>5, <1>6 DEF HeldRowsDue, Due
<1>11. RowsSound' /\ WrittenSound' /\ BookByRef'
  BY <1>2 DEF RowsSound, SoundRow, WrittenSound, BookByRef
<1> QED
  BY <1>7, <1>8, <1>9, <1>10, <1>11

\* A POST and its UPDATE touch the worker's own uncommitted rows and the book.
LEMMA AttemptInv ==
  ASSUME LedgerInv, NEW w \in Worker, NEW m \in Msg, Attempt(w, m)
  PROVE  LedgerInv'
<1>1. m \in todo[w] /\ m \in Held(w)
  BY DEF Attempt, LedgerInv, BatchesHeld
<1>2. UNCHANGED <<msgs, picked, last, began, cooling>>
  BY DEF Attempt
<1>3. PICK answer \in Answers(m) :
        /\ book' = BookAfter(m, SourceRef(m), answer)
        /\ written' = IF answer.says = "untyped" THEN written
                      ELSE [written EXCEPT ![w] =
                             [n \in DOMAIN @ \cup {m} |->
                                IF n = m THEN AttemptedRow(m, picked[w][m], answer)
                                ELSE @[n]]]
  BY <1>1, RequestIdIsSourceRef DEF Attempt
<1>4. /\ book' \subseteq Entry
      /\ book \subseteq book'
      /\ BookByRef'
      /\ answer.made => [ref |-> SourceRef(m), msg |-> m] \in book'
  BY <1>3, BookAfterPost DEF LedgerInv, LedgerTypeOK
<1>5. todo' = [todo EXCEPT ![w] = @ \ {m}]
  BY DEF Attempt
<1>6. \A v \in Worker : Held(v)' = Held(v)
  BY <1>2 DEF Held
<1>7. \A v \in Worker : DOMAIN written'[v] \subseteq
                          DOMAIN written[v] \cup (IF v = w THEN {m} ELSE {})
  BY <1>3 DEF LedgerInv, LedgerTypeOK
<1>8. \A v \in Worker, n \in Msg : n \in DOMAIN written'[v] =>
        \/ n \in DOMAIN written[v] /\ written'[v][n] = written[v][n]
        \/ /\ v = w /\ n = m /\ answer.says # "untyped"
           /\ written'[v][n] = AttemptedRow(m, picked[w][m], answer)
  BY <1>3 DEF LedgerInv, LedgerTypeOK
<1>9. answer.says # "untyped" =>
        LET row == AttemptedRow(m, picked[w][m], answer)
        IN /\ row \in Row
           /\ row.status = msgs[m].status
           /\ row.ledger \in {"recorded", "failed", "manual"}
           /\ SoundRow(m, row, book')
  BY <1>1, <1>4, AttemptedRowSound
<1>10. LedgerTypeOK'
  <2>1. \A v \in Worker : IsRowMap(written'[v])
    <3> SUFFICES ASSUME NEW v \in Worker PROVE IsRowMap(written'[v])
      OBVIOUS
    <3>1. IsRowMap(written[v])
      BY DEF LedgerInv, LedgerTypeOK
    <3>2. CASE v # w \/ answer.says = "untyped"
      <4>1. written'[v] = written[v]
        BY <1>3, <3>2 DEF LedgerInv, LedgerTypeOK
      <4> QED
        BY <3>1, <4>1
    <3>3. CASE v = w /\ answer.says # "untyped"
      <4>1. written'[v] = [n \in DOMAIN written[v] \cup {m} |->
                             IF n = m THEN AttemptedRow(m, picked[w][m], answer)
                             ELSE written[v][n]]
        BY <1>3, <3>3 DEF LedgerInv, LedgerTypeOK
      <4> QED
        BY <1>9, <3>1, <3>3, <4>1 DEF IsRowMap
    <3> QED
      BY <3>2, <3>3
  <2>2. DOMAIN written' = Worker
    BY <1>3 DEF LedgerInv, LedgerTypeOK
  <2>3. todo' \in [Worker -> SUBSET Msg]
    BY <1>5 DEF LedgerInv, LedgerTypeOK
  <2> QED
    BY <1>2, <1>4, <2>1, <2>2, <2>3 DEF LedgerInv, LedgerTypeOK, RowsTypeOK
<1>11. LocksExclusive'
  BY <1>6 DEF LedgerInv, LocksExclusive
<1>12. BatchesHeld'
  BY <1>1, <1>5, <1>6, <1>7 DEF LedgerInv, LedgerTypeOK, BatchesHeld
<1>13. HeldRowsDue'
  BY <1>2, <1>6 DEF LedgerInv, HeldRowsDue
<1>14. RowsSound'
  BY <1>2, <1>4 DEF LedgerInv, RowsSound, SoundRow
<1>15. WrittenSound'
  <2> SUFFICES ASSUME NEW v \in Worker, NEW n \in DOMAIN written'[v]
               PROVE  /\ written'[v][n].status = msgs[n].status
                      /\ written'[v][n].ledger \in {"recorded", "failed", "manual"}
                      /\ SoundRow(n, written'[v][n], book')
    BY <1>2 DEF WrittenSound, SoundRow
  <2>1. n \in Msg
    BY <1>10 DEF LedgerTypeOK, IsRowMap
  <2>2. CASE n \in DOMAIN written[v] /\ written'[v][n] = written[v][n]
    BY <1>4, <2>2 DEF LedgerInv, WrittenSound, SoundRow
  <2>3. CASE /\ v = w /\ n = m /\ answer.says # "untyped"
             /\ written'[v][n] = AttemptedRow(m, picked[w][m], answer)
    BY <1>9, <2>3
  <2> QED
    BY <1>8, <2>1, <2>2, <2>3
<1> QED
  BY <1>4, <1>10, <1>11, <1>12, <1>13, <1>14, <1>15 DEF LedgerInv

\* What a worker that ends its transaction holds afterwards.
LEMMA ReleaseFacts ==
  ASSUME LedgerTypeOK, NEW w \in Worker, Release(w)
  PROVE  /\ DOMAIN picked' = Worker /\ DOMAIN written' = Worker
         /\ \A v \in Worker : IsRowMap(picked'[v]) /\ IsRowMap(written'[v])
         /\ Held(w)' = {} /\ DOMAIN written'[w] = {}
         /\ \A v \in Worker \ {w} : /\ picked'[v] = picked[v]
                                   /\ written'[v] = written[v]
                                   /\ Held(v)' = Held(v)
<1>1. IsRowMap(NoRows)
  BY DEF IsRowMap, NoRows
<1>2. /\ picked' = [picked EXCEPT ![w] = NoRows]
      /\ written' = [written EXCEPT ![w] = NoRows]
  BY DEF Release
<1>3. picked'[w] = NoRows /\ written'[w] = NoRows
  BY <1>2 DEF LedgerTypeOK
<1> QED
  BY <1>1, <1>2, <1>3 DEF LedgerTypeOK, Held, NoRows

\* The uncommitted rows become the committed ones; the others' locks keep their
\* rows out of it.
LEMMA CommitInv ==
  ASSUME LedgerInv, NEW w \in Worker, Commit(w)
  PROVE  LedgerInv'
<1> USE DEF LedgerInv
<1>1. /\ msgs' = [m \in Msg |-> IF m \in DOMAIN written[w] THEN written[w][m] ELSE msgs[m]]
      /\ Renumbered(Stamped(w), [began EXCEPT ![w] = 0])
      /\ cooling' = cooling \cup StillOwed(w)
      /\ todo[w] = {}
      /\ Release(w)
      /\ UNCHANGED <<todo, book>>
  BY DEF Commit
<1>2. DOMAIN written[w] \subseteq Msg /\ DOMAIN written[w] \subseteq Held(w)
  BY DEF LedgerTypeOK, IsRowMap, BatchesHeld
<1>3. \A v \in Worker \ {w} : \A m \in Held(v) : m \in Msg /\ msgs'[m] = msgs[m]
  BY <1>1, <1>2 DEF LocksExclusive, LedgerTypeOK, IsRowMap, Held
<1>4. LedgerTypeOK'
  <2>1. \A m \in DOMAIN written[w] : written[w][m] \in Row
    BY DEF LedgerTypeOK, IsRowMap
  <2>2. msgs' \in [Msg -> Row]
    BY <1>1, <2>1 DEF LedgerTypeOK, RowsTypeOK
  <2>3. Stamped(w) \in [Msg -> Nat] /\ [began EXCEPT ![w] = 0] \in [Worker -> Nat]
    BY DEF LedgerTypeOK, Stamped, StillOwed
  <2>4. last' \in [Msg -> Nat] /\ began' \in [Worker -> Nat]
    BY <1>1, <2>3, RenumberedTyped
  <2>5. cooling' \subseteq Msg
    BY <1>1, <1>2 DEF LedgerTypeOK, StillOwed
  <2> QED
    BY <1>1, <2>2, <2>4, <2>5, ReleaseFacts DEF LedgerTypeOK, RowsTypeOK
<1>5. LocksExclusive'
  BY <1>1, ReleaseFacts DEF LocksExclusive
<1>6. BatchesHeld'
  BY <1>1, ReleaseFacts DEF BatchesHeld
<1>7. HeldRowsDue'
  <2> SUFFICES ASSUME NEW v \in Worker, NEW m \in Held(v)'
               PROVE  /\ picked'[v][m] = msgs'[m]
                      /\ msgs'[m].ledger \in Owed
                      /\ msgs'[m].attempts < MaxAttempts
                      /\ msgs'[m].status \in Billable
    BY DEF HeldRowsDue
  <2>1. v # w /\ picked'[v] = picked[v] /\ m \in Held(v)
    BY <1>1, ReleaseFacts
  <2>2. msgs'[m] = msgs[m]
    BY <1>3, <2>1
  <2> QED
    BY <2>1, <2>2 DEF HeldRowsDue
<1>8. RowsSound'
  BY <1>1, <1>2 DEF RowsSound, WrittenSound, SoundRow
<1>9. WrittenSound'
  <2> SUFFICES ASSUME NEW v \in Worker, NEW m \in DOMAIN written'[v]
               PROVE  /\ written'[v][m].status = msgs'[m].status
                      /\ written'[v][m].ledger \in {"recorded", "failed", "manual"}
                      /\ SoundRow(m, written'[v][m], book')
    BY DEF WrittenSound, SoundRow
  <2>1. v # w /\ written'[v] = written[v]
    BY <1>1, ReleaseFacts
  <2>2. m \in Held(v)
    BY <2>1 DEF BatchesHeld
  <2> QED
    BY <1>1, <1>3, <2>1, <2>2 DEF WrittenSound, SoundRow
<1>10. BookByRef'
  BY <1>1 DEF BookByRef
<1> QED
  BY <1>4, <1>5, <1>6, <1>7, <1>8, <1>9, <1>10

\* A rollback: the locks and the uncommitted rows go.
LEMMA AbortInv ==
  ASSUME LedgerInv, NEW w \in Worker, Abort(w)
  PROVE  LedgerInv'
<1> USE DEF LedgerInv
<1>1. /\ todo' = [todo EXCEPT ![w] = {}]
      /\ Renumbered(last, [began EXCEPT ![w] = 0])
      /\ Release(w)
      /\ UNCHANGED <<msgs, cooling, book>>
  BY DEF Abort
<1>2. LedgerTypeOK'
  <2>1. last \in [Msg -> Nat] /\ [began EXCEPT ![w] = 0] \in [Worker -> Nat]
    BY DEF LedgerTypeOK
  <2>2. last' \in [Msg -> Nat] /\ began' \in [Worker -> Nat]
    BY <1>1, <2>1, RenumberedTyped
  <2> QED
    BY <1>1, <2>2, ReleaseFacts DEF LedgerTypeOK, RowsTypeOK
<1>3. LocksExclusive' /\ HeldRowsDue'
  BY <1>1, ReleaseFacts DEF LocksExclusive, HeldRowsDue
<1>4. BatchesHeld'
  BY <1>1, ReleaseFacts DEF BatchesHeld, LedgerTypeOK
<1>5. WrittenSound'
  BY <1>1, ReleaseFacts DEF WrittenSound, SoundRow
<1>6. RowsSound' /\ BookByRef'
  BY <1>1 DEF RowsSound, SoundRow, BookByRef
<1> QED
  BY <1>2, <1>3, <1>4, <1>5, <1>6

\* Time passing changes nothing the invariant speaks of but the cooling set.
LEMMA ElapseInv ==
  ASSUME LedgerInv, Elapse
  PROVE  LedgerInv'
<1>1. cooling' \subseteq cooling /\ UNCHANGED <<msgs, picked, todo, written, last, began, book>>
  BY DEF Elapse
<1> QED
  BY <1>1 DEF LedgerInv, LedgerTypeOK, RowsTypeOK, LocksExclusive, BatchesHeld,
              HeldRowsDue, RowsSound, SoundRow, WrittenSound, BookByRef, Held

\* What the rest of the system writes: a row nobody has locked, and of the
\* ledger columns only the first `pending`.
LEMMA OthersFacts ==
  ASSUME LedgerInv, NEW m \in Msg, OthersWrite(m)
  PROVE  /\ msgs' \in [Msg -> Row]
         /\ \A n \in Msg \ {m} : msgs'[n] = msgs[n]
         /\ SoundRow(m, msgs'[m], book)
         /\ \/ msgs'[m].ledger = msgs[m].ledger
            \/ msgs[m].ledger = "not_applicable" /\ msgs'[m].ledger = "pending"
         /\ msgs'[m].entry = msgs[m].entry
<1> DEFINE old == msgs[m]
<1>1. msgs \in [Msg -> Row] /\ old \in Row /\ SoundRow(m, old, book)
  BY DEF LedgerInv, LedgerTypeOK, RowsTypeOK, RowsSound
<1>2. MaxAttempts > 0
  BY MaxAttemptsAssumption
<1>3. CASE /\ old.status = "absent"
           /\ \E s \in {"queued", "sent"} : msgs' = [msgs EXCEPT ![m].status = s]
  BY <1>1, <1>3 DEF Row, Status, SoundRow
<1>4. CASE old.status = "queued" /\ msgs' = [msgs EXCEPT ![m].status = "failed"]
  BY <1>1, <1>4 DEF Row, Status, SoundRow
<1>5. CASE /\ old.status = "queued"
           /\ \E l \in {"not_applicable", "pending"} :
                msgs' = [msgs EXCEPT ![m].status = "sent", ![m].external = TRUE,
                                     ![m].ledger = l]
  <2>1. PICK l \in {"not_applicable", "pending"} :
          msgs' = [msgs EXCEPT ![m].status = "sent", ![m].external = TRUE,
                               ![m].ledger = l]
    BY <1>5
  <2>2. old.ledger = "not_applicable" /\ old.attempts = 0
    BY <1>1, <1>5 DEF SoundRow
  <2> QED
    BY <1>1, <1>2, <2>1, <2>2 DEF Row, Status, LedgerStatus, SoundRow, Owed
<1>6. CASE /\ old.status = "sent" /\ old.external
           /\ \E s \in Terminal : msgs' = [msgs EXCEPT ![m].status = s]
  BY <1>1, <1>6 DEF Row, Status, SoundRow, Terminal
<1> QED
  BY <1>3, <1>4, <1>5, <1>6 DEF OthersWrite

\* What the others write leaves every open transaction as it was.
LEMMA OthersInv ==
  ASSUME LedgerInv, NEW m \in Msg, OthersWrite(m)
  PROVE  LedgerInv'
<1>1. UNCHANGED <<picked, todo, written, last, began, cooling, book>> /\ m \notin Locked
  BY DEF OthersWrite, workerVars
<1>2. \A w \in Worker : Held(w)' = Held(w) /\ m \notin Held(w)
  BY <1>1 DEF Held, Locked
<1>3. \A w \in Worker : \A n \in Held(w) : n \in Msg /\ msgs'[n] = msgs[n]
  BY <1>2, OthersFacts DEF LedgerInv, LedgerTypeOK, IsRowMap, Held
<1>4. LedgerTypeOK'
  BY <1>1, OthersFacts DEF LedgerInv, LedgerTypeOK, RowsTypeOK
<1>5. LocksExclusive' /\ BatchesHeld' /\ BookByRef'
  BY <1>1, <1>2 DEF LedgerInv, LocksExclusive, BatchesHeld, BookByRef
<1>6. HeldRowsDue'
  BY <1>1, <1>2, <1>3 DEF LedgerInv, HeldRowsDue
<1>7. RowsSound'
  <2>1. SoundRow(m, msgs'[m], book) /\ \A n \in Msg \ {m} : msgs'[n] = msgs[n]
    BY OthersFacts
  <2>2. \A n \in Msg : SoundRow(n, msgs'[n], book)
    BY <2>1 DEF LedgerInv, RowsSound
  <2>3. book' = book
    BY <1>1
  <2> QED
    BY <2>2, <2>3 DEF RowsSound, SoundRow
<1>8. WrittenSound'
  <2> SUFFICES ASSUME NEW w \in Worker, NEW n \in DOMAIN written'[w]
               PROVE  /\ written'[w][n].status = msgs'[n].status
                      /\ written'[w][n].ledger \in {"recorded", "failed", "manual"}
                      /\ SoundRow(n, written'[w][n], book')
    BY DEF WrittenSound
  <2>1. written' = written /\ book' = book /\ n \in DOMAIN written[w]
    BY <1>1
  <2>2. n \in Held(w) /\ msgs'[n] = msgs[n]
    BY <1>3, <2>1 DEF LedgerInv, BatchesHeld
  <2> QED
    BY <2>1, <2>2 DEF LedgerInv, WrittenSound
<1> QED
  BY <1>4, <1>5, <1>6, <1>7, <1>8 DEF LedgerInv

\* The invariant is inductive: every step of any worker, of time or of the rest
\* of the system keeps it.
LEMMA NextInv == LedgerInv /\ [LedgerNext]_ledgerVars => LedgerInv'
<1> SUFFICES ASSUME LedgerInv, [LedgerNext]_ledgerVars PROVE LedgerInv'
  OBVIOUS
<1>1. ASSUME NEW w \in Worker, Work(w) PROVE LedgerInv'
  BY <1>1, PickInv, AttemptInv, CommitInv DEF Work
<1>2. ASSUME NEW w \in Worker, Abort(w) PROVE LedgerInv'
  BY <1>2, AbortInv
<1>3. CASE Elapse
  BY <1>3, ElapseInv
<1>4. ASSUME NEW m \in Msg, OthersWrite(m) PROVE LedgerInv'
  BY <1>4, OthersInv
<1>5. CASE UNCHANGED ledgerVars
  BY <1>5 DEF ledgerVars, workerVars, LedgerInv, LedgerTypeOK, RowsTypeOK,
              LocksExclusive, BatchesHeld, HeldRowsDue, RowsSound, SoundRow,
              WrittenSound, BookByRef, Held
<1> QED
  BY <1>1, <1>2, <1>3, <1>4, <1>5 DEF LedgerNext

-----------------------------------------------------------------------------
(* The theorems.                                                           *)

\* In every reachable state the locks are exclusive, the locked rows are as they
\* were read, and committed and uncommitted rows agree with finanzas-core.
THEOREM LedgerInvariance == LedgerSpec => []LedgerInv
BY InitInv, NextInv, PTL DEF LedgerSpec

\* Every variable of the worker keeps its type, in every state.
THEOREM LedgerTypeCorrect == LedgerSpec => []LedgerTypeOK
<1>1. LedgerInv => LedgerTypeOK
  BY DEF LedgerInv
<1> QED
  BY <1>1, LedgerInvariance, PTL

\* No message is charged twice: two entries for one message are one entry.
THEOREM ChargedOnceHolds == LedgerSpec => []ChargedOnce
<1>1. LedgerInv => ChargedOnce
  <2> SUFFICES ASSUME LedgerInv, NEW e \in book, NEW f \in book, e.msg = f.msg
               PROVE  e = f
    BY DEF ChargedOnce
  <2>1. e \in Entry /\ f \in Entry
    BY DEF LedgerInv, LedgerTypeOK
  <2>2. e.ref = f.ref
    BY DEF LedgerInv, BookByRef
  <2> QED
    BY <2>1, <2>2 DEF Entry
<1> QED
  BY <1>1, LedgerInvariance, PTL

\* A row that says recorded names an entry that finanzas-core holds.
THEOREM RecordedHasEntryHolds == LedgerSpec => []RecordedHasEntry
<1>1. LedgerInv => RecordedHasEntry
  BY DEF LedgerInv, RowsSound, SoundRow, RecordedHasEntry
<1> QED
  BY <1>1, LedgerInvariance, PTL

\* A row that is still owed has attempts left, whatever MAX_ATTEMPTS is.
THEOREM OwedHasTriesLeftHolds == LedgerSpec => []OwedHasTriesLeft
<1>1. LedgerInv => OwedHasTriesLeft
  BY DEF LedgerInv, RowsSound, SoundRow, OwedHasTriesLeft
<1> QED
  BY <1>1, LedgerInvariance, PTL

\* The rows of a batch are as the SELECT read them until its transaction ends.
THEOREM BatchIsFreshHolds == LedgerSpec => []BatchIsFresh
<1>1. LedgerInv => BatchIsFresh
  BY DEF LedgerInv, HeldRowsDue, BatchIsFresh
<1> QED
  BY <1>1, LedgerInvariance, PTL

\* Charges are made only for messages that are sent, delivered or bounced.
THEOREM ChargesOnlyBillableHolds == LedgerSpec => ChargesOnlyBillable
<1>1. LedgerInv /\ [LedgerNext]_ledgerVars =>
        [\A e \in book' \ book : msgs[e.msg].status \in Billable]_ledgerVars
  <2>1. ASSUME LedgerInv, LedgerNext, NEW e \in book' \ book
        PROVE  msgs[e.msg].status \in Billable
    <3>1. PICK w \in Worker, m \in Msg : Attempt(w, m)
      BY <2>1 DEF LedgerNext, Work, Pick, Commit, Abort, Elapse, OthersWrite, workerVars
    <3>2. m \in Held(w)
      BY <2>1, <3>1 DEF Attempt, LedgerInv, BatchesHeld
    <3>3. e.msg = m
      BY <2>1, <3>1 DEF Attempt, BookAfter
    <3>4. HeldRowsDue
      BY <2>1 DEF LedgerInv
    <3> QED
      BY <3>2, <3>3, <3>4 DEF HeldRowsDue
  <2> QED
    BY <2>1
<1> QED
  BY <1>1, LedgerInvariance, PTL DEF LedgerSpec, ChargesOnlyBillable

\* What a step may do to the ledger columns of a row: nothing to a settled row,
\* and only what an attempt can end in to an owed one.
LEMMA LedgerColumnStep ==
  ASSUME LedgerInv, LedgerNext, NEW m \in Msg
  PROVE  \/ /\ msgs'[m].ledger = msgs[m].ledger
            /\ msgs'[m].entry = msgs[m].entry
         \/ /\ msgs[m].ledger \in Owed
            /\ msgs'[m].ledger \in {"recorded", "failed", "manual"}
            /\ msgs'[m].ledger = "recorded" => [ref |-> SourceRef(m), msg |-> m] \in book
            /\ \E w \in Worker : Commit(w)
         \/ /\ msgs[m].ledger = "not_applicable" /\ msgs'[m].ledger = "pending"
            /\ msgs'[m].entry = msgs[m].entry
            /\ OthersWrite(m)
<1>1. ASSUME NEW w \in Worker, Commit(w)
      PROVE  \/ msgs'[m] = msgs[m]
             \/ /\ msgs[m].ledger \in Owed
                /\ msgs'[m].ledger \in {"recorded", "failed", "manual"}
                /\ msgs'[m].ledger = "recorded" =>
                      [ref |-> SourceRef(m), msg |-> m] \in book
  <2>1. CASE m \in DOMAIN written[w]
    <3>1. msgs'[m] = written[w][m] /\ m \in Held(w)
      BY <1>1, <2>1 DEF Commit, LedgerInv, BatchesHeld
    <3> QED
      BY <2>1, <3>1 DEF LedgerInv, HeldRowsDue, WrittenSound, SoundRow
  <2>2. CASE m \notin DOMAIN written[w]
    BY <1>1, <2>2 DEF Commit
  <2> QED
    BY <2>1, <2>2
<1>2. CASE \E n \in Msg : OthersWrite(n)
  BY <1>2, OthersFacts
<1>3. CASE UNCHANGED msgs
  BY <1>3
<1> QED
  BY <1>1, <1>2, <1>3 DEF LedgerNext, Work, Pick, Attempt, Abort, Elapse

\* Recorded and manual are final: no later attempt, of any worker, changes them.
THEOREM SettledIsFinalHolds == LedgerSpec => SettledIsFinal
<1>1. LedgerInv /\ [LedgerNext]_ledgerVars =>
        [\A m \in Msg : msgs[m].ledger \in {"recorded", "manual"} =>
            /\ msgs'[m].ledger = msgs[m].ledger
            /\ msgs'[m].entry = msgs[m].entry]_ledgerVars
  BY LedgerColumnStep DEF Owed
<1> QED
  BY <1>1, LedgerInvariance, PTL DEF LedgerSpec, SettledIsFinal

-----------------------------------------------------------------------------
(* The worker implements ChargePromise: what the abstract state sees.      *)

\* A POST is an abstract Enter when it makes an entry, and no step otherwise.
LEMMA AttemptEnters ==
  ASSUME LedgerInv, NEW w \in Worker, NEW m \in Msg, Attempt(w, m)
  PROVE  Promise!Enter(m) \/ UNCHANGED Promise!vars
<1>1. m \in Held(w) /\ UNCHANGED msgs
  BY DEF Attempt, LedgerInv, BatchesHeld
<1>2. PICK answer \in Answers(m) : book' = BookAfter(m, SourceRef(m), answer)
  BY <1>1, RequestIdIsSourceRef DEF Attempt
<1>3. CASE book' = book
  BY <1>1, <1>3 DEF Promise!vars
<1>4. CASE book' # book
  <2>1. /\ book' = book \cup {[ref |-> SourceRef(m), msg |-> m]}
        /\ \A e \in book : e.ref # SourceRef(m)
    BY <1>2, <1>4 DEF BookAfter
  <2>2. \A e \in book : e.msg # m
    BY <2>1 DEF LedgerInv, BookByRef
  <2>3. msgs[m].ledger \in {"pending", "failed"}
    BY <1>1 DEF LedgerInv, HeldRowsDue, Owed
  <2> QED
    BY <1>1, <2>1, <2>2, <2>3, RefsTyped DEF Promise!Enter
<1> QED
  BY <1>3, <1>4

\* A commit is an abstract Answer for all the rows of its batch.
LEMMA CommitAnswers ==
  ASSUME LedgerInv, NEW w \in Worker, Commit(w)
  PROVE  Promise!Answer
<1>1. book' = book /\ LedgerInv'
  BY CommitInv DEF Commit
<1>2. ASSUME NEW m \in Msg
      PROVE  /\ msgs'[m].ledger \in LedgerStatus
             /\ Promise!MayBecome(m, msgs'[m].ledger)
  <2>1. msgs'[m].ledger \in LedgerStatus
    BY <1>1 DEF LedgerInv, LedgerTypeOK, RowsTypeOK, Row
  <2>2. CASE m \in DOMAIN written[w]
    <3>1. msgs'[m] = written[w][m] /\ m \in Held(w)
      BY <2>2 DEF Commit, LedgerInv, BatchesHeld
    <3>2. /\ msgs[m].ledger \in {"pending", "failed"}
          /\ msgs'[m].ledger \in {"recorded", "failed", "manual"}
          /\ msgs'[m].ledger = "recorded" => [ref |-> SourceRef(m), msg |-> m] \in book
      BY <2>2, <3>1 DEF LedgerInv, HeldRowsDue, WrittenSound, SoundRow, Owed
    <3>3. msgs'[m].ledger = "recorded" => \E e \in book : e.msg = m
      BY <3>2
    <3> QED
      BY <2>1, <3>2, <3>3 DEF Promise!MayBecome
  <2>3. CASE m \notin DOMAIN written[w]
    BY <2>1, <2>3 DEF Commit, Promise!MayBecome
  <2> QED
    BY <2>2, <2>3
<1> QED
  BY <1>1, <1>2 DEF Promise!Answer, LedgerStatus

\* Of what the others write, the abstract state sees only the first pending.
LEMMA OthersOwe ==
  ASSUME LedgerInv, NEW m \in Msg, OthersWrite(m)
  PROVE  Promise!Owe(m) \/ UNCHANGED Promise!vars
<1>1. book' = book
  BY DEF OthersWrite, workerVars
<1>2. \A n \in Msg \ {m} : msgs'[n].ledger = msgs[n].ledger
  BY OthersFacts
<1>3. CASE msgs'[m].ledger = msgs[m].ledger
  BY <1>1, <1>2, <1>3 DEF Promise!vars
<1>4. CASE msgs[m].ledger = "not_applicable" /\ msgs'[m].ledger = "pending"
  BY <1>1, <1>2, <1>4 DEF Promise!Owe
<1> QED
  BY <1>3, <1>4, OthersFacts

\* The retry worker, with its batches, rollbacks and timeouts, does nothing that
\* ChargePromise does not allow.
THEOREM LedgerKeepsPromise == LedgerSpec => KeepsPromise
<1>1. LedgerInit => Promise!Init
  BY DEF LedgerInit, Promise!Init, AbsentRow
<1>2. LedgerInv /\ [LedgerNext]_ledgerVars => [Promise!Next]_(Promise!vars)
  <2> SUFFICES ASSUME LedgerInv, [LedgerNext]_ledgerVars
               PROVE  Promise!Next \/ UNCHANGED Promise!vars
    OBVIOUS
  <2>1. ASSUME NEW w \in Worker, NEW m \in Msg, Attempt(w, m)
        PROVE  Promise!Next \/ UNCHANGED Promise!vars
    BY <2>1, AttemptEnters DEF Promise!Next
  <2>2. ASSUME NEW w \in Worker, Commit(w)
        PROVE  Promise!Next
    BY <2>2, CommitAnswers DEF Promise!Next
  <2>3. ASSUME NEW m \in Msg, OthersWrite(m)
        PROVE  Promise!Next \/ UNCHANGED Promise!vars
    BY <2>3, OthersOwe DEF Promise!Next
  <2>4. CASE UNCHANGED <<msgs, book>>
    BY <2>4 DEF Promise!vars
  <2>5. CASE UNCHANGED ledgerVars
    BY <2>4, <2>5 DEF ledgerVars, workerVars
  <2> QED
    BY <2>1, <2>2, <2>3, <2>4, <2>5
    DEF LedgerNext, Work, Pick, Abort, Elapse
<1> QED
  BY <1>1, <1>2, LedgerInvariance, PTL DEF LedgerSpec, KeepsPromise, Promise!Spec
=============================================================================
