------------------------------ MODULE Messages ------------------------------
(***************************************************************************)
(* The table `messages` of the Centro de Mensajes: one row per message,    *)
(* shared by the dispatch handler, the webhook handler and the ledger      *)
(* retry worker.  Here are the columns the program reads back to decide    *)
(* something, the values they take, the default row of an INSERT and the   *)
(* two BEFORE UPDATE triggers that can make a statement fail.              *)
(*                                                                         *)
(* A message id is a member of Msg; a row whose status is "absent" has not *)
(* been inserted yet.  The provider gives every mail it accepts an id of   *)
(* its own, so external_message_id is a flag: set, or still NULL.  A       *)
(* finanzas-core entry is named by the source_ref it was created with.     *)
(***************************************************************************)
EXTENDS Naturals, FiniteSets

CONSTANTS Msg          \* the message ids (uuid4) of the messages considered

ASSUME MsgAssumption == IsFiniteSet(Msg)

VARIABLE msgs          \* the committed content of the table

Status       == {"absent", "queued", "sent", "delivered", "bounced", "failed"}
LedgerStatus == {"not_applicable", "pending", "recorded", "failed", "manual"}

\* The statuses reports/usage counts and the retry worker charges.
Billable == {"sent", "delivered", "bounced"}

\* The statuses no transition leaves.
Terminal == {"delivered", "bounced", "failed"}

\* The ledger statuses the retry worker looks for.
Owed == {"pending", "failed"}

\* source_ref_for(channel, id): a fixed function of the message.
SourceRef(m) == <<"msg-email", m>>
NoRef        == <<>>
Ref          == {SourceRef(m) : m \in Msg}

Row == [status   : Status,
        external : BOOLEAN,
        ledger   : LedgerStatus,
        attempts : Nat,
        request  : Ref \cup {NoRef},
        entry    : Ref \cup {NoRef}]

\* A row before its INSERT: the columns' defaults.
AbsentRow == [status |-> "absent", external |-> FALSE,
              ledger |-> "not_applicable", attempts |-> 0,
              request |-> NoRef, entry |-> NoRef]

-----------------------------------------------------------------------------
\* trg_messages_status_lifecycle: the status changes an UPDATE may make.
LifecycleAllows(old, new) ==
  \/ old = new
  \/ old = "queued" /\ new \in {"sent", "failed"}
  \/ old = "sent"   /\ new \in Terminal

\* trg_messages_block_mutation, on the columns kept here: the provider's id
\* and the ledger's request id are set once.
MutationAllows(old, new) ==
  /\ old.external => new.external
  /\ old.request # NoRef => new.request = old.request

\* An UPDATE that takes row old to row new raises no exception.
TriggersAllow(old, new) ==
  /\ LifecycleAllows(old.status, new.status)
  /\ MutationAllows(old, new)

RowsTypeOK == msgs \in [Msg -> Row]
=============================================================================
