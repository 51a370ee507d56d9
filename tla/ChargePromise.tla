--------------------------- MODULE ChargePromise ---------------------------
(***************************************************************************)
(* What the ledger side of the Centro promises, without workers, batches,  *)
(* transactions or retries: a message that is owed is entered in           *)
(* finanzas-core at most once, and only while it is owed; it is called     *)
(* recorded only when its entry exists; recorded and manual are final.     *)
(* The entry and the answer are two steps, so a message may be entered and *)
(* still be owed, or even end up manual.                                   *)
(***************************************************************************)
CONSTANTS Msg, Ref

VARIABLES
  claim,    \* message -> its ledger_status
  entries   \* the entries of finanzas-core

vars == <<claim, entries>>

Init ==
  /\ claim = [m \in Msg |-> "not_applicable"]
  /\ entries = {}

Owe(m) ==
  /\ claim[m] = "not_applicable"
  /\ claim' = [claim EXCEPT ![m] = "pending"]
  /\ UNCHANGED entries

Enter(m) ==
  /\ claim[m] \in {"pending", "failed"}
  /\ \A e \in entries : e.msg # m
  /\ \E r \in Ref : entries' = entries \cup {[ref |-> r, msg |-> m]}
  /\ UNCHANGED claim

\* Any number of owed messages get an answer at once.
MayBecome(m, c) ==
  \/ c = claim[m]
  \/ /\ claim[m] \in {"pending", "failed"}
     /\ c \in {"failed", "manual", "recorded"}
     /\ c = "recorded" => \E e \in entries : e.msg = m

Answer ==
  /\ claim' \in [Msg -> {"not_applicable", "pending", "failed", "manual", "recorded"}]
  /\ \A m \in Msg : MayBecome(m, claim'[m])
  /\ UNCHANGED entries

Next == Answer \/ \E m \in Msg : Owe(m) \/ Enter(m)

Spec == Init /\ [][Next]_vars
=============================================================================
