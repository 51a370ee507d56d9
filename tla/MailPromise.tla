---------------------------- MODULE MailPromise ----------------------------
(***************************************************************************)
(* What the Centro promises the application that sends or records messages *)
(* with it, without requests, errors or processes: a mail is taken by the  *)
(* provider only while its row is undecided, so that no mail leaves for a  *)
(* row already closed; `sent` is said of a mail that was taken or that its *)
(* caller recorded; and what is decided is decided once.                   *)
(***************************************************************************)
CONSTANT Mail

VARIABLES fate,    \* mail -> what the table says of it
          taken    \* the mails the provider took

promiseVars == <<fate, taken>>

Init == fate = [m \in Mail |-> "unknown"] /\ taken = {}

Becomes(m, from, to) == fate[m] = from /\ fate' = [fate EXCEPT ![m] = to]

Accept(m) == Becomes(m, "unknown", "queued") /\ UNCHANGED taken

\* A mail that was sent by somebody else.
Record(m) == Becomes(m, "unknown", "sent") /\ UNCHANGED taken

Take(m) ==
  /\ fate[m] = "queued"
  /\ taken' = taken \cup {m}
  /\ UNCHANGED fate

Decide(m) ==
  /\ \/ m \in taken /\ Becomes(m, "queued", "sent")
     \/ Becomes(m, "queued", "failed")
  /\ UNCHANGED taken

Next == \E m \in Mail : Accept(m) \/ Record(m) \/ Take(m) \/ Decide(m)

Spec == Init /\ [][Next]_promiseVars
=============================================================================
