----------------------------- MODULE MCDispatch -----------------------------
(* Instance of ApiService for TLC: an email request and two requests to      *)
(* record, all with one source_ref and one key, one more than its limit.     *)
EXTENDS ApiService

CONSTANTS m1, r1, r2

MCCallerRef == [m \in Msg |-> "ref"]
=============================================================================
