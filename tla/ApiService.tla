----------------------------- MODULE ApiService -----------------------------
(***************************************************************************)
(* The message endpoints as their callers meet them: require_scope runs    *)
(* before send_email and record_message, and hands them its session.       *)
(***************************************************************************)
EXTENDS Dispatch, ApiKeyAuth

\* Every request is checked before its handler.
ASSUME CheckedAssumption == Caller = Msg

serviceVars == <<dispatchVars, authVars>>

ServiceTypeOK == DispatchTypeOK /\ AuthTypeOK

ServiceInit == DispatchInit /\ AuthInit

\* Slip for the mutation checks: the handler runs beside the check.
HandleUnchecked(m) ==
  /\ \/ auth[m].at \notin {"refused", "aborted"} /\ HandleRequest(m)
     \/ auth[m] = At("aborted") /\ Reject(m)
  /\ UNCHANGED authVars

\* The handler of an admitted request.  If the check left its session with a
\* failed transaction, the first statement raises: a 500, and nothing stored.
Handle(m) ==
  /\ \/ auth[m] = At("admitted") /\ HandleRequest(m)
     \/ auth[m] = At("aborted") /\ Reject(m)
  /\ UNCHANGED authVars

ServiceNext ==
  \/ \E m \in Msg :
       \/ (Authenticate(m) \/ Lose(m)) /\ UNCHANGED dispatchVars
       \/ Handle(m)
       \/ Crash(m) /\ UNCHANGED authVars
  \/ WindowEnds /\ UNCHANGED dispatchVars

ServiceSpec == ServiceInit /\ [][ServiceNext]_serviceVars

ServiceFairSpec == ServiceSpec /\ DispatchFairness

-----------------------------------------------------------------------------
\* A request that is not admitted with a sound session stores no row and sends no
\* mail, before or after its check is answered: a 429, a 401 and the 500 of a
\* session that the UPDATE of last_used_at left failed may all be repeated.
NoEffectUnlessAdmitted ==
  \A m \in Msg : auth[m] # At("admitted") => msgs[m] = AbsentRow /\ m \notin accepted
=============================================================================
