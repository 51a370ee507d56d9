-------------------------- MODULE ApiServiceProofs --------------------------
(***************************************************************************)
(* The endpoints behind the check of their key.  A step of the service is  *)
(* a step of the check, a step of a handler, or the end of a process: the  *)
(* service implements each of its two parts, and what is proved of a part  *)
(* holds of the service.  The check only takes requests away from the      *)
(* handlers and adds no way to run one.                                    *)
(***************************************************************************)
EXTENDS ApiService, DispatchProofs, ApiKeyAuthProofs

\* A handler that meets an aborted session rejects; any other step of the service
\* that moves a handler is one of the handler's own.
LEMMA ServiceStepDispatches ==
  [ServiceNext]_serviceVars => [DispatchNext]_dispatchVars
<1> SUFFICES ASSUME [ServiceNext]_serviceVars PROVE [DispatchNext]_dispatchVars
  OBVIOUS
<1>1. ASSUME NEW m \in Msg, Handle(m) PROVE DispatchNext
  <2>1. HandleRequest(m)
    BY <1>1 DEF Handle, HandleRequest
  <2> QED
    BY <2>1 DEF DispatchNext
<1>2. ASSUME NEW m \in Msg, Crash(m) PROVE DispatchNext
  BY <1>2 DEF DispatchNext
<1>3. CASE UNCHANGED serviceVars
  BY <1>3 DEF serviceVars
<1> QED
  BY <1>1, <1>2, <1>3 DEF ServiceNext

\* The requests that are checked are those that are handled, so that every step of
\* the service on a check is a step of ApiKeyAuth.
LEMMA ServiceStepAuthenticates ==
  [ServiceNext]_serviceVars => [AuthNext]_authVars
<1> SUFFICES ASSUME [ServiceNext]_serviceVars PROVE [AuthNext]_authVars
  OBVIOUS
<1>1. ASSUME NEW m \in Msg, Authenticate(m) \/ Lose(m) PROVE AuthNext
  BY <1>1, CheckedAssumption DEF AuthNext
<1>2. ASSUME NEW m \in Msg, Handle(m) PROVE UNCHANGED authVars
  BY <1>2 DEF Handle
<1>3. CASE UNCHANGED serviceVars
  BY <1>3 DEF serviceVars
<1>4. CASE WindowEnds
  BY <1>4 DEF AuthNext
<1> QED
  BY <1>1, <1>2, <1>3, <1>4 DEF ServiceNext

-----------------------------------------------------------------------------
\* The service does with its messages what the two endpoints may do.
THEOREM ServiceImplementsDispatch == ServiceSpec => DispatchSpec
<1>1. ServiceInit => DispatchInit
  BY DEF ServiceInit
<1> QED
  BY <1>1, ServiceStepDispatches, PTL DEF ServiceSpec, DispatchSpec

\* The service does with its keys what the check may do.
THEOREM ServiceImplementsAuth == ServiceSpec => AuthSpec
<1>1. ServiceInit => AuthInit
  BY DEF ServiceInit
<1> QED
  BY <1>1, ServiceStepAuthenticates, PTL DEF ServiceSpec, AuthSpec

\* Every variable of the service keeps its type.
THEOREM ServiceTypeCorrect == ServiceSpec => []ServiceTypeOK
<1>1. DispatchTypeOK /\ AuthTypeOK => ServiceTypeOK
  BY DEF ServiceTypeOK
<1> QED
  BY <1>1, ServiceImplementsDispatch, ServiceImplementsAuth,
     DispatchTypeCorrect, AuthTypeCorrect, PTL

\* Behind the check as without it: a 202 is a stored outcome, what is billed is
\* accepted or recorded, once per source_ref, and a failed mail says truly
\* whether it is out.
THEOREM ServiceSafety ==
  ServiceSpec => [](/\ Reply202MeansDecided
                    /\ UsageIsAccepted
                    /\ BilledOncePerRef
                    /\ ReplayIsCounted
                    /\ DecidingOwnsRow
                    /\ FatalWasNotSent)
BY ServiceImplementsDispatch, Reply202Holds, UsageIsAcceptedHolds,
   BilledOncePerRefHolds, ReplayIsCountedHolds, DecidingOwnsRowHolds,
   FatalWasNotSentHolds, PTL

\* Whatever the handlers do, the limit of the key holds, and a counter that
\* nothing removes is one an interrupted check left.
THEOREM ServiceLimits == ServiceSpec => [](LimitHolds /\ CounterExpires)
BY ServiceImplementsAuth, LimitHoldsAlways, CounterExpiresHolds, PTL

\* The service as a whole keeps MailPromise.
THEOREM ServiceKeepsMailPromise == ServiceSpec => KeepsMailPromise
BY ServiceImplementsDispatch, DispatchKeepsMailPromise, PTL

-----------------------------------------------------------------------------
(* What neither part can say alone.                                        *)

\* A handler has not begun before its check has ended well, and one whose session
\* was aborted does no more than reject.
HandlersWait ==
  \A m \in Msg :
    /\ auth[m] \notin {At("admitted"), At("aborted")} => request[m] = "new"
    /\ auth[m] = At("aborted") => request[m] \in {"new", "rejected"}

\* No step of a check is taken after the check has let its request through.
LEMMA ChecksComeFirst ==
  ASSUME AuthTypeOK, NEW m \in Msg, Authenticate(m) \/ Lose(m)
  PROVE  /\ auth[m] \notin {At("admitted"), At("aborted")}
         /\ \A n \in Msg \ {m} : auth'[n] = auth[n]
<1>1. auth[m].at \in {"new", "counted", "limited"}
  BY DEF Authenticate, Lose, Deny, Unlimited, Incr, IncrUnseen, Check, ExpireFails,
         Touch, TouchFails, Moves, At, Counted
<1>2. \A n \in Msg \ {m} : auth'[n] = auth[n]
  BY CheckedAssumption
  DEF AuthTypeOK, Authenticate, Lose, Deny, Unlimited, Incr, IncrUnseen, Check,
      ExpireFails, Touch, TouchFails, Moves
<1>3. At("admitted").at = "admitted" /\ At("aborted").at = "aborted"
  BY DEF At
<1> QED
  BY <1>1, <1>2, <1>3

\* A handler moves its own request only.
LEMMA HandlersMoveOne ==
  ASSUME DispatchTypeOK, NEW m \in Msg, HandleRequest(m) \/ Crash(m)
  PROVE  \A n \in Msg \ {m} : request'[n] = request[n]
<1>1. \E to : request' = [request EXCEPT ![m] = to]
  BY DEF HandleRequest, Crash, Reject, InsertQueued, NoCredentials, BrokenCredential,
         BuildProvider, ProviderAccepts, ProviderFails, CommitSent, CommitFailed,
         ReportRaises, RecordLookUp, RecordInsert, RecordReplay, UpdateFailed,
         UpdateAndReply, Goes
<1> QED
  BY <1>1 DEF DispatchTypeOK

\* The order of check and handler is kept by every step.
LEMMA HandlersWaitInv ==
  ServiceTypeOK /\ HandlersWait /\ [ServiceNext]_serviceVars => HandlersWait'
<1> SUFFICES ASSUME ServiceTypeOK, HandlersWait, [ServiceNext]_serviceVars
             PROVE  HandlersWait'
  OBVIOUS
<1>1. ASSUME NEW m \in Msg, Authenticate(m) \/ Lose(m), UNCHANGED dispatchVars
      PROVE  HandlersWait'
  <2>1. request' = request /\ request[m] = "new"
    BY <1>1, ChecksComeFirst DEF dispatchVars, HandlersWait, ServiceTypeOK
  <2> QED
    BY <1>1, <2>1, ChecksComeFirst DEF HandlersWait, ServiceTypeOK
<1>2. ASSUME NEW m \in Msg, Handle(m) PROVE HandlersWait'
  <2>1. auth' = auth /\ \A n \in Msg \ {m} : request'[n] = request[n]
    BY <1>2, HandlersMoveOne DEF Handle, HandleRequest, authVars, ServiceTypeOK
  <2>2. CASE auth[m] = At("admitted")
    <3>1. At("admitted") # At("aborted")
      BY DEF At
    <3> QED
      BY <2>1, <2>2, <3>1 DEF HandlersWait
  <2>3. CASE auth[m] = At("aborted") /\ Reject(m)
    <3>1. request'[m] = "rejected"
      BY <2>3 DEF Reject, Goes, ServiceTypeOK, DispatchTypeOK
    <3> QED
      BY <2>1, <2>3, <3>1 DEF HandlersWait
  <2> QED
    BY <1>2, <2>2, <2>3 DEF Handle
<1>3. ASSUME NEW m \in Msg, Crash(m), UNCHANGED authVars PROVE HandlersWait'
  <2>1. auth' = auth /\ \A n \in Msg \ {m} : request'[n] = request[n]
    BY <1>3, HandlersMoveOne DEF authVars, ServiceTypeOK
  <2>2. request[m] \notin {"new", "rejected"}
    BY <1>3 DEF Crash, InFlight, Deciding, SendError
  <2> QED
    BY <2>1, <2>2 DEF HandlersWait
<1>4. CASE UNCHANGED <<auth, request>>
  BY <1>4 DEF HandlersWait
<1> QED
  BY <1>1, <1>2, <1>3, <1>4
  DEF ServiceNext, serviceVars, authVars, dispatchVars, WindowEnds

\* A refused request, one that was cut short in its check, and one whose session
\* the check left aborted, store nothing and send nothing.
THEOREM ServiceNeedsAdmission == ServiceSpec => []NoEffectUnlessAdmitted
<1>1. ServiceInit => HandlersWait
  BY DEF ServiceInit, DispatchInit, HandlersWait
<1>2. ServiceSpec => []HandlersWait
  BY <1>1, HandlersWaitInv, ServiceTypeCorrect, PTL DEF ServiceSpec
<1>3. HandlersWait /\ DispatchInv => NoEffectUnlessAdmitted
  <2> SUFFICES ASSUME HandlersWait, DispatchInv, NEW m \in Msg, auth[m] # At("admitted")
               PROVE  msgs[m] = AbsentRow /\ m \notin accepted
    BY DEF NoEffectUnlessAdmitted
  <2>1. request[m] \in Rowless
    BY DEF HandlersWait, Rowless
  <2> QED
    BY <2>1 DEF DispatchInv, MessageInv, RowOfStage, MailOfStage
<1> QED
  BY <1>2, <1>3, ServiceImplementsDispatch, DispatchInvariance, PTL
=============================================================================
