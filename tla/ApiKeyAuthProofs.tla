-------------------------- MODULE ApiKeyAuthProofs --------------------------
(***************************************************************************)
(* Proofs about the check of an API key, for any number of requests and    *)
(* any limit.                                                              *)
(*                                                                         *)
(* Neither the limit nor the type of the counter is inductive.  The limit  *)
(* counts the requests that went on; what keeps it is that those whose     *)
(* count already allows them to go on are few as well.  The counter stays  *)
(* below the number of requests because each request adds to it once,      *)
(* before it has left the stage `new`.                                     *)
(***************************************************************************)
EXTENDS ApiKeyAuth, TLAPS, FiniteSetTheorems

\* The requests that have not begun their check.
Unchecked == {r \in Caller : auth[r] = At("new")}

\* A request that went on, or whose count lets it go on.
Passes(state) ==
  \/ state.at \in {"limited"} \cup Admitted
  \/ state.at = "counted" /\ state.count <= Ceiling

\* The counted requests that go on whatever happens to the others.
Ahead == {r \in window : Passes(auth[r])}

\* There is room on the counter for every request still to come.
RoomLeft == counter + Cardinality(Unchecked) <= Cardinality(Caller)

\* A request got its count after it began.
CountedHaveBegun == \A r \in window : auth[r] # At("new")

AheadWithinLimit == Cardinality(Ahead) <= Ceiling

AuthInv ==
  /\ AuthTypeOK
  /\ RoomLeft
  /\ CountedHaveBegun
  /\ AheadWithinLimit
  /\ CounterExpires

-----------------------------------------------------------------------------
\* The ceiling lets the first request on a counter pass, and everybody the limit does.
LEMMA CeilingBounds == Limit \in Nat /\ Ceiling \in Nat /\ Ceiling >= 1 /\ Limit <= Ceiling
BY LimitAssumption DEF Ceiling

\* A set of requests is finite, and its size is a number that grows with it.
LEMMA RequestsFinite ==
  ASSUME NEW S \in SUBSET Caller
  PROVE  /\ IsFiniteSet(S)
         /\ Cardinality(S) \in Nat
         /\ Cardinality(S) <= Cardinality(Caller)
         /\ \A T \in SUBSET S : Cardinality(T) <= Cardinality(S)
<1>1. IsFiniteSet(Caller)
  BY CallerAssumption
<1>2. IsFiniteSet(S) /\ Cardinality(S) <= Cardinality(Caller)
  BY <1>1, FS_Subset
<1>3. \A T \in SUBSET S : Cardinality(T) <= Cardinality(S)
  BY <1>2, FS_Subset
<1> QED
  BY <1>2, <1>3, FS_CardinalityType

\* The counter lies between the requests that saw their count and all requests.
LEMMA CounterBounds ==
  ASSUME AuthInv
  PROVE  /\ counter \in Nat
         /\ Cardinality(Caller) \in Nat
         /\ Cardinality(window) \in Nat
         /\ Cardinality(window) <= counter
         /\ counter <= Cardinality(Caller)
         /\ counter + Cardinality(Unchecked) <= Cardinality(Caller)
<1>1. window \in SUBSET Caller
  BY DEF AuthInv, AuthTypeOK
<1>2. Cardinality(Caller) \in Nat /\ Cardinality(window) \in Nat
  BY <1>1, RequestsFinite
<1>3. counter \in Cardinality(window) .. Cardinality(Caller)
  BY DEF AuthInv, AuthTypeOK
<1> QED
  BY <1>2, <1>3 DEF AuthInv, RoomLeft

\* The stages of a request are told apart by their first field.
LEMMA StagesDiffer ==
  /\ \A s : At(s).at = s
  /\ \A n : Counted(n).at = "counted" /\ Counted(n).count = n
  /\ \A n, k : Counted(n) = Counted(k) => n = k
  /\ "counted" \notin Stage
  /\ \A s \in Stage : \A n : At(s) # Counted(n)
<1>1. /\ \A s : At(s).at = s
      /\ \A n : Counted(n).at = "counted" /\ Counted(n).count = n
  BY DEF At, Counted
<1>2. "counted" \notin Stage
  BY DEF Stage, Admitted
<1> QED
  BY <1>1, <1>2

\* What a step of one request's check leaves alone: the other requests.  What it
\* gives them in room: the place the request held before it began.
LEMMA MoveFacts ==
  ASSUME AuthInv, NEW r \in Caller,
         auth' = [auth EXCEPT ![r] = auth'[r]], auth'[r] # At("new")
  PROVE  /\ \A q \in Caller \ {r} : auth'[q] = auth[q]
         /\ Unchecked' = Unchecked \ {r}
         /\ Cardinality(Unchecked) \in Nat
         /\ Cardinality(Unchecked') \in Nat
         /\ Cardinality(Unchecked') <= Cardinality(Unchecked)
         /\ auth[r] = At("new") => Cardinality(Unchecked') = Cardinality(Unchecked) - 1
<1>1. DOMAIN auth = Caller
  BY DEF AuthInv, AuthTypeOK
<1>2. \A q \in Caller \ {r} : auth'[q] = auth[q]
  BY <1>1
<1>3. Unchecked' = Unchecked \ {r}
  BY <1>2 DEF Unchecked
<1>4. Unchecked \in SUBSET Caller /\ Unchecked' \in SUBSET Unchecked
  BY <1>3 DEF Unchecked
<1>5. /\ IsFiniteSet(Unchecked)
      /\ Cardinality(Unchecked) \in Nat
      /\ Cardinality(Unchecked') <= Cardinality(Unchecked)
  BY <1>4, RequestsFinite
<1>6. Cardinality(Unchecked') \in Nat
  BY <1>4, RequestsFinite
<1>7. r \in Unchecked => Cardinality(Unchecked \ {r}) = Cardinality(Unchecked) - 1
  BY <1>5, FS_RemoveElement
<1> QED
  BY <1>2, <1>3, <1>5, <1>6, <1>7 DEF Unchecked

\* A step that leaves the counter alone and does not let a request go on that
\* its count forbids keeps everything but the expiry.
LEMMA SettleInv ==
  ASSUME AuthInv, NEW r \in Caller,
         auth' = [auth EXCEPT ![r] = auth'[r]],
         auth'[r] \in {At(s) : s \in Stage \ {"new"}},
         Passes(auth'[r]) /\ r \in window => Passes(auth[r]),
         UNCHANGED <<counter, window>>,
         expiring' \in BOOLEAN, orphaned' \in BOOLEAN,
         expiring \/ orphaned => expiring' \/ orphaned',
         auth[r] = Counted(1) => expiring' \/ orphaned'
  PROVE  AuthInv'
<1>1. auth'[r] # At("new")
  BY StagesDiffer
<1>2. AuthTypeOK'
  BY DEF AuthInv, AuthTypeOK
<1>3. RoomLeft'
  BY <1>1, MoveFacts, RequestsFinite DEF AuthInv, AuthTypeOK, RoomLeft
<1>4. CountedHaveBegun'
  BY <1>1, MoveFacts DEF AuthInv, AuthTypeOK, CountedHaveBegun
<1>5. AheadWithinLimit'
  <2>1. Ahead' \in SUBSET Ahead
    BY <1>1, MoveFacts DEF AuthInv, AuthTypeOK, Ahead, Passes
  <2>2. Ahead \in SUBSET Caller /\ Ahead' \in SUBSET Caller
    BY <2>1 DEF AuthInv, AuthTypeOK, Ahead
  <2> QED
    BY <2>1, <2>2, RequestsFinite, CeilingBounds DEF AuthInv, AheadWithinLimit
<1>6. CounterExpires'
  BY <1>1, MoveFacts DEF AuthInv, AuthTypeOK, CounterExpires
<1> QED
  BY <1>2, <1>3, <1>4, <1>5, <1>6 DEF AuthInv

-----------------------------------------------------------------------------
(* The invariant, one lemma per kind of step.                              *)

\* Before the first request there is no counter, and nobody is on it.
LEMMA AuthInitInv == AuthInit => AuthInv
<1> SUFFICES ASSUME AuthInit PROVE AuthInv
  OBVIOUS
<1> USE DEF AuthInit
<1>1. Cardinality({}) = 0 /\ Cardinality(Caller) \in Nat
  BY FS_EmptySet, CallerAssumption, FS_CardinalityType
<1>2. AuthTypeOK
  <2>1. 0 \in Cardinality({}) .. Cardinality(Caller)
    BY <1>1
  <2> QED
    BY <2>1 DEF AuthTypeOK, Stage
<1>3. Unchecked = Caller /\ Ahead = {}
  BY DEF Unchecked, Ahead
<1> QED
  BY <1>1, <1>2, <1>3, CeilingBounds
  DEF AuthInv, RoomLeft, CountedHaveBegun, AheadWithinLimit, CounterExpires

\* INCR puts one more request on the counter: there is room for it, and if its
\* count is within the limit the whole window is.
LEMMA IncrInv ==
  ASSUME AuthInv, NEW r \in Caller, Incr(r)
  PROVE  AuthInv'
<1>1. /\ auth[r] = At("new") /\ auth' = [auth EXCEPT ![r] = Counted(counter + 1)]
      /\ counter' = counter + 1 /\ window' = window \cup {r}
      /\ UNCHANGED <<expiring, orphaned>>
  BY DEF Incr, Moves
<1>2. auth'[r] = Counted(counter + 1)
  BY <1>1 DEF AuthInv, AuthTypeOK
<1>3. auth'[r] # At("new") /\ auth' = [auth EXCEPT ![r] = auth'[r]]
  BY <1>1, <1>2, StagesDiffer DEF Stage
<1>4. /\ Cardinality(Unchecked) \in Nat
      /\ Cardinality(Unchecked') = Cardinality(Unchecked) - 1
      /\ Cardinality(Unchecked') \in Nat
      /\ \A q \in Caller \ {r} : auth'[q] = auth[q]
  BY <1>1, <1>3, MoveFacts
<1>5. counter \in Nat /\ counter + 1 <= Cardinality(Caller)
  BY <1>4, CounterBounds
<1>6. Cardinality(window') \in Nat /\ Cardinality(window') <= counter'
  <2>1. window \in SUBSET Caller
    BY DEF AuthInv, AuthTypeOK
  <2>2. IsFiniteSet(window)
    BY <2>1, RequestsFinite
  <2>3. Cardinality(window') = IF r \in window THEN Cardinality(window)
                                              ELSE Cardinality(window) + 1
    BY <1>1, <2>2, FS_AddElement
  <2> QED
    BY <1>1, <2>3, CounterBounds
<1>7. AuthTypeOK'
  <2>1. counter' \in Cardinality(window') .. Cardinality(Caller)
        /\ counter + 1 \in 1 .. Cardinality(Caller)
    BY <1>1, <1>5, <1>6, CounterBounds
  <2> QED
    BY <1>1, <2>1 DEF AuthInv, AuthTypeOK
<1>8. RoomLeft'
  BY <1>1, <1>4, CounterBounds DEF RoomLeft
<1>9. CountedHaveBegun'
  BY <1>1, <1>3, <1>4 DEF AuthInv, AuthTypeOK, CountedHaveBegun
<1>10. AheadWithinLimit'
  <2>1. /\ Ahead \in SUBSET Caller
        /\ Ahead' \in SUBSET window'
        /\ window' \in SUBSET Caller
    BY <1>7 DEF AuthInv, AuthTypeOK, Ahead
  <2>2. Ceiling \in Nat
    BY CeilingBounds
  <2>3. CASE counter + 1 <= Ceiling
    BY <1>1, <1>5, <1>6, <2>1, <2>2, <2>3, RequestsFinite DEF AheadWithinLimit
  <2>4. CASE ~(counter + 1 <= Ceiling)
    <3>1. ~Passes(auth'[r])
      BY <1>2, <2>4, StagesDiffer DEF Passes, Stage
    <3>2. Ahead' \in SUBSET Ahead
      BY <1>1, <1>4, <3>1 DEF AuthInv, AuthTypeOK, Ahead, Passes
    <3> QED
      BY <2>1, <2>2, <3>2, RequestsFinite DEF AuthInv, AheadWithinLimit
  <2> QED
    BY <2>3, <2>4
<1>11. CounterExpires'
  <2>1. CASE counter = 0
    BY <1>1, <1>2, <2>1 DEF CounterExpires
  <2>2. CASE counter > 0 /\ ~expiring /\ ~orphaned
    <3>1. PICK q \in window : auth[q] = Counted(1)
      BY <2>2 DEF AuthInv, CounterExpires
    <3>2. q # r
      BY <1>1, <3>1, StagesDiffer DEF Stage
    <3>3. auth'[q] = Counted(1) /\ q \in window'
      BY <1>1, <1>4, <3>1, <3>2 DEF AuthInv, AuthTypeOK
    <3> QED
      BY <3>3 DEF CounterExpires
  <2> QED
    BY <1>1, <1>5, <2>1, <2>2 DEF CounterExpires
<1> QED
  BY <1>7, <1>8, <1>9, <1>10, <1>11 DEF AuthInv

\* An INCR whose answer is lost counts a request that goes on unseen: it is not
\* in the window, and an expiry it should have given is noted as missing.
LEMMA IncrUnseenInv ==
  ASSUME AuthInv, NEW r \in Caller, IncrUnseen(r)
  PROVE  AuthInv'
<1>1. /\ auth[r] = At("new") /\ auth' = [auth EXCEPT ![r] = At("limited")]
      /\ counter' = counter + 1
      /\ orphaned' = (orphaned \/ counter = 0)
      /\ UNCHANGED <<expiring, window>>
  BY DEF IncrUnseen, Moves
<1>2. auth'[r] = At("limited")
  BY <1>1 DEF AuthInv, AuthTypeOK
<1>3. auth'[r] # At("new") /\ auth' = [auth EXCEPT ![r] = auth'[r]]
  <2>1. At("limited") # At("new")
    BY DEF At
  <2> QED
    BY <1>1, <1>2, <2>1
<1>4. /\ Cardinality(Unchecked) \in Nat
      /\ Cardinality(Unchecked') = Cardinality(Unchecked) - 1
      /\ Cardinality(Unchecked') \in Nat
      /\ \A q \in Caller \ {r} : auth'[q] = auth[q]
  BY <1>1, <1>3, MoveFacts
<1>5. AuthTypeOK'
  <2>1. counter' \in Cardinality(window') .. Cardinality(Caller)
    BY <1>1, <1>4, CounterBounds
  <2> QED
    BY <1>1, <2>1 DEF AuthInv, AuthTypeOK, Stage
<1>6. RoomLeft'
  BY <1>1, <1>4, CounterBounds DEF RoomLeft
<1>7. r \notin window
  BY <1>1 DEF AuthInv, CountedHaveBegun
<1>8. CountedHaveBegun'
  BY <1>1, <1>4, <1>7 DEF AuthInv, AuthTypeOK, CountedHaveBegun
<1>9. Ahead' = Ahead
  BY <1>1, <1>4, <1>7 DEF AuthInv, AuthTypeOK, Ahead, Passes
<1>10. CounterExpires'
  <2>1. CASE \E q \in window : auth[q] = Counted(1)
    BY <1>1, <1>4, <1>7, <2>1 DEF AuthInv, AuthTypeOK, CounterExpires
  <2>2. CASE ~\E q \in window : auth[q] = Counted(1)
    <3>1. orphaned \/ expiring => (orphaned' \/ expiring')
      BY <1>1 DEF AuthInv, AuthTypeOK
    <3>2. counter = 0 => orphaned'
      BY <1>1
    <3> QED
      BY <2>2, <3>1, <3>2, CounterBounds DEF AuthInv, CounterExpires
  <2> QED
    BY <2>1, <2>2
<1> QED
  BY <1>5, <1>6, <1>8, <1>9, <1>10 DEF AuthInv, AheadWithinLimit

\* The steps that follow INCR, or go without it, let nobody past the limit.
LEMMA OneRequestInv ==
  ASSUME AuthInv, NEW r \in Caller, Authenticate(r) \/ Lose(r)
  PROVE  AuthInv'
<1> USE DEF AuthInv, AuthTypeOK
<1>1. CASE Deny(r) \/ Unlimited(r)
  <2>1. PICK s \in {"refused", "limited"} : auth' = [auth EXCEPT ![r] = At(s)]
    BY <1>1 DEF Deny, Unlimited, Moves
  <2>2. auth[r] = At("new") /\ r \notin window /\ UNCHANGED redisVars
    BY <1>1 DEF Deny, Unlimited, Moves, CountedHaveBegun
  <2>3. auth[r] # Counted(1)
    BY <2>2, StagesDiffer DEF Stage
  <2> QED
    BY <2>1, <2>2, <2>3, SettleInv DEF redisVars, Stage
<1>2. CASE Incr(r)
  BY <1>2, IncrInv
<1>3. CASE IncrUnseen(r)
  BY <1>3, IncrUnseenInv
<1>4. CASE Check(r)
  <2> DEFINE n == auth[r].count
             s == IF OverLimit(n) THEN "refused" ELSE "limited"
  <2>1. /\ auth[r] = Counted(n)
        /\ auth' = [auth EXCEPT ![r] = At(s)]
        /\ expiring' = (expiring \/ n = 1)
        /\ UNCHANGED <<counter, window, orphaned>>
    BY <1>4 DEF Check, Moves, MakesCounter
  <2>2. s \in Stage \ {"new"}
    BY DEF Stage
  <2>3. n \in Nat
    BY <2>1, StagesDiffer, RequestsFinite DEF Stage, Counted, At
  <2>4. auth'[r] = At(s) /\ (Passes(At(s)) => Passes(Counted(n)))
    BY <2>1, <2>3, CeilingBounds DEF Passes, OverLimit, Counted, At, Admitted
  <2>5. auth[r] = Counted(1) => n = 1
    BY <2>1, StagesDiffer
  <2> QED
    BY <2>1, <2>2, <2>4, <2>5, SettleInv
<1>5. CASE ExpireFails(r)
  <2>1. auth[r] = Counted(1) /\ auth' = [auth EXCEPT ![r] = At("limited")]
        /\ orphaned' = TRUE /\ UNCHANGED <<counter, expiring, window>>
    BY <1>5 DEF ExpireFails, Moves
  <2>2. Passes(auth[r])
    BY <2>1, CeilingBounds DEF Passes, Counted
  <2> QED
    BY <2>1, <2>2, SettleInv DEF Stage
<1>6. CASE Touch(r) \/ TouchFails(r)
  <2>1. PICK s \in Admitted : auth' = [auth EXCEPT ![r] = At(s)]
    BY <1>6 DEF Touch, TouchFails, Moves, Admitted
  <2>2. auth[r] = At("limited") /\ UNCHANGED redisVars
    BY <1>6 DEF Touch, TouchFails, Moves
  <2>3. Passes(auth[r]) /\ auth[r] # Counted(1)
    BY <2>2 DEF Passes, At, Counted
  <2> QED
    BY <2>1, <2>2, <2>3, SettleInv DEF redisVars, Stage, Admitted
<1>7. CASE Lose(r)
  <2>1. /\ auth' = [auth EXCEPT ![r] = At("refused")]
        /\ orphaned' = (orphaned \/ auth[r] = Counted(1))
        /\ UNCHANGED <<counter, expiring, window>>
    BY <1>7 DEF Lose, Moves
  <2>2. ~Passes(At("refused"))
    BY DEF Passes, At, Admitted
  <2> QED
    BY <2>1, <2>2, SettleInv DEF Stage
<1> QED
  BY <1>1, <1>2, <1>3, <1>4, <1>5, <1>6, <1>7 DEF Authenticate

\* The end of a window takes the counter and everybody on it away.
LEMMA WindowEndsInv ==
  ASSUME AuthInv, WindowEnds
  PROVE  AuthInv'
<1>1. counter' = 0 /\ expiring' = FALSE /\ window' = {} /\ UNCHANGED <<orphaned, auth>>
  BY DEF WindowEnds
<1>2. Cardinality({}) = 0 /\ Cardinality(Caller) \in Nat
  BY FS_EmptySet, RequestsFinite
<1>3. Unchecked' = Unchecked /\ Ahead' = {}
  BY <1>1 DEF Unchecked, Ahead
<1>4. Cardinality(Unchecked) <= Cardinality(Caller) /\ Cardinality(Unchecked) \in Nat
  BY RequestsFinite DEF Unchecked
<1>5. 0 \in Cardinality({}) .. Cardinality(Caller)
  BY <1>2
<1>6. AuthTypeOK'
  BY <1>1, <1>5 DEF AuthInv, AuthTypeOK
<1> QED
  BY <1>1, <1>2, <1>3, <1>4, <1>6, CeilingBounds
  DEF AuthInv, RoomLeft, CountedHaveBegun, AheadWithinLimit, CounterExpires

\* The invariant is inductive.
LEMMA AuthNextInv == AuthInv /\ [AuthNext]_authVars => AuthInv'
<1> SUFFICES ASSUME AuthInv, [AuthNext]_authVars PROVE AuthInv'
  OBVIOUS
<1>1. ASSUME NEW r \in Caller, Authenticate(r) \/ Lose(r) PROVE AuthInv'
  BY <1>1, OneRequestInv
<1>2. CASE WindowEnds
  BY <1>2, WindowEndsInv
<1>3. CASE UNCHANGED authVars
  BY <1>3 DEF authVars, redisVars, AuthInv, AuthTypeOK, RoomLeft, Unchecked,
              CountedHaveBegun, AheadWithinLimit, Ahead, Passes, CounterExpires
<1> QED
  BY <1>1, <1>2, <1>3 DEF AuthNext

\* The requests that went on are among those their count lets go on.
LEMMA AuthInvLimits == AuthInv => LimitHolds
<1> SUFFICES ASSUME AuthInv PROVE LimitHolds
  OBVIOUS
<1> DEFINE Gone == {r \in window : auth[r].at \in {"limited"} \cup Admitted}
<1>1. Gone \in SUBSET Ahead /\ Ahead \in SUBSET Caller
  BY DEF Ahead, Passes, AuthInv, AuthTypeOK
<1>2. Cardinality(Gone) <= Cardinality(Ahead) /\ Cardinality(Ahead) \in Nat
      /\ Cardinality(Gone) \in Nat
  BY <1>1, RequestsFinite
<1> QED
  BY <1>2, CeilingBounds DEF AuthInv, AheadWithinLimit, LimitHolds

-----------------------------------------------------------------------------
(* The theorems.                                                           *)

\* In every reachable state the counter has room for the requests to come, and
\* those it lets go on are within the limit.
THEOREM AuthInvariance == AuthSpec => []AuthInv
BY AuthInitInv, AuthNextInv, PTL DEF AuthSpec

\* The counter counts no more than the requests there are, and no fewer than
\* those that saw their count.
THEOREM AuthTypeCorrect == AuthSpec => []AuthTypeOK
<1>1. AuthInv => AuthTypeOK
  BY DEF AuthInv
<1> QED
  BY <1>1, AuthInvariance, PTL

\* Whatever the limit and the number of requests, of those counted on one counter
\* no more than the limit reach their handler.
THEOREM LimitHoldsAlways == AuthSpec => []LimitHolds
BY AuthInvLimits, AuthInvariance, PTL

\* A counter without an expiry has a request about to give it one, or is the one
\* an interrupted check left behind.
THEOREM CounterExpiresHolds == AuthSpec => []CounterExpires
<1>1. AuthInv => CounterExpires
  BY DEF AuthInv
<1> QED
  BY <1>1, AuthInvariance, PTL
=============================================================================
