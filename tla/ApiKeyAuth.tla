----------------------------- MODULE ApiKeyAuth -----------------------------
(***************************************************************************)
(* _resolve_api_key, which every endpoint but tracking, webhooks and       *)
(* health runs before its handler: read the key's row, count the request   *)
(* in Redis, refuse it above the limit, note last_used_at.  The module is  *)
(* about the requests made with one key; keys share nothing.               *)
(*                                                                         *)
(* The counter of a window is a Redis key that is made by the first INCR   *)
(* and is to be removed by an expiry that a second call, EXPIRE, gives it. *)
(* The limit runs where the process has app.state.redis; at this commit    *)
(* nothing in the program sets it, so the module takes the requests that   *)
(* are served with it as a constant.                                       *)
(***************************************************************************)
EXTENDS Naturals, FiniteSets

CONSTANTS Caller,      \* the requests that come with the key
          WithRedis,   \* those served by a process that has app.state.redis
          Limit        \* rate_limit_per_minute of the key

ASSUME CallerAssumption == IsFiniteSet(Caller) /\ WithRedis \subseteq Caller
ASSUME LimitAssumption  == Limit \in Nat

VARIABLES
  counter,    \* the value of the Redis key rl:apikey:<id>, 0 when there is none
  expiring,   \* has the Redis key an expiry?
  window,     \* the requests that got a count of it (history)
  orphaned,   \* did the request that should give it an expiry fail to? (history)
  auth        \* request -> where its check is, or how it ended

redisVars == <<counter, expiring, window, orphaned>>
authVars  == <<redisVars, auth>>

At(stage)  == [at |-> stage]
Counted(n) == [at |-> "counted", count |-> n]

\* `aborted`: admitted with a session whose transaction has failed.
Admitted == {"admitted", "aborted"}
Stage    == {"new", "limited", "refused"} \cup Admitted

AuthTypeOK ==
  /\ expiring \in BOOLEAN /\ orphaned \in BOOLEAN
  /\ window \subseteq Caller
  /\ counter \in Cardinality(window) .. Cardinality(Caller)
  /\ auth \in [Caller -> {At(s) : s \in Stage}
                         \cup {Counted(n) : n \in 1 .. Cardinality(Caller)}]

AuthInit ==
  /\ counter = 0 /\ expiring = FALSE /\ window = {} /\ orphaned = FALSE
  /\ auth = [r \in Caller |-> At("new")]

-----------------------------------------------------------------------------
Moves(r, from, to) ==
  /\ auth[r] = from
  /\ auth' = [auth EXCEPT ![r] = to]

\* The SELECT of the key's row is part of the step that follows it: nothing a
\* concurrent request does depends on it.  No header, no such key, inactive or
\* past its expiry (401), without the scope (403).
Deny(r) == Moves(r, At("new"), At("refused")) /\ UNCHANGED redisVars

\* No app.state.redis, or INCR raises: the request goes on uncounted.
Unlimited(r) == Moves(r, At("new"), At("limited")) /\ UNCHANGED redisVars

\* INCR is one command: it makes the key or adds one, and answers the value.
Incr(r) ==
  /\ r \in WithRedis
  /\ Moves(r, At("new"), Counted(counter + 1))
  /\ counter' = counter + 1
  /\ window' = window \cup {r}
  /\ UNCHANGED <<expiring, orphaned>>

\* The answer to INCR is lost: it has counted, and the request goes on without
\* its count, or without giving a counter it has made an expiry.
IncrUnseen(r) ==
  /\ r \in WithRedis
  /\ Moves(r, At("new"), At("limited"))
  /\ counter' = counter + 1
  /\ orphaned' = (orphaned \/ counter = 0)
  /\ UNCHANGED <<expiring, window>>

\* Slip for the mutation checks: the count before this request is compared.
OverLimitLate(n) == n - 1 > Limit

OverLimit(n) == n > Limit

\* The request that made the counter is to give it its expiry.
MakesCounter(n) == n = 1

\* After INCR: EXPIRE if the counter is new, and the comparison.
Check(r) ==
  LET n == auth[r].count
  IN /\ auth[r].at = "counted"
     /\ Moves(r, Counted(n), At(IF OverLimit(n) THEN "refused" ELSE "limited"))
     /\ expiring' = (expiring \/ MakesCounter(n))
     /\ UNCHANGED <<counter, window, orphaned>>

\* EXPIRE raises, which is logged: the request goes on without a comparison.
ExpireFails(r) ==
  /\ Moves(r, Counted(1), At("limited"))
  /\ orphaned' = TRUE
  /\ UNCHANGED <<counter, expiring, window>>

\* UPDATE last_used_at, and its commit.
Touch(r) == Moves(r, At("limited"), At("admitted")) /\ UNCHANGED redisVars

\* The UPDATE raises, which is logged: nothing rolls the session back, and the
\* handler gets it with its failed transaction.
TouchFails(r) == Moves(r, At("limited"), At("aborted")) /\ UNCHANGED redisVars

\* The process ends in the middle of the check.  The request is answered by
\* nobody, which the other requests cannot tell from a refusal.
Lose(r) ==
  /\ auth[r].at \in {"counted", "limited"}
  /\ Moves(r, auth[r], At("refused"))
  /\ orphaned' = (orphaned \/ auth[r] = Counted(1))
  /\ UNCHANGED <<counter, expiring, window>>

\* RATE_LIMIT_WINDOW after its EXPIRE, Redis removes the key.
WindowEnds ==
  /\ expiring
  /\ counter' = 0 /\ expiring' = FALSE /\ window' = {}
  /\ UNCHANGED <<orphaned, auth>>

Authenticate(r) ==
  \/ Deny(r)  \/ Unlimited(r)
  \/ Incr(r)  \/ IncrUnseen(r)
  \/ Check(r) \/ ExpireFails(r)
  \/ Touch(r) \/ TouchFails(r)

AuthNext ==
  \/ \E r \in Caller : Authenticate(r) \/ Lose(r)
  \/ WindowEnds

AuthSpec == AuthInit /\ [][AuthNext]_authVars

-----------------------------------------------------------------------------
\* The column may hold zero: of no requests at all, one still goes on, if it made
\* the counter and its EXPIRE failed, which skips the comparison.
Ceiling == IF Limit = 0 THEN 1 ELSE Limit

\* Of the requests counted on one counter no more than the limit go on to their
\* handler, however INCR, EXPIRE and the comparisons of several interleave.
LimitHolds ==
  Cardinality({r \in window : auth[r].at \in {"limited"} \cup Admitted}) <= Ceiling

\* A counter has an expiry, or the request about to give it one, so that a key
\* above its limit comes back; except that a process which ends between INCR and
\* EXPIRE, or a call that fails there, leaves a counter that nothing removes.
CounterExpires ==
  counter > 0 => expiring \/ orphaned \/ \E r \in window : auth[r] = Counted(1)
=============================================================================
