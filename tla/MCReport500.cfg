CONSTANTS
  m1 = m1
  r1 = r1
  r2 = r2
  Msg = {m1, r1, r2}
  Reporting = {m1}
  Recording = {r1, r2}
  CallerRef <- MCCallerRef
  Caller = {m1, r1, r2}
  WithRedis = {m1, r1, r2}
  Limit = 2
SPECIFICATION ServiceSpec
INVARIANTS
  SentIsNot500
\* Every request ends: answered, rejected or cut short.
CHECK_DEADLOCK FALSE
