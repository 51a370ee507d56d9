CONSTANTS
  m1 = m1
  m2 = m2
  w1 = w1
  w2 = w2
  h1 = h1
  h2 = h2
  Msg = {m1}
  Worker = {w1}
  Handler = {h1}
  RawTypes <- Types
  OwnStates = {"signs"}
  InsertRuns = FALSE
  Reporting = {m1}
  Recording = {}
  CallerRef <- MCCallerRef
  MaxAttempts = 2
  BatchSize = 2
  Untyped = {}
SPECIFICATION Spec
INVARIANTS
  ForgottenIsForeign
CHECK_DEADLOCK FALSE
