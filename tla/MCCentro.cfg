CONSTANTS
  m1 = m1
  m2 = m2
  w1 = w1
  w2 = w2
  h1 = h1
  h2 = h2
  Msg = {m1, m2}
  Worker = {w1, w2}
  Handler = {h1}
  RawTypes <- Types
  OwnStates = {"signs"}
  InsertRuns = TRUE
  Reporting = {m1}
  Recording = {m2}
  CallerRef <- MCCallerRef
  MaxAttempts = 2
  BatchSize = 2
  Untyped = {}
SPECIFICATION Spec
SYMMETRY Symmetry
INVARIANTS
  DecidingOwnsRow
  ChargedIsAccepted
  ClaimIsReported
PROPERTIES
  LedgerSpec
  KeepsWebhookSpec
CHECK_DEADLOCK FALSE
