CONSTANTS
  m1 = m1
  h1 = h1
  h2 = h2
  Msg = {m1}
  Handler = {h1, h2}
  RawTypes <- Types
  OwnStates = {"signs", "other"}
  InsertRuns = TRUE
  OpenTracked = {m1}
  ClickTracked = {m1}
  Links <- MCLinks
  Allowlist <- MCAllowlist
  MaxTracked = 1
SPECIFICATION TrackingFairSpec
INVARIANTS
  TrackingTypeOK
  StatusHasEvent
  EventIsApplied
  OwnSecretDecides
  EventsCountIsExact
  DetailIsCoherent
  PersistIsLegal
PROPERTIES
  ReportedOutcomeLands
