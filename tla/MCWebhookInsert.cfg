CONSTANTS
  m1 = m1
  h1 = h1
  h2 = h2
  Msg = {m1}
  Handler = {h1, h2}
  RawTypes <- Types
  OwnStates = {"signs", "other", "broken", "missing"}
  InsertRuns = FALSE
  OpenTracked = {m1}
  ClickTracked = {m1}
  Links <- MCLinks
  Allowlist <- MCAllowlist
  MaxTracked = 0
SPECIFICATION TrackingFairSpec
PROPERTIES
  ReportedOutcomeLands
