CONSTANTS
  m1 = m1
  m2 = m2
  m3 = m3
  w1 = w1
  w2 = w2
  Msg <- ThreeMessages
  Worker = {w1, w2}
  MaxAttempts = 2
  BatchSize = 2
  Untyped <- ThreeMessages
SPECIFICATION LedgerSpec
SYMMETRY Symmetry
INVARIANTS
  LedgerTypeOK
  ChargedOnce
  RecordedHasEntry
  OwedHasTriesLeft
  BatchIsFresh
PROPERTIES
  ChargesOnlyBillable
  SettledIsFinal
  KeepsPromise
\* All messages may be settled.
CHECK_DEADLOCK FALSE
