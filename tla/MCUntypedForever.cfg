CONSTANTS
  m1 = m1
  m2 = m2
  m3 = m3
  w1 = w1
  w2 = w2
  Msg <- ThreeMessages
  Worker = {w1}
  MaxAttempts = 2
  BatchSize = 2
  Untyped <- OneUntyped
SPECIFICATION BacklogSpec
PROPERTIES
  EverySettles
CHECK_DEADLOCK FALSE
