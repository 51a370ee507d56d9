CONSTANTS
  a1 = a1
  a2 = a2
  a3 = a3
  s1 = s1
  resend = resend
  sendgrid = sendgrid
  Admin <- MCAdmin
  Channel <- MCChannel
  Provider <- MCProvider
  Schemas <- MCSchemas
  Fields <- MCFields
  Sender = {s1}
  Variables <- MCVariables
SPECIFICATION SendSpec
INVARIANTS
  SendTypeOK
  OneChannel
  RenderedAsStored
  DeclaredAreFilled
  StoredSchemaUsable
  OnlyRivalsDeadlock
PROPERTIES
  CorrectionKept
  DefaultStays
\* Every request ends.
CHECK_DEADLOCK FALSE
