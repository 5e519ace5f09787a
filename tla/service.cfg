CONSTANTS
  Requests = {1, 2, 3}
  Accounts = {a1, a2}
  NoAccount = NoAccount
  Seeded = {a1}
  Trusters = {c1}
  Logins = {c2}
  InitialBalance = 3
  MaxInside = 2
  NoToken = NoToken
  StepUpTTL = 1
  CaptchaTTL = 1
  NoEvent = NoEvent
  Capacity = 1
SPECIFICATION Spec
INVARIANTS
  TypeOK
  DebitBacked
  CaptchaBacked
  TrustKept
  AlertOwed
PROPERTIES
  StepUpOnce
  RequestsAnswered
  AlertsAttempted
