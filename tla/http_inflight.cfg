CONSTANTS
  r3 = r3
  a1 = a1
  k1 = k1
  Requests = {r1, r2, r3}
  Programmatic = {r2}
  Accounts = {a1}
  IdemKeys = {k1}
  NoKey = NoKey
  AccountOf <- OneAccount
  IdemKeyOf <- RetryAndOther
  Tokens = {t1, t2, t3, t4}
  NoToken = NoToken
  EmptyBody = EmptyBody
  NoBody = NoBody
  LockTTL = 1
  IdemTTL = 2
  InitialBalance = 2
  MaxFaults = 0
SPECIFICATION FairSpec
PROPERTIES
  InProgressMeansProcessing
