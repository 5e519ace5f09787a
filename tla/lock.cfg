CONSTANTS
  Clients = {c1, c2, c3}
  Keys = {k1, k2}
  Tokens = {t1, t2, t3, t4, t5}
  NoToken = NoToken
  NoKey = NoKey
  TTL = 2
SPECIFICATION FairSpec
INVARIANTS
  TypeOK
  LeaseHonoured
  LeaseExclusion
PROPERTIES
  OnlyOwnerFrees
  EventuallyFree
  ImplementsMutex
