CONSTANTS
  Requests = {r1, r2, r3}
  Keys = {k1, k2}
  NoKey = NoKey
  EmptyBody = EmptyBody
  NoBody = NoBody
  TTL = 2
SPECIFICATION KeysFairSpec
INVARIANTS
  TypeOK
  OneProcessor
PROPERTIES
  ReservationHonoured
  ReplayStable
  EventuallyClaimable
  ImplementsIdempotency
