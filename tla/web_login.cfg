SPECIFICATION LoginSpec
CONSTANTS
  Request = {r1, r2}
  State = {s1, s2}
  Provider = {"google", "github"}
  NULL = NULL
  EMPTY = EMPTY
  GARBLED = GARBLED
  OURS = OURS
  g = g
  h = h
  e1 = e1
  e2 = e2
  Identity = {g, h}
  Email = {e1, e2}
  User = {u1, u2}
  ProviderOf <- IdentityProvider
  Code = {c1, c2}
  Answers <- Said
  TTL = 1
  MaxClock = 2
SYMMETRY Symmetry
INVARIANTS OneCallbackPerFlow SignedInAsAuthorizer AddressIsReported
PROPERTIES NothingLostEarly NoLeftovers
