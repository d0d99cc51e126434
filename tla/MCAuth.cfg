SPECIFICATION Spec
CONSTANTS
  Workers = {w1, w2}
  alice = alice
  bob = bob
  p1 = p1
  p2 = p2
  Users = {alice, bob}
  Passwords = {p1, p2}
  Credentials <- TwoCredentials
  MaxRequests = 3
  NoUser = NoUser
INVARIANTS
  TypeOK
  ServedForAuthenticated
PROPERTIES
  ScrapeWithinTotal
