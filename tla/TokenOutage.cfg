\* One request at a time, time and expiry: markers while D1 is down.
CONSTANTS
  Token = {t1, t2}
  NoToken = NoToken
  User = {u1}
  Admin = Admin
  Req = {r1}
  AdminTTL = 2
  UserTTL = 4
  MarkerTTL = 2
  MaxFlight = 1
  MaxTime = 5
  MaxChanges = 4
SPECIFICATION Spec
SYMMETRY Identities
INVARIANTS TypeOK SealedRefused
