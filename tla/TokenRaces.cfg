\* Two overlapping requests over a user, its tokens and their revocation.
CONSTANTS
  Token = {t1, t2, t3}
  NoToken = NoToken
  User = {u1}
  Admin = Admin
  Req = {r1, r2}
  AdminTTL = 1
  UserTTL = 3
  MarkerTTL = 1
  MaxFlight = 0
  MaxTime = 1
  MaxChanges = 4
SPECIFICATION Spec
SYMMETRY Identities
INVARIANTS RetiredRefused RefusedOnlyRetired OrphansExcused
