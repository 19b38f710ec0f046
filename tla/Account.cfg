CONSTANTS
  Users = {u1, u2, u3}
  Keys = {k1}
  KeyScopes = {"MEMBER_MANAGE"}
  Requests = {r1, r2}
  Assigned <- Assignments
  Plans <- TwoPlans
  MaxMembers <- Members2
  MaxRunners <- Runners2
  MaxHosted = 1
  ApiAccess = {"TEAM"}
  None = None
  Checkouts = {c1, c2, c3}
  OrderKeys = {o1, o2}
  Prices = {p1, p2}
  MaxDays = 1
  States = {s1, s2}
  Callbacks = {b1, b2}
  Assertions = {a1}
  Exchanges = {x1, x2}
  Refs = {main, dev}
  RefOf <- OneRef
  StateLife = 1
  SessionLife = 2
  AssertionLife = 2
  CredentialLife = 1
  Window = 2
  Limit = 1
  MaxClock = 2
SPECIFICATION AccountSpec
SYMMETRY Symmetry
INVARIANTS
  ExcessIsBounded
  CheckoutsAgree
  SingleUse
PROPERTIES
  OnlyAnUnseenOwnerIsLost
CHECK_DEADLOCK FALSE
