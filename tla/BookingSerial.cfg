\* One request at a time: the lifecycle of the validator's table.
SPECIFICATION Spec
CONSTANTS
  p1 = p1
  p2 = p2
  p3 = p3
  u1 = u1
  u2 = u2
  Users = {u1, u2}
  Profiles <- MCProfiles
  UserOf <- MCUserOf
  Onboarded = {p1, p2}
  Bookings = {b1, b2}
  Handlers = {h1}
  Ops <- AllOps
  Faults = FALSE
  None = None
INVARIANTS TypeOK NoContradictoryStamps ScoreFresh
PROPERTIES ImplementsLifecycle
CHECK_DEADLOCK FALSE
