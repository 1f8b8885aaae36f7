\* Overlapping requests that may fail at any await.
SPECIFICATION Spec
CONSTANTS
  p1 = p1
  p2 = p2
  p3 = p3
  u1 = u1
  u2 = u2
  Users = {u1, u2}
  Profiles <- MCPair
  UserOf <- MCPairUserOf
  Onboarded = {p2}
  Bookings = {b1}
  Handlers = {h1, h2}
  Ops <- AllOps
  Faults = TRUE
  None = None
SYMMETRY Symmetry
INVARIANTS ReviewSound NotificationSound ScoreSound Inv
PROPERTIES ImplementsCommitted
CHECK_DEADLOCK FALSE
