\* Committed changes are eventually reported, when no await throws.
SPECIFICATION FairSpec
CONSTANTS
  p1 = p1
  p2 = p2
  p3 = p3
  u1 = u1
  u2 = u2
  Users = {u1, u2}
  Profiles <- MCPair
  UserOf <- MCPairUserOf
  Onboarded = {p2}
  Bookings = {b1}
  Handlers = {h1, h2}
  Ops <- AllOps
  Faults = FALSE
  None = None
PROPERTIES ChangesReported
CHECK_DEADLOCK FALSE
