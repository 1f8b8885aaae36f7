\* Requests that overlap and may fail, of one of three services.
SPECIFICATION ServicesSpec
CONSTANTS
  Notifications = {n1, n2}
  Slots = {h1, h2, h3}
  BookingSlots = {h1, h2}
  MaxBookings = 2
  MaxUpdates = 2
  Ops = {"accept", "complete"}
  Filters = {"all", "ACCEPTED"}
  Pages = {1}
  Limits = {1}
  Types = {t1, t2, t3}
  Clients = {c1, c2}
  MaxFaults = 2
  None = None
INVARIANT ServicesTypeOK
PROPERTIES CountFollows OnlyCreationsMissing NoStepBack StaleReadsExpire RetriesConverge
CHECK_DEADLOCK FALSE
