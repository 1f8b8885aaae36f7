\* Two overlapping requests of one account, from two browsers, which may fail.
SPECIFICATION FairSpec
CONSTANTS
  MaxRequests = 3
  Handlers = {h1, h2}
  Browsers = {b1, b2}
  OtpLife = 1
  AccessLife = 2
  None = None
INVARIANTS TypeOK CodesServeOnce SessionHolds
PROPERTIES RevocationHolds MembersStay UnfinishedEnds
CHECK_DEADLOCK FALSE
