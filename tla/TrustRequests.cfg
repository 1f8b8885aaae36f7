\* Two vouches and a booking change against readers of the cached score, with
\* two requests in flight that may fail.
SPECIFICATION FairSpec
CONSTANTS
  Vouchers = {v1, v2}
  Changes = {c1}
  Handlers = {h1, h2}
  None = None
INVARIANT TypeOK
PROPERTIES EveryFactCounted StaleEntriesExpire CurrentWhenAlone
CHECK_DEADLOCK FALSE
