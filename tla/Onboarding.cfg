\* Two overlapping requests of one profile, which may fail.
SPECIFICATION FairSpec
CONSTANTS
  Messages = {m1, m2, m3}
  Fields = {"experience", "summary"}
  Numeric = {"experience"}
  NoNumber = {m1}
  LastStep = 1
  Handlers = {h1, h2}
  None = None
INVARIANTS TypeOK CompletedIsEarned RowKeepsUp
PROPERTIES SummaryCompletes NothingLost
CHECK_DEADLOCK FALSE
