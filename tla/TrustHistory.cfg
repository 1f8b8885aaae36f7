\* The score formula over the histories of one provider.
SPECIFICATION Spec
CONSTANTS
  MaxJobs = 4
  MaxVouches = 4
INVARIANT ScoreInBounds
PROPERTIES DisputeCosts GoodNewsNeverHurts BadNewsNeverHelps
CHECK_DEADLOCK FALSE
