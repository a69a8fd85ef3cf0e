SPECIFICATION PullSpec
CONSTANTS
  Pages = {p1}
  Ticks = {k1}
  Learners = 3
  SaveEvery = 2
  MaxPulls = 2
  MaxPullFaults = 1
INVARIANT
  TwoNeverFetchAtOnce
CHECK_DEADLOCK FALSE
