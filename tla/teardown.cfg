SPECIFICATION FairSpec
CONSTANTS
  r1 = r1
  r2 = r2
  Runs = {r1}
  NameOf <- OwnNames
  Clouds = {"aws"}
  Bookings <- OnlyAws
  StartDays = {0}
  Ops = {"extend", "delete", "retryTeardown"}
  Requests = {q1}
  Executions = {e1}
  Reapers = {x1, x2}
  MaxNow = 1
  AttemptCap = 4
  Ambiguous = FALSE
  Null = Null
INVARIANTS
  TeardownExclusive
  ClaimExplained
  ClaimMeansDeath
  AttemptsBounded
PROPERTIES
  SettledStaysSettled
  TeardownSettles
  DeleteHonoured
  EndIsKept
CHECK_DEADLOCK FALSE
