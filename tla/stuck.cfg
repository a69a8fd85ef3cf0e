SPECIFICATION FairSpec
CONSTANTS
  r1 = r1
  r2 = r2
  Runs = {r1}
  NameOf <- OwnNames
  Clouds = {"aws"}
  Bookings <- OnlyAws
  StartDays = {0}
  Ops = {"startNow"}
  Requests = {q1}
  Executions = {e1}
  Reapers = {x1}
  MaxNow = 0
  AttemptCap = 4
  Ambiguous = FALSE
  Null = Null
PROPERTY
  InFlightSettles
CHECK_DEADLOCK FALSE
