SPECIFICATION Spec
CONSTANTS
  r1 = r1
  r2 = r2
  Runs = {r1}
  NameOf <- OwnNames
  Clouds = {"aws"}
  Bookings <- OnlyAws
  StartDays = {0}
  Ops = {"extend"}
  Requests = {q1}
  Executions = {e1}
  Reapers = {x1}
  MaxNow = 1
  AttemptCap = 4
  Ambiguous = FALSE
  Null = Null
PROPERTY
  ClaimHasReason
CHECK_DEADLOCK FALSE
