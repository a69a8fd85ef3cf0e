SPECIFICATION Spec
CONSTANTS
  r1 = r1
  r2 = r2
  Runs = {r1,r2}
  NameOf <- OneName
  Clouds = {"aws"}
  Bookings <- OnlyAws
  StartDays = {0, 1}
  Ops = {"end"}
  Requests = {q1}
  Executions = {e1,e2}
  Reapers = {x1}
  MaxNow = 2
  AttemptCap = 4
  Ambiguous = FALSE
  Null = Null
INVARIANT
  ReadyIsBuilt
CHECK_DEADLOCK FALSE
