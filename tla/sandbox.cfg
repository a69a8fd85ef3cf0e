SPECIFICATION Spec
CONSTANTS
  r1 = r1
  r2 = r2
  Runs = {r1}
  NameOf <- OwnNames
  Clouds = {"aws"}
  Bookings <- NoCloud
  StartDays = {0}
  Ops = {"update","end"}
  Requests = {q1,q2}
  Executions = {e1,e2}
  Reapers = {x1}
  MaxNow = 2
  AttemptCap = 4
  Ambiguous = FALSE
  Null = Null
INVARIANT
  NothingLeft
CHECK_DEADLOCK FALSE
