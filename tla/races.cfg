SPECIFICATION Spec
CONSTANTS
  r1 = r1
  r2 = r2
  Runs = {r1}
  NameOf <- OwnNames
  Clouds = {"aws", "gcp"}
  Bookings <- OnlyAws
  StartDays = {0}
  Ops = {"startNow", "retry", "update", "end", "delete"}
  Requests = {q1, q2}
  Executions = {e1, e2}
  Reapers = {x1}
  MaxNow = 0
  AttemptCap = 4
  Ambiguous = TRUE
  Null = Null
SYMMETRY Symmetry
INVARIANTS
  TypeOK
  ReadyIsBuilt
  ReadyHasEnd
  NothingLeft
PROPERTIES
  FailureNeverDestroys
CHECK_DEADLOCK FALSE
