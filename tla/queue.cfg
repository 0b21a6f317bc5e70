SPECIFICATION FairSpec
CONSTANTS
  f1 = f1
  t1 = t1
  t2 = t1
  r1 = r1
  r2 = r2
  Fragments = {f1}
  Destinations = {t1}
  Requests = {r1}
  NoRequest = NoRequest
  FragOf <- MCFragOf
  DestOf <- MCDestOf
  JobIds = {j1, j2}
  FailedIds = {x1, x2, x3}
  NoJob = NoJob
  NoFailed = NoFailed
  Drainers = {d1, d2}
  Operators = {o1}
  MaxTries = 2
  MaxReplaysPerHour = 1
  ForceAllowed = TRUE
  MaxFaults = 1
CHECK_DEADLOCK FALSE
INVARIANTS NothingLost RepeatsAreFaults
PROPERTIES ImplementsLedger EveryRequestResolves
