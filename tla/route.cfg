SPECIFICATION PipeSpec
CONSTANTS
  f1 = f1
  file = file
  hook = hook
  v1file = v1file
  v1hook = v1hook
  v2file = v2file
  manual = manual
  Fragments = {f1}
  NoFragment = NoFragment
  Destinations = {file, hook}
  Requests = {v1file, v1hook, v2file, manual}
  NoRequest = NoRequest
  FragOf <- MCFragOf
  DestOf <- MCDestOf
  VersionOf <- MCVersionOf
  RouteOrder <- MCRouteOrder
  Async = {hook}
  JobIds = {j1}
  FailedIds = {x1}
  NoJob = NoJob
  NoFailed = NoFailed
  Workers = {w1, w2}
  Drainers = {d1}
  Routers = {m1}
  Operators = {}
  MaxVersions = 2
  MaxTries = 1
  MaxReplaysPerHour = 1
  ForceAllowed = FALSE
  MaxFaults = 1
SYMMETRY Symmetric
CHECK_DEADLOCK FALSE
INVARIANTS FragmentAccounted EveryMatchGetsATurn
