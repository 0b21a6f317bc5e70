SPECIFICATION AdminSpec
CONSTANTS
  Runs = {r1}
  NoRun = NoRun
  JobIds = {j1}
  NoJob = NoJob
  Workers = {w1}
  Callers = {}
  Engines = {}
  NoEngine = NoEngine
  Editors = {}
  MaxTries = 1
  ConfigStates = {"ok", "missing", "broken"}
  MaxFaults = 1
  LastTick = 1
  Names = {main, other}
  Main = main
  Absent = Absent
  RuleKeys = {k}
  Admins = {a1, a2}
  MaxEdits = 2
CHECK_DEADLOCK FALSE
INVARIANTS OmittedIsCleared
