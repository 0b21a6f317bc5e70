SPECIFICATION AdminSpec
CONSTANTS
  Runs = {r1}
  NoRun = NoRun
  JobIds = {j1}
  NoJob = NoJob
  Workers = {w1}
  Callers = {c1}
  Engines = {e1}
  NoEngine = NoEngine
  Editors = {u1}
  MaxTries = 1
  ConfigStates = {"ok", "missing", "broken"}
  MaxFaults = 1
  LastTick = 1
  Names = {main, other}
  Main = main
  Absent = Absent
  RuleKeys = {}
  Admins = {a1, a2}
  MaxEdits = 2
SYMMETRY Symmetric
CONSTRAINT Bounded
CHECK_DEADLOCK FALSE
INVARIANTS EditsAddUp OpenRunIsTended
