SPECIFICATION FairRuntimeSpec
CONSTANTS
  Runs = {r1, r2}
  NoRun = NoRun
  JobIds = {j1, j2}
  NoJob = NoJob
  Workers = {w1, w2}
  Callers = {}
  Engines = {e1, e2}
  NoEngine = NoEngine
  Editors = {}
  MaxTries = 2
  ConfigStates = {"ok"}
  MaxFaults = 1
  LastTick = 1
CHECK_DEADLOCK FALSE
INVARIANTS NextIsUnfired OneRunPerFire
PROPERTIES EveryRunSettles DueOccurrenceRuns
