SPECIFICATION EnrichmentSpec
CONSTANTS
  Capabilities = {tags}
  Captures = {a1, a2}
  Workers = {w1, w2}
  RequestKeys = {k1}
  Callers = {p1}
  NoClaim = NoClaim
  NoObservation = 0
  NoRequest = NoRequest
  ResultRanks = {3}
  MaxObservations = 2
  MaxJobs = 3
  LastTick = 1
  before = before
  after = after
  older = older
  Fragments = {a1, a2, older}
  CreatedAt <- MCCreatedAt
  Materials = {before, after}
  Sessions = {w1, w2}
  NoMaterial = None
  ToolsOf <- MCToolsOf
  DirectivesOf <- MCDirectivesOf
  MaxCandidates = 1
  MaxRungs = 1
  MaxCaptures = 3
  MaxEdits = 1
  MaxFaults = 1
SYMMETRY Symmetric
CHECK_DEADLOCK FALSE
INVARIANTS WorkIsExclusive PendingHasJob BestIsShown RowsFollowText SiblingsAreLinked
