SPECIFICATION PartsSpec
CONSTANTS
  Off = Off
  None = None
  mA = mA
  mB = mB
  tagged = tagged
  ta = ta
  tb = tb
  said = said
  called = called
  used = used
  s1 = s1
  s2 = s2
  run = run
  forced = forced
  tag1 = tag1
  ref1 = ref1
  b1 = b1
  b2 = b2
  b3 = b3
  it1 = it1
  p0 = p0
  Captures <- MCCaptures
  Materials = {mA, mB}
  Tags = {tagged}
  Domain = Domain
  Editors = {e1}
  NoMaterial = NoMaterial
  MaxAttempts = 2
  MaxEdits = 1
  MaxFaults = 1
  Runs = {run, forced}
  Forced = {forced}
  Sessions = {s1, s2}
  PartsOf <- OneEach
  Concurrency <- Slots
  RunCap = 1
  TotalCap = 2
  MaxRunFaults = 1
  Contents = {b1, b2, b3}
  SizeOf <- MCSizeOf
  SniffedOf <- MCSniffedOf
  Rows <- MCRows
  Aliases = {it1}
  Attached = {1}
  Ranges <- MCRanges
  LegacyPath = p0
  Nothing = None
  Calls = {called}
  Threads = {ta, tb}
  Texts = {said}
  ToolCalls = {called}
  Amounts = {used}
  Records <- MCRecords
  Rollouts <- MCRollouts
  OtherRollouts <- MCOtherRollouts
  HeaderLines = 3
  Unset = None
  MaxRolloutChanges = 3
  Absent = None
  BatchSteps = 2
  MaxSteps = 3
  MaxChanges = 4
  Fragments = {1, 2, 3}
  Starts <- MCStarts
  MediaOf <- MCMediaOf
  ReaderTags = {tag1}
  Refs = {ref1}
  Reports <- MCReports
  Scopes = {"inbox", "all"}
  NoValue = None
  PageSize = 1
  MaxTicks = 1
  MaxEvents = 2
SYMMETRY Symmetric
CHECK_DEADLOCK FALSE
INVARIANTS FetchesAreCapped RowShowsTheLatest
    RolloutIsStored ConversationIsStored SpendIsBounded
    UntouchedListedOnce ItemsHangTogether ServedIsKept
PROPERTIES ResultIsKept
