SPECIFICATION PartsSpec
CONSTANTS
  x1 = x1
  x2 = x2
  y1 = y1
  y2 = y2
  None = None
  Off = Off
  fd = fd
  bd = bd
  rd = rd
  p1 = p1
  p2 = p2
  before = before
  after = after
  it1 = it1
  it2 = it2
  hero = hero
  thumb = thumb
  clip = clip
  picture = picture
  video = video
  otherPicture = otherPicture
  otherVideo = otherVideo
  plain = plain
  rich = rich
  d1 = d1
  d2 = d2
  q1 = q1
  pa = pa
  pb = pb
  m1 = m1
  m2 = m2
  Captures = {x1, x2}
  Payloads = {plain, rich}
  ManifestOf <- MCManifestOf
  ReportKeys = {y1, y2}
  Variants <- MCVariants
  Digests = {d1, d2}
  Targets = {picture, video}
  TargetOf <- MCTargetOf
  AcquisitionVariant <- MCAcquisitionVariant
  AcquisitionIds = {q1}
  NoDigest = None
  NoUpload = None
  NoVariant = None
  NoAttempt = None
  NoReport = None
  MaxFaults = 1
  Fragments = {y1}
  Attachments = {image}
  Destinations = {fd, bd, rd}
  Publishers = {x1, x2}
  Places = {p1, p2}
  Nowhere = None
  NotAttached = Dropped
  KindOf <- MCKindOf
  PlaceOf <- MCPlaceOf
  Openers = {x1, x2}
  Items = {it1, it2}
  Materials = {before, after}
  Nothing = None
  Histories <- MCHistories
  MediaIn <- MCMediaIn
  Migrations = 3
  MaxOpens = 3
  MaxCaptures = 2
  Posts = {pa, pb}
  NoItem = None
  Sayings <- MCSayings
  Questions <- MCQuestions
  MaxDeliveries = 3
  MaxChanges = 1
  MaxAttempts = 2
  MaxFailures = 1
SYMMETRY Symmetric
CHECK_DEADLOCK FALSE
INVARIANTS PublicationStands RemoteCopiesAreAccounted HistorySurvives
    AvailableHasBytes OutcomeIsBacked AnswersAreStable
    OneItemOneAsset AnswersAreHonest
PROPERTIES BytesAreKept
