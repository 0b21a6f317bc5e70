SPECIFICATION FairSpec
CONSTANTS
  c1 = c1
  c2 = c2
  c3 = c3
  tag = tag
  p1 = p1
  Commands = {c1, c2, c3}
  Handlers = {h1, h2}
  WritesOf <- MCWritesOf
  Positions = {p1}
  NoCommand = NoCommand
  NoPosition = NoPosition
  NoBody = NoBody
  NoReceipt = NoReceipt
  MaxFaults = 1
CHECK_DEADLOCK FALSE
INVARIANTS EffectAtMostOnce ReceiptMatchesAcquisition
PROPERTIES ReservedSettles
