SPECIFICATION FairSpec
CONSTANTS
  handler = handler
  context = context
  i1 = i1
  i2 = i2
  p1 = p1
  Callers <- MCCallers
  Timed <- MCTimed
  Ids <- TwoIds
  Pushes <- OnePush
  MaxDisconnects = 1
  NoId = NoId
  Disconnected = Disconnected
PROPERTY WaiterToldOfDisconnect
CHECK_DEADLOCK FALSE
