SPECIFICATION FairSpec
CONSTANTS
  intkey = intkey
  xo = xo
  p = p
  Handlers <- TwoHandlers
  Pushes = {}
  PushKinds <- AnyKind
  MaxSends = 4
  MaxDisconnects = 1
  MaxCalls = 0
  Refusals = FALSE
  Interrupts = FALSE
PROPERTY
  ThreadRecovers
CHECK_DEADLOCK FALSE
