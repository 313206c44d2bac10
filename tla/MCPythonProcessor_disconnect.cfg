SPECIFICATION FairSpec
CONSTANTS
  intkey = intkey
  xo = xo
  p = p
  Handlers <- TwoHandlers
  Pushes = {p}
  PushKinds <- XoOrPing
  MaxSends = 7
  MaxDisconnects = 1
  MaxCalls = 1
  Refusals = TRUE
  Interrupts = TRUE
INVARIANTS
  IInv
  WaiterAccounted
  OneResponse
PROPERTIES
  RegistersAgain
  RequestAnswered
  InterruptEnds
CHECK_DEADLOCK FALSE
