SPECIFICATION FairSpec
CONSTANTS
  intkey = intkey
  election = election
  Families <- TwoFamilies
  Program <- TwoHandlers
  Ids = {1, 2, 3, 4, 5, 6, 7}
  Requests = {11, 12}
  MaxDisconnects = 2
  MaxCalls = 1
  Stops = FALSE
  None = None
INVARIANTS
  IInv
  OkMeansContextAnswered
  HandlerForEveryRequest
PROPERTY RequestAnswered
CHECK_DEADLOCK FALSE
