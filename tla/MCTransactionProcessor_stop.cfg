SPECIFICATION FairSpec
CONSTANTS
  intkey = intkey
  election = election
  Families <- TwoFamilies
  Program <- TwoHandlers
  Ids = {1, 2, 3, 4, 5}
  Requests = {11}
  MaxDisconnects = 1
  MaxCalls = 1
  Stops = TRUE
  None = None
INVARIANTS
  OneResponse
PROPERTY RegistersAgain
CHECK_DEADLOCK FALSE
