SPECIFICATION FairSpec
CONSTANTS
  Calls <- BlockCalls
  MaxNotes = 2
  MaxCalls = 2
  MaxNotReady = 1
  Breaks = TRUE
INVARIANTS
  IInv
  DeliversInOrder
  AckMeansDelivery
  EngineKnowsCandidate
PROPERTIES
  StartReturns
  UpdateDelivered
CHECK_DEADLOCK FALSE
