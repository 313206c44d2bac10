SPECIFICATION Spec
CONSTANTS
  a = a
  b = b
  x = x
  Clients = 3
  Parent <- TwoNetworks
  FileSizes = {1, 3}
  Limits = {0, 1, 2}
  Waits = {0, 2}
  Keys = {a, b}
  OwnKey = a
  NoThreshold = NoThreshold
  MaxKeys = 2
  Voters = {a, b}
  Others <- RingsOfTwoSizes
  Primes <- KeyPairs
  Votes = {8, 20}
  Rands = {0, 2}
  MaxLines = 2
  MaxList = 4
  MaxElections = 2
INVARIANTS
  GraphHoldsChains
  ShownTruly
  SubmittedOnce
  GenesisSound
  TallyIsSum
  CiphersOpen
  CommittedTogether
PROPERTIES
  LastVoteRecorded
