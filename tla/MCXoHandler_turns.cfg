SPECIFICATION Spec
CONSTANTS
  g1 = g1
  a1 = a1
  a2 = a2
  alice = alice
  bob = bob
  Names <- OneName
  BadNames = {}
  Addresses <- MCAddresses
  AddressOf <- OneAddress
  Players <- TwoPlayers
  Spaces <- AllSpaces
  BadSpaces = {}
  NoGame = NoGame
  Nobody = Nobody
SYMMETRY PlayerSymmetry
PROPERTY WrongTurnRefused
