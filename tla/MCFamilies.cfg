SPECIFICATION FamiliesSpec
CONSTANTS
  foo = foo
  bar = bar
  long = long
  a1 = a1
  a2 = a2
  Names <- MCNames
  BadNames <- MCBadNames
  Addresses <- MCAddresses
  AddressOf <- Apart
  Max = 3
  Values <- MCValues
  Text = Text
  None = None
  g1 = g1
  g2 = g2
  pipe = pipe
  x1 = x1
  x2 = x2
  alice = alice
  bob = bob
  carol = carol
  NoGame = NoGame
  Nobody = Nobody
SYMMETRY PlayerSymmetry
INVARIANT StoredValid
PROPERTIES
  KeepsCounters
  KeepsGames
