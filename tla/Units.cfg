SPECIFICATION UnitSpec
CONSTANTS
  V4 = 2
  V6 = 3
  Mapped = 1
  Peer = {p1, p2}
  None = none
  MaxRoutes = 2
  a = a
  b = b
  Nodes <- MCNodes
  User <- MCUser
  Base <- MCBase
  Inputs <- MCInputs
  Found <- MCFound
  DefaultStreamWindow = 1048576
  MaxEdits = 3
  Radix = 3
  StreamMagic <- MCStreamMagic
  TunMagic <- MCTunMagic
  StreamLength = 2
  TunLength = 2
  StreamMax = 9
  TunMax = 13
  StreamPacketMax = 8
  TunPacketMax = 8
  Limits = {2, 8}
  Given <- MCGiven
  MaxWire = 9
INVARIANTS
  LongestPrefixWins
  PacketsComeThrough
  BatchesAreExact
  AcceptedSuitsDataPath
  OneConnectionPerPair
CHECK_DEADLOCK FALSE
