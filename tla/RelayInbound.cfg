SPECIFICATION FairSpec
CONSTANTS
  Peers = {a, b}
  Answering = {b}
  QueueSize = 1
  BatchMax = 1
  Window = 1
  MaxPackets = 0
  MaxArriving = 2
  MaxWire = 1
  MaxFaults = 1
INVARIANTS
  WrittenWithoutGap
PROPERTIES
  ArrivedIsWritten
