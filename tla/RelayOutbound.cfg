SPECIFICATION FairSpec
CONSTANTS
  Peers = {a, b}
  Answering = {b}
  QueueSize = 1
  BatchMax = 2
  Window = 1
  MaxPackets = 3
  MaxArriving = 0
  MaxWire = 0
  MaxFaults = 1
PROPERTIES
  PortsAreQueues
  AcceptedIsSent
  ReaderIsNotHeld
  LoopsEnd
