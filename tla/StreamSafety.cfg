SPECIFICATION Spec
CONSTANTS
  Sessions = {s1}
  NoSession = NoSession
  Window = 2
  Windows = {1}
  BatchMax = 1
  QueueSize = 1
  MaxEpoch = 2
  MaxPackets = 3
  MaxFaults = 1
  MaxOpenAcks = 1
INVARIANTS
  ReadyChannelHolds
  LossIsNoticed
  FailedPathStaysDown
  DataInSequence
  CreditWakesWriter
  OutletFollowsPath
PROPERTIES
  ImplementsPacketQueue
