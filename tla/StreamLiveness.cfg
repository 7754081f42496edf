SPECIFICATION FairSpec
CONSTANTS
  Sessions = {s1, s2}
  NoSession = NoSession
  Window = 1
  Windows = {1}
  BatchMax = 1
  QueueSize = 1
  MaxEpoch = 3
  MaxPackets = 1
  MaxFaults = 0
  MaxOpenAcks = 1
PROPERTIES
  LossIsHandled
  RestartEndsStream
  SilenceIsDetected
