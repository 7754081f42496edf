SPECIFICATION FairSpec
CONSTANTS
  Ids = {1, 2}
  MaxReceivers = 2
  MaxEpoch = 2
  MaxOffset = 2
INVARIANTS
  AckFollowsWrite
PROPERTIES
  RemovedReceiverIsSilent
  WrittenIsAcknowledged
  StoppedLoopEnds
