SPECIFICATION FairSpec
CONSTANTS
  Sessions = {s}
  NoSession = none
  Window = 2
  Windows = {2}
  MaxStreams = 5
  MaxReceivers = 7
  MaxEpoch = 4
  MaxPackets = 2
  MaxFaults = 2
INVARIANTS
  EndsInStep
PROPERTIES
  StreamIsLog
  StreamSettles
CHECK_DEADLOCK FALSE
