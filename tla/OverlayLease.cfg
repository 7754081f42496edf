SPECIFICATION Spec
CONSTANTS
  Node = {n1, n2}
  NoNode = none
  Static = {}
  Pool = 2
  LeaseDuration = 3
  Timely = TRUE
  ScanTime = 1
  StopTime = 0
  MaxTime = 3
  MaxStarts = 3
  MaxFaults = 1
SYMMETRY Symmetry
INVARIANTS
  HolderOnRecord
  NeverLapses
  OwnAddressNotRouted
PROPERTIES
  NoLiveTakeover
CHECK_DEADLOCK FALSE
