CONSTANTS
  Node = {n1, n2, n3}
  NoNode = none
  Static = {n3}
  Pool = 2
  LeaseDuration = 1
  Timely = TRUE
  ScanTime = 0
  StopTime = 0
  MaxTime = 3
  MaxStarts = 3
  MaxFaults = 0
SPECIFICATION Spec
INVARIANTS OneHolder

CHECK_DEADLOCK FALSE
