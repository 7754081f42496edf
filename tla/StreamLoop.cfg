SPECIFICATION FairSpec
CONSTANTS
  Ports = {p1, p2, p3}
  Sessions = {s1, s2}
  None = None
  ShouldDial = TRUE
  MaxEvents = 2
INVARIANTS
  OnePortAtATime
  EndsInOrder
PROPERTIES
  LoopEnds
  StreamComesBack
