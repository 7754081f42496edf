SPECIFICATION FairSpec
CONSTANTS
  RelayIds = {1, 2}
  MaxConns = 3
INVARIANTS
  RegistryAgrees
  DialerNotStranded
PROPERTIES
  DeadPortIsReplaced
  ShutdownWithoutLateDial
