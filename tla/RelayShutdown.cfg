SPECIFICATION FairSpec
CONSTANTS
  RelayIds = {1, 2}
  MaxConns = 2
PROPERTIES
  ShutdownCompletes
