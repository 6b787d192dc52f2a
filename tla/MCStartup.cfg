CONSTANTS
  Boot <- MCBoot
  Requests <- MCRequests
SPECIFICATION FairSpec
CHECK_DEADLOCK FALSE
INVARIANTS
  StartInv
  RegistryCoherent
  OneStorageEach
  ServesAllOrNothing
  RoutesUnshadowed
  ExitTellsWhy
PROPERTIES
  ComesToAnEnd
