CONSTANTS
  Boot <- MCBoot
  Requests <- FewRequests
SPECIFICATION Spec
CHECK_DEADLOCK FALSE
INVARIANTS
  WrapperInstalled
