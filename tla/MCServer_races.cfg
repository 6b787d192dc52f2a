CONSTANTS
  Strings <- MCStrings
  Reqs = {r1, r2, r3}
  Menu <- RaceMenu
  Tables <- RaceTables
  Faults = {}
  Vetoes = {}
  Modulus = 4
SPECIFICATION Spec
CHECK_DEADLOCK FALSE
SYMMETRY MCSymmetry
INVARIANTS
  StoreConsistent
  AckInv
  WritesAddressed
  GetByVersionExact
  AckedWritesPersist
  AckedRemovalsHold
  LimitHonoured
PROPERTIES
  IdentityStable
