CONSTANTS
  Strings <- MCStrings
  Reqs = {r1, r2, r3}
  Menu <- FaultMenu
  Tables <- FaultTables
  Faults = {"refused", "unacknowledged"}
  Vetoes = {"preCreate", "preUpdate", "preDelete", "postCreate", "postGet", "postList", "postUpdate", "postDelete"}
  Modulus = 4
SPECIFICATION Spec
CHECK_DEADLOCK FALSE
SYMMETRY MCSymmetry
INVARIANTS
  TypeOK
  Inv
  RejectedHasNoEffect
PROPERTIES
  KeepsPromise
