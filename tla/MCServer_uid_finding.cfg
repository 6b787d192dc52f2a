CONSTANTS
  Strings <- MCStrings
  Reqs = {r1, r2}
  Menu <- UidlessMenu
  Tables <- FindingTables
  Faults = {}
  Vetoes = {}
  Modulus = 4
SPECIFICATION Spec
CHECK_DEADLOCK FALSE
PROPERTIES
  FreeNameAccepted
