CONSTANTS
  Strings <- MCStrings
  Reqs = {r1}
  Menu <- ListMenu
  Tables <- FindingTables
  Faults = {}
  Vetoes = {}
  Modulus = 4
SPECIFICATION Spec
CHECK_DEADLOCK FALSE
INVARIANTS
  ListedInNamespace
