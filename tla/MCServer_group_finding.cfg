CONSTANTS
  Strings <- MCStrings
  Reqs = {r1, r2}
  Menu <- GetMenu
  Tables <- NoRows
  Faults = {"reserved"}
  Vetoes = {}
  Modulus = 4
SPECIFICATION Spec
CHECK_DEADLOCK FALSE
PROPERTIES
  StoredFound
