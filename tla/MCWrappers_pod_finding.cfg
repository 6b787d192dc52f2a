CONSTANTS
  Strings <- MCStrings
  Reqs = {r1, r2}
  Menu <- StatusMenu
  Tables <- WrappedTables
  Faults = {}
  Vetoes = {}
  Modulus = 4
  PodResources = {"pods"}
  DeploymentResources = {}
  StatusResources = {"pods"}
  Containers <- MCContainers
SPECIFICATION WrapSpec
CHECK_DEADLOCK FALSE
PROPERTIES
  StoredPodServed
