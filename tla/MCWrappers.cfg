CONSTANTS
  Strings <- MCStrings
  Reqs = {r1, r2}
  Menu <- WrappedMenu
  Tables <- WrappedTables
  Faults = {"refused"}
  Vetoes = {}
  Modulus = 4
  PodResources = {"pods"}
  DeploymentResources = {"deployments"}
  StatusResources = {"pods"}
  Containers <- MCContainers
SPECIFICATION WrapSpec
CHECK_DEADLOCK FALSE
INVARIANTS
  WrapInv
  CreatedPodsComplete
PROPERTIES
  WrappedAnswered
  WrappersKeepPromise
