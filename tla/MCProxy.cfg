SPECIFICATION FairSpec
CONSTANTS
  Reqs = {r1, r2}
  Menu <- MCMenu
  Configs <- MCConfigs
  Statuses <- MCStatuses
  APIHeads <- MCAPIHeads
  Replies <- MCReplies
  HookFaults = {"error", "panic"}
INVARIANTS
  ProxyInv
  GaugeExact
  CountedAsAnswered
  ReportedAsAnswered
  HooksBracket
  AnswerJustified
  ForwardedWhole
PROPERTIES
  ConformsToFilters
  GoneEnds
CHECK_DEADLOCK FALSE
