SPECIFICATION Spec
CONSTANTS
  Nodes = {"a", "b", "c"}
  Graphs <- AllGraphs
  Cost <- MCCost
  Total = 3
  MaxAttempts = 3
  RetryIntents = {"i", "j"}
CHECK_DEADLOCK FALSE
INVARIANTS
  RouteIsSound
  RuntimeIsSound
