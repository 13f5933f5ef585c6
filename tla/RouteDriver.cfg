SPECIFICATION DriverSpec
CONSTANTS
  Nodes = {"a", "b", "c"}
  Order <- MCOrder
  Graphs <- AllGraphs
  Cost <- MCCost
  Total = 2
  MaxAttempts = 1
  RetryIntents = {}
CHECK_DEADLOCK FALSE
INVARIANTS
  DriverIsSound
PROPERTIES
  RouteReturns
