SPECIFICATION Spec
CONSTANTS
  None = None
  Clients = {"c1", "c2"}
  Request <- EitherRequest
  MaxRuns = 1
  Intents = {"a", "q", "n", "x", "y"}
  Policy <- MCPolicy
  External = {"x", "y"}
  OneShotOnly = {"x"}
  Autonomous = {"y"}
  FreshIntents = TRUE
  MaxTurns = 3
  MaxActions = 2
  MaxCrashes = 2
CHECK_DEADLOCK FALSE
INVARIANTS
  
  NoActionForgotten
