SPECIFICATION Spec
CONSTANTS
  None = None
  Clients = {"c1", "c2"}
  Request <- SameKey
  MaxRuns = 2
  Intents = {"a"}
  Policy <- MCPolicy
  External = {}
  OneShotOnly = {}
  Autonomous = {}
  FreshIntents = TRUE
  MaxTurns = 1
  MaxActions = 1
  MaxCrashes = 0
CHECK_DEADLOCK FALSE
INVARIANTS
  OneRunPerKey
