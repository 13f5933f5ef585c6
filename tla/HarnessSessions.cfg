SPECIFICATION FairSpec
CONSTANTS
  None = None
  Clients = {"c1", "c2"}
  Request <- TwoRequests
  MaxRuns = 2
  Intents = {"a", "x"}
  Policy <- MCPolicy
  External = {"x"}
  OneShotOnly = {"x"}
  Autonomous = {}
  FreshIntents = TRUE
  MaxTurns = 1
  MaxActions = 1
  MaxCrashes = 1
CHECK_DEADLOCK FALSE
INVARIANTS
  RunsEndWell
PROPERTIES
  SubmittedRunsRest
