SPECIFICATION Spec
CONSTANTS
  None = None
  Handles = {"a", "b", "c"}
  Runs = {"r1", "r2"}
  Ids = {"e1", "e2", "e3"}
  Keys = {}
  Bodies = {"p", "q"}
  TextBodies = {"p"}
  Inputs <- TextInputs
  MaxSchema = 2
  Schema <- MCSchema
  FtsHandles = {"a", "c"}
  Edges <- MCEdges
  Maintainers = {"c"}
  Writers = {}
  Cursors = {}
  PageSize = 1
  CacheLosses = 1
INVARIANTS
  DerivedFollowsLog
  OneImplementationPerStep
