SPECIFICATION FairSpec
CONSTANTS
  None = None
  Handles = {"a", "d"}
  Runs = {"r1", "r2"}
  Ids = {"e1", "e2", "e3", "e4"}
  Keys = {"k"}
  Bodies = {"p", "q"}
  TextBodies = {"p"}
  Inputs <- LogInputs
  MaxSchema = 1
  Schema <- LogSchema
  FtsHandles = {"a"}
  Edges = {}
  Maintainers = {}
  Writers = {"w1"}
  Cursors = {"c1"}
  PageSize = 2
  CacheLosses = 0
INVARIANTS
  LogIsSound
  AnswersHold
  CursorsReadStream
PROPERTIES
  CursorsTerminate
