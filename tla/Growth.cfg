SPECIFICATION GrowthSpec
CONSTANTS
  Proposals <- GrowthProposals
  Seeded <- GrowthSeeded
  Registered <- GrowthRegistered
  Verdicts = {"pass", "fail"}
  Aggregates = {a1}
  Controllers = {k1, k2}
  PinnedRuns = {r1}
  None = None
  MaxEvolution = 3
  ScheduleKeys = {"g1", "g2", "g3"}
  MaximumCheckpoints = 2
  MemoryCandidates = {"v1", "v2"}
  EvidenceOf <- GrowthEvidence
  KnownGood = "v0"
  Ends = {"promoted", "decayed"}
  MaximumEdges = 2
  RollbackOnLoss = TRUE
  MaxMemoryLog = 4
  MaxOutcomes = 4
  Attention = 6
  InterruptCost = 3
  DigestCost = 1
  MaxInterrupts = 1
  MinimumValue = 5
  Resources = {1, 2, 3}
  Policies <- GrowthPolicies
  CostOf <- GrowthCost
  MaxEvidence = 4
SYMMETRY ControllersAlike
CHECK_DEADLOCK FALSE
INVARIANTS
  EvolutionIsSound
  ProjectIsSound
  MemoryIsSound
  SelectionIsSound
PROPERTIES
  GrowthIsEarned
