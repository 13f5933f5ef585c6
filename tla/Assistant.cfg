SPECIFICATION AssistantSpec
CONSTANTS
  Handles = {h1, h2}
  Driver = h1
  TriggerAt = 1
  TimeboxEnd = 2
  ExpiresAt = 3
  LeaseTime = 1
  MaxNow = 3
  MaxJobLog = 6
  MapObjects = {"m"}
  ModelObjects = {"t", "d"}
  CandidateOf <- ModelCandidates
  Derivations <- ModelDerivations
  MaxCognitionLog = 5
  CautionEvidence = 1
  TrustEvidence = 2
  TrustTimepoints = 2
  CautionConfidence = 4
  TrustConfidence = 8
  MaxItems = 3
  Origins = {o1}
  Commitments = {k1}
  Window = 2
  MaxInterrupts = 1
  QuietUntil = 1
  Capacity = 1
  DeferTimes = {1, 2}
  MaxProactiveNow = 2
  MaxEmitted = 3
  Intentions = {i1, i2}
  Situations = {s1, s2}
  CheckpointRefs = {1, 2}
  NodeIds = {n1}
  HotFor = 1
  KeptFor = 3
  Resources = {r1}
  ResourceKinds = {"tool", "skill"}
  GraphRuns = {1, 2}
  MaxFacts = 4
  Plugins = {"p1", "p2"}
  Manifests <- ModelManifests
  Servers = {"s"}
  Schemas = {"x", "y"}
  Connectors = {"a"}
  Caps = {"c", "d"}
  MaxPolicyVersion = 2
  MaxCalls = 2
  Actions <- ModelActions
  RuleSets <- ModelRuleSets
  Envelopes = {"none", "allow", "ask"}
  ApprovalIds = {a1, a2}
  ApprovalNonces = {x1, x2}
  RequestTtl = 1
  MaxApprovalNow = 2
  MaxVersion = 2
  MaxPerformed = 2
  Rules <- ModelRules
  Skills <- ModelSkills
  Slices <- ModelSlices
  MemoryCost = 3
  SummaryCost = 1
  EntryCost = 1
  MaxTokens = 20
  Reserve = 2
  ThresholdPercent = 75
  BrainCall = TRUE
  MaxWorkspace = 2
  MaxFramed = 5
  MaxHistoryEntries = 3
  MaxTurns = 5
  MaxToolCalls = 4
  TokenLimit = 6
  ReplyCosts = {1, 2}
  GovernedPerTool = {1, 2, 3}
CHECK_DEADLOCK FALSE
INVARIANTS
  
  CognitionIsSound
  ProactivityIsSound
  StoppedGoalNeverContinues
  ExtensionsSound
  ApprovalsSound
  
PROPERTIES
  DerivedFollowsEvidence
