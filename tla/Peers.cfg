SPECIFICATION PeersSpec
CONSTANTS
  NoBatch = NoBatch
  MaxStream = 5
  MaxPeerEpoch = 2
  MaxExports = 3
  Local = Local
  MaxSource = 4
  MaxTarget = 5
  Planners = {c1, c2}
  Receipts = {"rec1", "rec2"}
  Signals = {"s1"}
  MaxRunEvents = 4
  Workers = {w1, w2}
  GatewayPeers = {p1}
  Nonces = {"n1"}
  PeerSignals = {"s1"}
  ChannelTtl = 1
  GrantTtl = 2
  MaxGrants = 2
  Participants <- ModelParticipants
  Principals <- ModelPrincipals
  MessageKeys = {"k1"}
  RateLimit = 1
  RateWindow = 2
  AuthTtl = 1
  MaxAdmitted = 5
  MaxGatewayTime = 2
  Callers = {d1, d2}
  Messages = {"m1", "m2", "m3"}
  MessageData <- ModelMessageData
  Rule <- ModelRule
  MaxRounds = 2
  MaxMessages = 2
  MaxTokens = 3
  SessionTtl = 1
  Observations = {o1, o2}
  RetentionTtl = 1
  MaxSessions = 1
  MaxTime = 1
SYMMETRY Interchangeable
CHECK_DEADLOCK FALSE
INVARIANTS
  ReplicaIsSound
  SyncIsSound
  CustodyIsSound
  GatewayIsSound
  CommunicationIsSound
PROPERTIES
  PeersOnlyAdvance
