SPECIFICATION MCSpec
CONSTANTS
  v1 = v1 v2 = v2 v3 = v3 v4 = v4 v5 = v5
  pa = pa pb = pb pc = pc s1 = s1 s2 = s2
  n1 = n1 n2 = n2 n3 = n3 h0 = h0 r0 = r0 r1 = r1
  SetAt <- MCSetAt
  Power <- MCPower
  RivalVotes <- MCRivalVotes
  NoSet = NoSet
  Callers = {c1}
  FullNodes = {n1, n2}
  MaxHeaderBatchSize = 2
  MaxRetainedHeaders = 3
  EpochEnds <- MCEpochEnds
  RingBufferCapacity = 2
  MaxGap = 3
  NoHeader = NoHeader
  PeerIds = {pa, pb, pc}
  Subnets = {s1, s2}
  NoAddress = NoAddress
  BootstrapPeers <- MCBootstrapPeers
  MaxPeers = 2
  MaxPeersPerSubnet = 2
  Penalties = {1, 2}
  BannedThreshold <- MCBannedThreshold
  BanDuration = 1
  MaxClock = 2
  Senders = {n1, n2}
  Votes = {v1, v2}
  Txs = {v3}
  Malformed = {v4}
  FilterCapacity = 2
  MessageCacheLimit = 1
  RateLimitMaxMessages = 1
  MaxConsensusQueue = 2
  MaxStandardQueue = 1
  MaxConsensusBurst = 2
  Clients = {n1, n2}
  Limit <- MCLimit
  WindowLength = 2
  MaxRateLimitEntries = 1
  MaxTicks = 3
  MaxRequests = 3
  MaxPendingResponses = 2
  StaleAfter = 2
  Served <- MCServed
  Reported <- MCReported
  SyncBatchSize = 2
  ParallelDownloads = 2
  InvalidBlockPenalty = 1
  BanThreshold <- MCBanThreshold
  MaxRounds = 3
  Items <- MCItems
  Peers = {n1, n2}
  TrackerSize = 1
  PeerLimit = 1
  PeerWindow = 2
  SenderLimit = 1
  SenderWindow = 2
  IdleSeconds = 2
  PrunePeersAbove = 1
  MaxPeerBuckets = 1
  PruneSendersAbove = 1
  MaxSenderBuckets = 1
  RelayBudgets <- MCRelayBudgets
  IntakeNodes = {pa, pb}
  GossipLinks <- MCGossipLinks
  Outside = pc
  Payloads <- MCPayloads
  Genesis = 0
  CacheLimit = 1
  IntakeBudgets <- MCIntakeBudgets
  ZkBlocks <- MCZkBlocks
  TraceOptions <- MCTraceOptions
  RevealNonces = {0, 2}
  CommitRank <- MCCommitRank
  Draw <- MCDraw
  MaxBlockGas = 3
  Zero = Zero
  NoProof = NoProof
  Checkpoints <- MCCheckpoints
  GenesisRoot = r0
  ZeroHash = Zero
  HashSize = 4
  Element <- MCElement
  MaxSetups = 2
  MaxCertificates = 3
  NoCert = NoCert
INVARIANTS
    
    BanHolds
    
    
    
PROPERTIES
    AdmissionWithinLimit
    QueuedIsTaken
CHECK_DEADLOCK FALSE
