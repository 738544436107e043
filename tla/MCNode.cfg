SPECIFICATION MCSpec
CONSTANTS
  g = g x1 = x1 x2 = x2 x3 = x3 y1 = y1 y2 = y2 t1 = t1 t2 = t2
  m1 = m1 m2 = m2 m3 = m3 m4 = m4 a = a w = w
  Chain <- MCChain
  NoHash = NoHash
  BufferedKeys = {a}
  DirectKeys = {w}
  Values = {x1, x2}
  NoRow = NoRow
  MaxBuffered = 2
  MaxWrites = 3
  Machines <- MCMachines
  Accounts = {a, w}
  Founders = {x1, x2}
  MaxStarts = 3
  EntryKinds = {"account", "storage"}
  Value <- MCValue
  NoEntry = NoEntry
  TipHeight = 3
  MaxServed = 2
  Tasks = {x1, x2}
  Requests <- MCRequests
  KeyFiles <- MCKeyFiles
  Garbled = Garbled
  AnonymousWrites = FALSE
  MaxBatch = 2
  MaxSubscriptions = 1
  RateLimit = 1
  MaxEdits = 1
  MaxSeconds = 2
  PoolTxs <- MCPoolTxs
  Submitters = {x1, x2}
  MaxPool = 2
  MaxPerAccount = 2
  FutureGap = 1
  Funds = 3
  PoolBudgets <- MCPoolBudgets
  Ids = {"v"}
  ToolFiles = {"f"}
  Callers = {"c1", "c2"}
  Secrets = {x1, x2}
  StrongPasswords = {a}
  StorePassword = a
  Production = FALSE
  MaxCalls = 3
  MaxRetries = 1
  NoKey = NoKey
  Torn = Torn
  Participants = {"p1", "p2"}
  Paths = {"a", "b"}
  FirstPath = "a"
  Prime = 5
  DevTau = 3
  MinParticipants = 1
  Absent = Absent
  TornFile = Torn
  TreeKeys = {a}
  VestingKeys = {w}
  RowValues = {1, 2}
  Tombstone = Tombstone
  SnapHeights = {0, 1, 10}
  Retain = 1
  MaxChanges = 3
  LockHeights = {1, 2}
  QcViews = {1}
  SetHashes = {x1}
  PeerCount = 3
  PeerViews = {1, 2, 9}
  MaxViewJump = 2
  MaxRecordChanges = 3
  Nothing = Nothing
  Members = {m1, m2, m3, m4}
  Faulty = {m1}
  Outsider = w
  FastBlocks = {x1, x2}
  FastViews = {1}
  FastQuorum = 3
  MinActive = 3
  Forged = Forged
INVARIANTS
    
    BootstrapSound
    
    
    KeyMaterialKept
    
    

    
CHECK_DEADLOCK FALSE
