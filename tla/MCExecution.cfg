SPECIFICATION MCSpec
CONSTANTS
    a = a
    b = b
    c = c
    d = d
    e = e
    f = f
    g = g
    con = con
    n0 = n0
    n1 = n1
    s = s
    t = t
    Keys = {a, b, c, d, e, f, g}
    Missing = Missing
    Blocks <- MCBlocks
    MaxRounds = 8
    AbortShare <- Half
    Addresses = {a, b, con, n0, n1}
    Slots = {s, t}
    Nobody = Nobody
    Absent = Absent
    Intrinsic = 1
    Worlds <- MCWorlds
    Locks <- MCLocks
    Batches <- MCBatches
    SlotKeys = {s, t}
    AccountKeys = {a}
    Words = {0, 1, 2}
    MemoryEnds = {1, 20, 60}
    PrecompileCosts = {Unpayable, 60}
    Unpayable = Unpayable
    GasLimits = {200, 500}
    MaxCharges = 5
    TxCount = 3
    StateKeys = {s, t}
    MaxRetries = 1
    Branching = 3
    Prime = 10007
    Tau = 1234
    TreePaths <- MCTreePaths
    Values <- MCTreeValues
    ChunkSize = 2
    NoFile = NoFile
    LeafHashes <- MCLeafHashes
    MaxLeaves = 5
INVARIANTS
    SequentialUnlessRevived
    PathsAccountAlike
    GasAccounted
    ConflictsKeepBlockOrder
    TreesProveTheirContents
PROPERTIES
    RoundsProgress
CHECK_DEADLOCK FALSE
