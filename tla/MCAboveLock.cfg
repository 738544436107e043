SPECIFICATION Spec
CONSTANTS
    r1 = r1
    r2 = r2
    r3 = r3
    r4 = r4
    A = A
    B = B
    C = C
    D = D
    E = E
    Root = Root
    None = None
    Blocks = {A, C, D}
    HeightOf <- ChainHeightOf
    ParentOf <- ChainParentOf
    ProposerOf <- ChainProposerOf
    WalkLimit = 4
    Replicas = {r1, r2, r3, r4}
    Faulty = {r4}
    Power <- MCPower
    Valid = {A, C, D}
    Leader <- MCLeader
    MaxViewJump = 0
    MaxPending = 2
    PruneBuffer = 1
    MaxView = 1
    Crashing = {r1}
INVARIANTS
    AboveLockAccepted
CHECK_DEADLOCK FALSE
