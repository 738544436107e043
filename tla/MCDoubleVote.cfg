SPECIFICATION Spec
CONSTANTS
    r1 = r1
    r2 = r2
    r3 = r3
    r4 = r4
    A = A
    B = B
    C = C
    D = D
    E = E
    Root = Root
    None = None
    Blocks = {A, E}
    HeightOf <- MCHeightOf
    ParentOf <- MCParentOf
    ProposerOf <- MCProposerOf
    WalkLimit = 4
    Replicas = {r1, r2, r3, r4}
    Faulty = {r4}
    Power <- MCPower
    Valid = {A, E}
    Leader <- MCLeader
    MaxViewJump = 1
    MaxPending = 2
    PruneBuffer = 1
    MaxView = 1
    Crashing = {r1}
INVARIANT
    OnePrepareVotePerView
CHECK_DEADLOCK FALSE
