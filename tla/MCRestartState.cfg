SPECIFICATION MCSpec
CONSTANTS
    alice = alice
    bob = bob
    carol = carol
    t1 = t1
    t2 = t2
    t3 = t3
    t4 = t4
    t5 = t5
    t6 = t6
    B1 = B1
    B2 = B2
    B3 = B3
    C1 = C1
    C2 = C2
    X1 = X1
    P1 = P1
    P2 = P2
    D1 = D1
    F1 = F1
    G1 = G1
    Genesis = Genesis
    Unset = Unset
    Accounts = {alice, bob, carol}
    Txs = {t1, t2, t3, t4, t5, t6}
    SenderOf <- MCSenderOf
    RecipientOf <- MCRecipientOf
    Earlier <- MCEarlier
    Exhausts <- MCExhausts
    Blocks = {B1, B2, B3, C1, C2, X1, P1, P2, D1, F1, G1}
    HeightOf <- MCHeightOf
    ParentOf <- MCParentOf
    BlockTxs <- MCBlockTxs
    HeaderRoot <- MCHeaderRoot
    HeaderReceipts <- MCHeaderReceipts
    Proven = {B1, B2, B3, C1, C2, X1, F1, G1}
    Own = {B1, C1, B2, P1, P2, D1, G1}
    Retain = 1
    MaxOutages = 3
    v1 = v1
    v2 = v2
    v3 = v3
    d1 = d1
    o1 = o1
    o2 = o2
    w1 = w1
    w2 = w2
    u1 = u1
    Validators = {v1, v2, v3}
    Delegators = {d1}
    MinStake = 2
    Lockup = 1
    StakeUnit = 2
    MaxActive = 3
    JailThreshold = 2
    Voters = {w1, w2}
    Upgrades = {u1}
    TimeLock = 1
    UpgradeAge = 1
    GenesisValidators = {v1, v2}
    GenesisStake = 4
    Amounts = {2}
    RowOrder <- MCRowOrder
    Reward = 1
    EpochLength = 2
    Offences = {o1, o2}
    AccusedOf <- MCAccusedOf
    GenuineOf <- MCGenuineOf
    SlashBps <- MCSlashBps
    Cooldown = 2
    EvidenceExpiry = 2
    VoteOptions = {"Yes", "No"}
    Powers = {1}
    Quorum = 1
    PassBps = 6000
    Versions = {2}
    Budgets <- MCBudgets
PROPERTIES
    RestartVerifiesHead
CHECK_DEADLOCK FALSE
