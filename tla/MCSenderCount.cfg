SPECIFICATION Spec
CONSTANTS
    s1 = s1
    s2 = s2
    t0 = t0
    t1 = t1
    p0 = p0
    q0 = q0
    p1 = p1
    None = None
    Senders = {s1, s2}
    Hashes = {p0, q0, p1}
    Txs = {t0, t1}
    TxOf <- MCTxOf
    SenderOf <- MCSenderOf
    NonceOf <- MCNonceOf
    Window = 1
    Expiry = 0
    MaxPerSender = 2
    MaxPendingCommits = 3
    NonceGap = 1
    Limit = 2
    PrunePeriod = 2
    PruneSlack = 0
    Foreign = {t0}
    Gossip <- MCGossip
    FirstHeight = 2
    MaxHeight = 4
    MaxProposals = 2
    MaxRestarts = 1
INVARIANT
    SenderCountExact
CHECK_DEADLOCK FALSE
