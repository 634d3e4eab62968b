SPECIFICATION FairSpecMiner
CONSTANTS
    g = g
    p = p
    a = a
    b = b
    b2 = b2
    cb0 = cb0
    c = c
    ca = ca
    cb = cb
    cb2 = cb2
    t1 = t1
    t2 = t2
    t3 = t3
    t4 = t4
    t5 = t5
    t6 = t6
    x = x
    Nil = Nil
    Blocks <- MCBlocks
    Genesis = g
    hashPrevBlock <- MCPrev
    blockTrust <- MCTrust
    Txs <- MCTxs
    CoinBase <- MCCoinBase
    CoinStake = {}
    vtx <- MCvtx
    vin <- MCvin
    nOut <- MCnOut
    proofOfStake <- MCStake
    Unacceptable = {}
    Unconnectable = {}
    LowWork = {}
    LowFee = {t5}
    nCoinbaseMaturity = 0
    MaxOrphans = 3
    Large = {t6}
INVARIANTS OrphanTxMapsAgree OrphanTxLimit NoReadyOrphan DependenciesFirst
PROPERTIES SubmittedConnects LockIsFreed
CHECK_DEADLOCK FALSE
