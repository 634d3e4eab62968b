SPECIFICATION SpecNode
CONSTANTS
    g = g
    p = p
    a = a
    a2 = a2
    a3 = a3
    b = b
    cb0 = cb0
    c = c
    ca = ca
    ca2 = ca2
    ca3 = ca3
    cb = cb
    k = k
    r = r
    s = s
    t1 = t1
    v = v
    Nil = Nil
    Blocks <- MCBlocks
    Genesis = g
    hashPrevBlock <- MCPrev
    blockTrust <- MCTrust
    Txs <- MCTxs
    CoinBase <- MCCoinBase
    CoinStake = {k}
    vtx <- MCvtx
    vin <- MCvin
    nOut <- MCnOut
    proofOfStake <- MCStake
    Unacceptable = {}
    Unconnectable = {}
    LowWork = {}
    LowFee = {}
    nCoinbaseMaturity = 1
    MaxOrphans = 1
    Large = {}
    Mine <- MCMine
    MaturityMargin = 1
    COPY_DEPTH = 3
INVARIANTS WalletTypeOK ChainInWallet  SpentIsShown PoolInWallet
 
VIEW MCView
CHECK_DEADLOCK FALSE
