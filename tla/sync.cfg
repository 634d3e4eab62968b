SPECIFICATION FairSpec
CONSTANTS
    n1 = n1
    n2 = n2
    g = g
    a1 = a1
    b1 = b1
    b2 = b2
    b3 = b3
    b4 = b4
    b5 = b5
    b6 = b6
    c6 = c6
    kernel = kernel
    Nil = Nil
    Blocks <- MCBlocks
    Genesis = g
    hashPrevBlock <- MCPrev
    blockTrust <- MCTrust
    Txs <- MCTxs
    CoinBase <- MCTxs
    CoinStake = {}
    vtx <- MCvtx
    vin <- MCvin
    nOut <- MCnOut
    proofOfStake <- MCStake
    Unacceptable = {}
    Unconnectable = {}
    LowWork = {}
    LowFee = {}
    nCoinbaseMaturity = 1
    Nodes <- MCNodes
    Dials <- MCDials
    Held <- MCHeld
    nLimit = 2
    LocatorDense = 2
    nTime <- MCHeight
    nStakeMinAge = 10
    Old <- MCOld
    MaxDisconnects = 2
INVARIANTS
    TypeOK
    NoOrphanWhenQuiet
    
PROPERTY EventuallySynced
CHECK_DEADLOCK FALSE
