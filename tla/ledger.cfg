CONSTANTS
    g = g  p = p  a2 = a2  a3 = a3  b2 = b2  b3 = b3  b4 = b4  d4 = d4
    cp = cp  ca2 = ca2  ca3 = ca3  cb2 = cb2  cb3 = cb3  cb4 = cb4  cd4 = cd4
    t1 = t1  t2 = t2  t3 = t3  t4 = t4
    Nil = Nil
    Blocks <- MCBlocks
    Genesis = g
    hashPrevBlock <- MChashPrevBlock
    blockTrust <- MCblockTrust
    Txs <- MCTxs
    CoinBase <- MCCoinBase
    CoinStake = {}
    vtx <- MCvtx
    vin <- MCvin
    nOut <- MCnOut
    proofOfStake <- NoStake
    Unacceptable = {}
    Unconnectable = {}
    LowWork = {}
    LowFee = {}
    nCoinbaseMaturity = 1
    CheckpointsMode = "strict"
    SyncCheckpoints = {}
    LastHardened = g
    Suspect = {}
    MaxRestarts = 2
    MaxFaults = 0
SPECIFICATION Spec
CHECK_DEADLOCK FALSE
PROPERTY ImplementsLedger
