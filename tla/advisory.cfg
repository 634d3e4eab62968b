CONSTANTS
    g = g  p = p  q2 = q2  q3 = q3  r2 = r2  r3 = r3  r4 = r4
    cp = cp  cq2 = cq2  cq3 = cq3  cr2 = cr2  cr3 = cr3  cr4 = cr4
    sq = sq  sr = sr  sr3 = sr3
    Nil = Nil
    Blocks <- MCBlocks
    Genesis = g
    hashPrevBlock <- MChashPrevBlock
    blockTrust <- MCblockTrust
    Txs <- MCTxs
    CoinBase <- MCCoinBase
    CoinStake <- MCCoinStake
    vtx <- MCvtx
    vin <- MCvin
    nOut <- MCnOut
    proofOfStake <- MCproofOfStake
    Unacceptable = {}
    Unconnectable = {r4}
    LowWork <- MCLowWork
    LowFee = {}
    nCoinbaseMaturity = 1
    CheckpointsMode = "advisory"
    SyncCheckpoints <- MCSyncCheckpoints
    LastHardened = p
    Suspect = {q2, r2}
    MaxRestarts = 2
    MaxFaults = 0
SPECIFICATION Spec
CHECK_DEADLOCK FALSE
INVARIANT PendingSettled
