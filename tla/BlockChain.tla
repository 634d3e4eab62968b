----------------------------- MODULE BlockChain -----------------------------
(***************************************************************************)
(* How a node accepts blocks, chooses its best chain and keeps it on disk: *)
(* ProcessBlock, AcceptBlock, AddToBlockIndex, SetBestChain and Reorganize *)
(* of main.cpp, the synchronized checkpoints of checkpoints.cpp, and the   *)
(* restart of CTxDB::LoadBlockIndex.                                       *)
(*                                                                         *)
(* A handler runs under cs_main, so no other handler starts before it      *)
(* returns; it is split into the steps between which the process may stop  *)
(* or the disk may fail.  pc names the step to take next, and "idle" means *)
(* that no handler runs.                                                   *)
(***************************************************************************)
EXTENDS Mempool

CONSTANTS
    CheckpointsMode,    \* "strict", "advisory" or "permissive" (-cppolicy)
    SyncCheckpoints,    \* blocks the checkpoint master signs
    LastHardened,       \* the last entry of mapCheckpoints
    Suspect,            \* blocks that CheckBlock may refuse at a restart
    MaxRestarts,        \* bound on restarts
    MaxFaults           \* bound on disk errors

ASSUME NodeAssumption ==
    /\ CheckpointsMode \in {"strict", "advisory", "permissive"}
    /\ SyncCheckpoints \subseteq Blocks
    /\ LastHardened \in Blocks
    /\ Suspect \subseteq Blocks
    /\ MaxRestarts \in Nat
    /\ MaxFaults \in Nat

VARIABLES
    mapBlockIndex,          \* blocks in the index (memory)
    pnext,                  \* CBlockIndex::pnext, the next block of the main chain
    pindexBest,             \* the last block of the main chain (hashBestChain)
    setStakeSeen,           \* proofs of stake of the indexed blocks
    mapOrphanBlocks,        \* blocks whose parent is not indexed
    mapOrphanBlocksByPrev,  \* <<parent, orphan>>
    setStakeSeenOrphan,     \* proofs of stake of the orphans
    nBestInvalidTrust,      \* greatest trust of a branch that did not connect
    hashSyncCheckpoint,     \* the accepted synchronized checkpoint
    hashPendingCheckpoint,  \* one whose block is not indexed yet, or Nil
    hashInvalidCheckpoint,  \* one that conflicts with the accepted one, or Nil
    mempool,                \* CTxMemPool
    db,                     \* what CTxDB has committed
    pc,                     \* the step to take next
    pblock,                 \* the block in AcceptBlock
    vWorkQueue,             \* accepted blocks whose orphans are to be tried
    sbc,                    \* the running call of SetBestChain
    batch,                  \* uncommitted writes of a reorganisation
    vResurrect,             \* transactions of disconnected blocks
    vDelete,                \* transactions of connected blocks
    torn,                   \* history: blocks made the best without being connected
    restarts, faults        \* history: how often these happened

indexVars == <<mapBlockIndex, setStakeSeen>>
chainVars == <<pnext, pindexBest, nBestInvalidTrust>>
orphanVars == <<mapOrphanBlocks, mapOrphanBlocksByPrev, setStakeSeenOrphan>>
checkpointVars == <<hashSyncCheckpoint, hashPendingCheckpoint, hashInvalidCheckpoint>>
poolVars == <<mempool, vResurrect, vDelete>>
callVars == <<pblock, vWorkQueue>>
historyVars == <<torn, restarts, faults>>
vars == <<indexVars, chainVars, orphanVars, checkpointVars, poolVars, callVars,
          historyVars, db, pc, sbc, batch>>

PCs == {"idle", "accept", "setbest", "reorganize", "mempool", "inner",
        "succeeded", "failed", "accepted", "writesync", "work"}

Callers == {"AddToBlockIndex", "AcceptPendingSyncCheckpoint",
            "ProcessSyncCheckpoint", "LoadBlockIndex"}

NoCall == [caller |-> "none", new |-> Nil, inter |-> Nil, tip |-> Nil, kind |-> "none"]

NoBatch == [txindex |-> <<>>, next |-> <<>>]

Max(a, b) == IF a >= b THEN a ELSE b

IsProofOfStake(b) == proofOfStake[b] # Nil

(* The key of setStakeSeen for a block: empty for proof-of-work. *)
StakeOf(b) == IF IsProofOfStake(b) THEN {proofOfStake[b]} ELSE {}

-----------------------------------------------------------------------------
(* A first start: LoadBlockIndex has written the genesis block, and since  *)
(* the database holds no checkpoint key yet, ResetSyncCheckpoint has made  *)
(* the last hardened checkpoint pending.                                   *)
Init ==
    /\ mapBlockIndex = {Genesis}
    /\ pnext = [b \in Blocks |-> Nil]
    /\ pindexBest = Genesis
    /\ setStakeSeen = {}
    /\ mapOrphanBlocks = {}
    /\ mapOrphanBlocksByPrev = {}
    /\ setStakeSeenOrphan = {}
    /\ nBestInvalidTrust = 0
    /\ hashSyncCheckpoint = Genesis
    /\ hashPendingCheckpoint = IF LastHardened = Genesis THEN Nil ELSE LastHardened
    /\ hashInvalidCheckpoint = Nil
    /\ mempool = EmptyPool
    /\ db = [index |-> {Genesis}, next |-> [b \in Blocks |-> Nil],
             best |-> Genesis, txindex |-> <<>>, sync |-> Genesis]
    /\ pc = "idle"
    /\ pblock = Nil
    /\ vWorkQueue = <<>>
    /\ sbc = NoCall
    /\ batch = NoBatch
    /\ vResurrect = <<>>
    /\ vDelete = <<>>
    /\ torn = {}
    /\ restarts = 0
    /\ faults = 0

-----------------------------------------------------------------------------
(*                       Synchronized checkpoints                          *)

(* CBlockIndex::IsInMainChain *)
IsInMainChain(b) == pnext[b] # Nil \/ b = pindexBest

(* Mutant: an older checkpoint is accepted where it should be ignored. *)
ValidateSyncCheckpoint_older(c) ==
    \/ hashSyncCheckpoint \in Branch[c]
    \/ c \in Branch[hashSyncCheckpoint]

(* Checkpoints::ValidateSyncCheckpoint: only a descendant of the current   *)
(* checkpoint may replace it.                                              *)
ValidateSyncCheckpoint(c) ==
    /\ nHeight[c] > nHeight[hashSyncCheckpoint]
    /\ hashSyncCheckpoint \in Branch[c]

(* It is in conflict when neither is an ancestor of the other. *)
ConflictsWithSyncCheckpoint(c) ==
    /\ hashSyncCheckpoint \notin Branch[c]
    /\ c \notin Branch[hashSyncCheckpoint]

(* Mutant: a block above the checkpoint is not traced back to it. *)
CheckSync_above(b) ==
    LET h == nHeight[hashPrevBlock[b]] + 1
    IN /\ h = nHeight[hashSyncCheckpoint] => b = hashSyncCheckpoint
       /\ h < nHeight[hashSyncCheckpoint] => b \in mapBlockIndex

(* Checkpoints::CheckSync for a block whose parent is indexed. *)
CheckSync(b) ==
    LET h == nHeight[hashPrevBlock[b]] + 1
        s == hashSyncCheckpoint
    IN /\ h > nHeight[s] => s \in Branch[hashPrevBlock[b]]
       /\ h = nHeight[s] => b = s
       /\ h < nHeight[s] => b \in mapBlockIndex

(* GetOrphanRoot and WantedByOrphan: the missing parent of the earliest    *)
(* orphan from which an orphan descends.                                   *)
OrphanRoot(b) ==
    CHOOSE a \in Branch[b] \cap mapOrphanBlocks :
        /\ hashPrevBlock[a] \notin mapOrphanBlocks
        /\ \A x \in Branch[b] : nHeight[x] > nHeight[a] => x \in mapOrphanBlocks

WantedByOrphan(b) == hashPrevBlock[OrphanRoot(b)]

WantedByPendingSyncCheckpoint(b) ==
    /\ hashPendingCheckpoint # Nil
    /\ \/ b = hashPendingCheckpoint
       \/ /\ hashPendingCheckpoint \in mapOrphanBlocks
          /\ b = WantedByOrphan(hashPendingCheckpoint)

-----------------------------------------------------------------------------
(*                    ProcessBlock, from a peer or a miner                 *)

HasOrphanChild(b) == \E e \in mapOrphanBlocksByPrev : e[1] = b

(* A proof of stake used before is let through only for a block that is    *)
(* waited for.                                                             *)
DuplicateStake(b, seen) ==
    /\ IsProofOfStake(b)
    /\ proofOfStake[b] \in seen
    /\ ~ HasOrphanChild(b)
    /\ ~ WantedByPendingSyncCheckpoint(b)

TooLittleWork(b) ==
    /\ <<b, hashSyncCheckpoint>> \in LowWork
    /\ hashPrevBlock[b] # pindexBest
    /\ ~ WantedByPendingSyncCheckpoint(b)

(* The tests of ProcessBlock that come before the block is kept. *)
Processable(b) ==
    /\ b \notin mapBlockIndex
    /\ b \notin mapOrphanBlocks
    /\ ~ DuplicateStake(b, setStakeSeen)
    /\ ~ TooLittleWork(b)

(* ProcessBlock, parent not indexed: the block is held back as an orphan. *)
ProcessOrphanBlock(b) ==
    /\ pc = "idle"
    /\ Processable(b)
    /\ hashPrevBlock[b] \notin mapBlockIndex
    /\ ~ DuplicateStake(b, setStakeSeenOrphan)
    /\ mapOrphanBlocks' = mapOrphanBlocks \cup {b}
    /\ mapOrphanBlocksByPrev' = mapOrphanBlocksByPrev \cup {<<hashPrevBlock[b], b>>}
    /\ setStakeSeenOrphan' = setStakeSeenOrphan \cup StakeOf(b)
    /\ UNCHANGED <<indexVars, chainVars, checkpointVars, poolVars, callVars,
                   historyVars, db, pc, sbc, batch>>

(* Mutant: a block without its parent is not held back. *)
ProcessBlock_eager(b) ==
    /\ pc = "idle"
    /\ Processable(b)
    /\ pc' = "accept"
    /\ pblock' = b
    /\ UNCHANGED <<indexVars, chainVars, orphanVars, checkpointVars, poolVars,
                   vWorkQueue, historyVars, db, sbc, batch>>

(* ProcessBlock, parent indexed: on to AcceptBlock. *)
ProcessBlock(b) ==
    /\ pc = "idle"
    /\ Processable(b)
    /\ hashPrevBlock[b] \in mapBlockIndex
    /\ pc' = "accept"
    /\ pblock' = b
    /\ UNCHANGED <<indexVars, chainVars, orphanVars, checkpointVars, poolVars,
                   vWorkQueue, historyVars, db, sbc, batch>>

-----------------------------------------------------------------------------
(*                    AcceptBlock and AddToBlockIndex                      *)

(* The tests of AcceptBlock.  A kernel is looked up in the index of the    *)
(* main chain, whichever branch the block is on.                           *)
AcceptBlockOK(b) ==
    /\ b \notin Unacceptable
    /\ IsProofOfStake(b) => proofOfStake[b][1][1] \in DOMAIN db.txindex
    /\ CheckpointsMode = "strict" => CheckSync(b)

(* AddToBlockIndex indexes the block, in memory and then on disk, and goes *)
(* on to SetBestChain when the block's chain has the most trust.           *)
AcceptBlock ==
    /\ pc = "accept"
    /\ AcceptBlockOK(pblock)
    /\ mapBlockIndex' = mapBlockIndex \cup {pblock}
    /\ setStakeSeen' = setStakeSeen \cup StakeOf(pblock)
    /\ db' = [db EXCEPT !.index = @ \cup {pblock}]
    /\ IF nChainTrust[pblock] > nChainTrust[pindexBest]
       THEN /\ pc' = "setbest"
            /\ sbc' = [NoCall EXCEPT !.caller = "AddToBlockIndex", !.new = pblock]
       ELSE /\ pc' = "accepted"
            /\ UNCHANGED sbc
    /\ UNCHANGED <<chainVars, orphanVars, checkpointVars, poolVars, callVars,
                   historyVars, batch>>

(***************************************************************************)
(* What ProcessBlock does when AcceptBlock returns.  The block it was      *)
(* called with starts the work queue; an orphan that was tried is erased   *)
(* whether or not it was accepted.                                         *)
(***************************************************************************)
AcceptBlockReturns(fAccepted) ==
    /\ IF vWorkQueue = <<>> /\ ~ fAccepted
       THEN pc' = "idle"
       ELSE pc' = "work"
    /\ vWorkQueue' = IF fAccepted THEN Append(vWorkQueue, pblock) ELSE vWorkQueue
    /\ mapOrphanBlocks' = mapOrphanBlocks \ {pblock}
    /\ setStakeSeenOrphan' = IF vWorkQueue = <<>>
                             THEN setStakeSeenOrphan
                             ELSE setStakeSeenOrphan \ StakeOf(pblock)
    /\ pblock' = Nil
    /\ sbc' = NoCall
    /\ UNCHANGED mapOrphanBlocksByPrev

(* AcceptBlock refuses the block, or cannot write it to the block file. *)
RejectBlock ==
    /\ pc = "accept"
    /\ \/ ~ AcceptBlockOK(pblock) /\ faults' = faults
       \/ faults < MaxFaults /\ faults' = faults + 1
    /\ AcceptBlockReturns(FALSE)
    /\ UNCHANGED <<indexVars, chainVars, checkpointVars, poolVars, torn, restarts,
                   db, batch>>

(* Mutant: the orphans are looked up under the wrong hash. *)
OrphansOf_swapped(b) == {x \in mapOrphanBlocks : <<x, b>> \in mapOrphanBlocksByPrev}

(***************************************************************************)
(* The loop of ProcessBlock over the orphans of the accepted blocks.  An   *)
(* entry of mapOrphanBlocksByPrev outlives its orphan until all orphans of *)
(* the same parent have been tried.                                        *)
(***************************************************************************)
OrphansOf(b) == {x \in mapOrphanBlocks : <<b, x>> \in mapOrphanBlocksByPrev}

TryOrphan ==
    /\ pc = "work"
    /\ vWorkQueue # <<>>
    /\ \E x \in OrphansOf(Head(vWorkQueue)) : pblock' = x
    /\ pc' = "accept"
    /\ UNCHANGED <<indexVars, chainVars, orphanVars, checkpointVars, poolVars,
                   vWorkQueue, historyVars, db, sbc, batch>>

(* Mutant: the loop does not go on to the next block of the queue. *)
NextParent_stuck ==
    /\ pc = "work"
    /\ vWorkQueue # <<>>
    /\ OrphansOf(Head(vWorkQueue)) = {}
    /\ mapOrphanBlocksByPrev' =
         {e \in mapOrphanBlocksByPrev : e[1] # Head(vWorkQueue)}
    /\ UNCHANGED <<indexVars, chainVars, mapOrphanBlocks, setStakeSeenOrphan,
                   checkpointVars, poolVars, callVars, historyVars, db, pc, sbc, batch>>

(* Mutant: mapOrphanBlocksByPrev is not cleaned up. *)
NextParent_kept ==
    /\ pc = "work"
    /\ vWorkQueue # <<>>
    /\ OrphansOf(Head(vWorkQueue)) = {}
    /\ vWorkQueue' = Tail(vWorkQueue)
    /\ pc' = IF Tail(vWorkQueue) = <<>> THEN "idle" ELSE "work"
    /\ UNCHANGED <<indexVars, chainVars, orphanVars, checkpointVars, poolVars, pblock,
                   historyVars, db, sbc, batch>>

NextParent ==
    /\ pc = "work"
    /\ vWorkQueue # <<>>
    /\ OrphansOf(Head(vWorkQueue)) = {}
    /\ mapOrphanBlocksByPrev' =
         {e \in mapOrphanBlocksByPrev : e[1] # Head(vWorkQueue)}
    /\ vWorkQueue' = Tail(vWorkQueue)
    /\ pc' = IF Tail(vWorkQueue) = <<>> THEN "idle" ELSE "work"
    /\ UNCHANGED <<indexVars, chainVars, mapOrphanBlocks, setStakeSeenOrphan,
                   checkpointVars, poolVars, pblock, historyVars, db, sbc, batch>>

-----------------------------------------------------------------------------
(*                    SetBestChain and Reorganize                          *)

(* Mutants of Secondary: more blocks are postponed than should be. *)
Secondary_own(b) ==
    {x \in Branch[b] \ {Genesis} : nChainTrust[x] > nChainTrust[pindexBest]}

Secondary_equal(b) ==
    {x \in Branch[b] \ {Genesis} : nChainTrust[x] >= nChainTrust[pindexBest]}

(* Blocks of the branch that SetBestChain leaves for after the             *)
(* reorganisation: their parents alone already have the most trust.        *)
Secondary(b) ==
    {x \in Branch[b] \ {Genesis} : nChainTrust[hashPrevBlock[x]] > nChainTrust[pindexBest]}

(* The block the reorganisation ends in: the last one not left for later. *)
Intermediate(b) ==
    CHOOSE x \in Branch[b] \ Secondary(b) :
        x = b \/ \E y \in Secondary(b) : hashPrevBlock[y] = x

(* Mutant: the trust of the parent is recorded. *)
InvalidChainFound_parent(b) ==
    nBestInvalidTrust' = Max(nBestInvalidTrust, nChainTrust[hashPrevBlock[b]])

(* InvalidChainFound, which also writes the trust to disk at once. *)
InvalidChainFound(b) ==
    nBestInvalidTrust' = Max(nBestInvalidTrust, nChainTrust[b])

SetBestChain ==
    /\ pc = "setbest"
    /\ IF Parent(sbc.new) = pindexBest
       THEN /\ pc' = "inner"
            /\ sbc' = [sbc EXCEPT !.inter = pindexBest, !.tip = pindexBest,
                                  !.kind = "extend"]
            /\ UNCHANGED batch
       ELSE /\ pc' = "reorganize"
            /\ sbc' = [sbc EXCEPT !.inter = Intermediate(sbc.new),
                                  !.tip = pindexBest, !.kind = "reorganize"]
            /\ batch' = [txindex |-> db.txindex, next |-> db.next]
    /\ UNCHANGED <<indexVars, chainVars, orphanVars, checkpointVars, poolVars,
                   callVars, historyVars, db>>

(* Reorganize, "Disconnect shorter branch".  The code leaves coinbases and *)
(* coinstakes out of vResurrect; here they are passed over by Resurrect.   *)
DisconnectTip ==
    /\ pc = "reorganize"
    /\ sbc.tip \notin Branch[sbc.inter]
    /\ DisconnectBlockOK(batch.txindex, sbc.tip)
    /\ batch' = [txindex |-> DisconnectBlock(batch.txindex, sbc.tip),
                 next    |-> [batch.next EXCEPT ![Parent(sbc.tip)] = Nil]]
    /\ sbc' = [sbc EXCEPT !.tip = Parent(@)]
    /\ vResurrect' = vResurrect \o vtx[sbc.tip]
    /\ UNCHANGED <<indexVars, chainVars, orphanVars, checkpointVars, mempool,
                   vDelete, callVars, historyVars, db, pc>>

NextBlock(target) == ChildToward(sbc.tip, target)

(* Mutant: the record of the parent is not written. *)
Linked_alone(next, b) == [next EXCEPT ![b] = pnext[b]]

(* CBlock::ConnectBlock writes the records of the block and of its parent. *)
Linked(next, b) == [next EXCEPT ![b] = pnext[b], ![Parent(b)] = b]

(* Mutant: the result of ConnectBlock is not looked at. *)
ConnectTip_unchecked ==
    LET c == NextBlock(sbc.inter)
    IN /\ pc = "reorganize"
       /\ sbc.tip \in Branch[sbc.inter] \ {sbc.inter}
       /\ batch' = [txindex |-> ConnectBlock(batch.txindex, c),
                    next    |-> Linked(batch.next, c)]
       /\ sbc' = [sbc EXCEPT !.tip = c]
       /\ vDelete' = vDelete \o vtx[c]
       /\ UNCHANGED <<indexVars, chainVars, orphanVars, checkpointVars, mempool,
                      vResurrect, callVars, historyVars, db, pc>>

(* Reorganize, "Connect longer branch" *)
ConnectTip ==
    LET c == NextBlock(sbc.inter)
    IN /\ pc = "reorganize"
       /\ sbc.tip \in Branch[sbc.inter] \ {sbc.inter}
       /\ ConnectBlockOK(batch.txindex, c)
       /\ batch' = [txindex |-> ConnectBlock(batch.txindex, c),
                    next    |-> Linked(batch.next, c)]
       /\ sbc' = [sbc EXCEPT !.tip = c]
       /\ vDelete' = vDelete \o vtx[c]
       /\ UNCHANGED <<indexVars, chainVars, orphanVars, checkpointVars, mempool,
                      vResurrect, callVars, historyVars, db, pc>>

(* Mutant: the pointers of the disconnected branch stay. *)
Relinked_connect(b) ==
    IF \E x \in Branch[sbc.inter] \ Branch[pindexBest] : Parent(x) = b
    THEN ChildToward(b, sbc.inter)
    ELSE pnext[b]

(* The pnext pointers that Reorganize leaves in memory: "Disconnect shorter *)
(* branch", and then "Connect longer branch".                               *)
Relinked(b) ==
    IF \E x \in Branch[sbc.inter] \ Branch[pindexBest] : Parent(x) = b
    THEN ChildToward(b, sbc.inter)
    ELSE IF \E x \in Branch[pindexBest] \ Branch[sbc.inter] : Parent(x) = b
    THEN Nil
    ELSE pnext[b]

(* Reorganize, TxnCommit and then the pnext pointers in memory. *)
CommitReorganize ==
    /\ pc = "reorganize"
    /\ sbc.tip = sbc.inter
    /\ db' = [db EXCEPT !.txindex = batch.txindex, !.next = batch.next,
                        !.best = sbc.inter]
    /\ pnext' = [b \in Blocks |-> Relinked(b)]
    /\ batch' = NoBatch
    /\ pc' = "mempool"
    /\ UNCHANGED <<indexVars, pindexBest, nBestInvalidTrust, orphanVars,
                   checkpointVars, poolVars, callVars, historyVars, sbc>>

(***************************************************************************)
(* Reorganize, "Resurrect memory transactions that were in the             *)
(* disconnected branch", without a look at their inputs, and then "Delete  *)
(* redundant memory transactions that are in the connected branch".        *)
(***************************************************************************)
Resurrect ==
    /\ pc = "mempool"
    /\ vResurrect # <<>>
    /\ mempool' = resurrect(mempool, Head(vResurrect))
    /\ vResurrect' = Tail(vResurrect)
    /\ UNCHANGED <<indexVars, chainVars, orphanVars, checkpointVars, vDelete,
                   callVars, historyVars, db, pc, sbc, batch>>

Delete ==
    /\ pc = "mempool"
    /\ vResurrect = <<>>
    /\ vDelete # <<>>
    /\ mempool' = removeConflicts(removeAll(mempool, {Head(vDelete)}), Head(vDelete))
    /\ vDelete' = Tail(vDelete)
    /\ UNCHANGED <<indexVars, chainVars, orphanVars, checkpointVars, vResurrect,
                   callVars, historyVars, db, pc, sbc, batch>>

ReorganizeDone ==
    /\ pc = "mempool"
    /\ vResurrect = <<>>
    /\ vDelete = <<>>
    /\ pc' = "inner"
    /\ UNCHANGED <<indexVars, chainVars, orphanVars, checkpointVars, poolVars,
                   callVars, historyVars, db, sbc, batch>>

(* Reorganize fails: a block does not disconnect or connect, cannot be     *)
(* read, or the transaction does not commit.                               *)
ReorganizeBlocked ==
    \/ /\ sbc.tip \notin Branch[sbc.inter]
       /\ ~ DisconnectBlockOK(batch.txindex, sbc.tip)
    \/ /\ sbc.tip \in Branch[sbc.inter] \ {sbc.inter}
       /\ ~ ConnectBlockOK(batch.txindex, NextBlock(sbc.inter))

AbortReorganize ==
    /\ pc = "reorganize"
    /\ \/ ReorganizeBlocked /\ faults' = faults
       \/ faults < MaxFaults /\ faults' = faults + 1
    /\ InvalidChainFound(sbc.new)
    /\ batch' = NoBatch
    /\ vResurrect' = <<>>
    /\ vDelete' = <<>>
    /\ pc' = "failed"
    /\ UNCHANGED <<indexVars, pnext, pindexBest, orphanVars, checkpointVars,
                   mempool, callVars, torn, restarts, db, sbc>>

(* SetBestChainInner: one block, in a database transaction of its own.  The *)
(* mempool loses the block's transactions but not those it conflicts with.  *)
SetBestChainInner ==
    LET c == NextBlock(sbc.new)
    IN /\ pc = "inner"
       /\ sbc.tip # sbc.new
       /\ ConnectBlockOK(db.txindex, c)
       /\ db' = [db EXCEPT !.txindex = ConnectBlock(@, c), !.next = Linked(@, c),
                           !.best = c]
       /\ pnext' = [pnext EXCEPT ![sbc.tip] = c]
       /\ mempool' = removeAll(mempool, TxsOf(c))
       /\ sbc' = [sbc EXCEPT !.tip = c]
       /\ UNCHANGED <<indexVars, pindexBest, nBestInvalidTrust, orphanVars,
                      checkpointVars, vResurrect, vDelete, callVars, historyVars,
                      pc, batch>>

(* Mutant: the best block is set although the one block did not connect. *)
SetBestChainInnerFails_set ==
    /\ pc = "inner"
    /\ sbc.tip # sbc.new
    /\ ~ ConnectBlockOK(db.txindex, NextBlock(sbc.new))
    /\ InvalidChainFound(NextBlock(sbc.new))
    /\ pindexBest' = sbc.new
    /\ pc' = "succeeded"
    /\ UNCHANGED <<indexVars, pnext, orphanVars, checkpointVars, poolVars, callVars,
                   historyVars, db, sbc, batch>>

(***************************************************************************)
(* The block does not connect, or the disk fails.  A chain that was only   *)
(* to be extended stays as it was.  After a reorganisation the blocks not  *)
(* yet connected are given up, and yet the last of them becomes the best.  *)
(***************************************************************************)
SetBestChainInnerFails ==
    LET c == NextBlock(sbc.new)
    IN /\ pc = "inner"
       /\ sbc.tip # sbc.new
       /\ \/ /\ ~ ConnectBlockOK(db.txindex, c)
             /\ InvalidChainFound(c)
             /\ faults' = faults
          \/ /\ faults < MaxFaults
             /\ faults' = faults + 1
             /\ InvalidChainFound(c) \/ UNCHANGED nBestInvalidTrust
       /\ IF sbc.kind = "reorganize"
          THEN pindexBest' = sbc.new /\ torn' = torn \cup {sbc.new} /\ pc' = "succeeded"
          ELSE pc' = "failed" /\ UNCHANGED <<pindexBest, torn>>
       /\ UNCHANGED <<indexVars, pnext, orphanVars, checkpointVars, poolVars,
                      callVars, restarts, db, sbc, batch>>

(* SetBestChain, "New best block" *)
NewBestBlock ==
    /\ pc = "inner"
    /\ sbc.tip = sbc.new
    /\ pindexBest' = sbc.new
    /\ pc' = "succeeded"
    /\ UNCHANGED <<indexVars, pnext, nBestInvalidTrust, orphanVars, checkpointVars,
                   poolVars, callVars, historyVars, db, sbc, batch>>

-----------------------------------------------------------------------------
(*              Callers of SetBestChain, and the checkpoints               *)

(* AddToBlockIndex, and with it AcceptBlock, fails when SetBestChain does. *)
AddToBlockIndexReturns ==
    /\ sbc.caller = "AddToBlockIndex"
    /\ \/ /\ pc = "succeeded"
          /\ pc' = "accepted"
          /\ sbc' = NoCall
          /\ UNCHANGED <<orphanVars, callVars>>
       \/ /\ pc = "failed"
          /\ AcceptBlockReturns(FALSE)
    /\ UNCHANGED <<indexVars, chainVars, checkpointVars, poolVars, historyVars,
                   db, batch>>

(***************************************************************************)
(* AcceptPendingSyncCheckpoint, called at the end of AcceptBlock: there is *)
(* nothing to do yet, or the pending checkpoint is dropped, or it is to be *)
(* enforced.                                                               *)
(***************************************************************************)
PendingIndexed == hashPendingCheckpoint # Nil /\ hashPendingCheckpoint \in mapBlockIndex

(* Mutant: AcceptBlock returns without the call. *)
NoPendingSyncCheckpoint_skipped ==
    /\ pc = "accepted"
    /\ AcceptBlockReturns(TRUE)
    /\ UNCHANGED <<indexVars, chainVars, checkpointVars, poolVars, historyVars,
                   db, batch>>

NoPendingSyncCheckpoint ==
    /\ pc = "accepted"
    /\ ~ PendingIndexed
    /\ AcceptBlockReturns(TRUE)
    /\ UNCHANGED <<indexVars, chainVars, checkpointVars, poolVars, historyVars,
                   db, batch>>

(* Mutant: a checkpoint that is of no use stays pending. *)
DropPendingSyncCheckpoint_kept ==
    /\ pc = "accepted"
    /\ PendingIndexed
    /\ ~ ValidateSyncCheckpoint(hashPendingCheckpoint)
    /\ AcceptBlockReturns(TRUE)
    /\ UNCHANGED <<indexVars, chainVars, checkpointVars, poolVars, historyVars,
                   db, batch>>

DropPendingSyncCheckpoint ==
    /\ pc = "accepted"
    /\ PendingIndexed
    /\ ~ ValidateSyncCheckpoint(hashPendingCheckpoint)
    /\ hashPendingCheckpoint' = Nil
    /\ hashInvalidCheckpoint' = IF ConflictsWithSyncCheckpoint(hashPendingCheckpoint)
                                THEN hashPendingCheckpoint
                                ELSE hashInvalidCheckpoint
    /\ AcceptBlockReturns(TRUE)
    /\ UNCHANGED <<indexVars, chainVars, hashSyncCheckpoint, poolVars, historyVars,
                   db, batch>>

(* Make block c the checkpoint, once it is on the main chain. *)
EnforceSyncCheckpoint(caller, c) ==
    /\ ValidateSyncCheckpoint(c)
    /\ pc' = IF IsInMainChain(c) THEN "writesync" ELSE "setbest"
    /\ sbc' = [NoCall EXCEPT !.caller = caller, !.new = c]

AcceptPendingSyncCheckpoint ==
    /\ pc = "accepted"
    /\ PendingIndexed
    /\ EnforceSyncCheckpoint("AcceptPendingSyncCheckpoint", hashPendingCheckpoint)
    /\ UNCHANGED <<indexVars, chainVars, orphanVars, checkpointVars, poolVars,
                   callVars, historyVars, db, batch>>

(* Mutant: a checkpoint that is not indexed is not kept as pending. *)
ProcessSyncCheckpoint_eager(c) ==
    /\ pc = "idle"
    /\ EnforceSyncCheckpoint("ProcessSyncCheckpoint", c)
    /\ UNCHANGED <<indexVars, chainVars, orphanVars, checkpointVars, poolVars,
                   callVars, historyVars, db, batch>>

(* CSyncCheckpoint::ProcessSyncCheckpoint, from the checkpoint message. *)
ProcessSyncCheckpoint(c) ==
    /\ pc = "idle"
    /\ \/ /\ c \notin mapBlockIndex
          /\ hashPendingCheckpoint' = c
          /\ UNCHANGED <<hashInvalidCheckpoint, pc, sbc>>
       \/ /\ c \in mapBlockIndex
          /\ ConflictsWithSyncCheckpoint(c)
          /\ hashInvalidCheckpoint' = c
          /\ UNCHANGED <<hashPendingCheckpoint, pc, sbc>>
       \/ /\ c \in mapBlockIndex
          /\ EnforceSyncCheckpoint("ProcessSyncCheckpoint", c)
          /\ UNCHANGED <<hashPendingCheckpoint, hashInvalidCheckpoint>>
    /\ UNCHANGED <<indexVars, chainVars, orphanVars, hashSyncCheckpoint, poolVars,
                   callVars, historyVars, db, batch>>

CheckpointCallers == {"AcceptPendingSyncCheckpoint", "ProcessSyncCheckpoint"}

(* Back to AcceptBlock, which has succeeded, or to the message loop. *)
CheckpointReturns ==
    IF sbc.caller = "AcceptPendingSyncCheckpoint"
    THEN AcceptBlockReturns(TRUE)
    ELSE /\ pc' = "idle"
         /\ sbc' = NoCall
         /\ UNCHANGED <<orphanVars, callVars>>

SyncCheckpointOnMainChain ==
    /\ pc = "succeeded"
    /\ sbc.caller \in CheckpointCallers
    /\ pc' = "writesync"
    /\ UNCHANGED <<indexVars, chainVars, orphanVars, checkpointVars, poolVars,
                   callVars, historyVars, db, sbc, batch>>

(* The chain of the checkpoint does not connect, or its block cannot be    *)
(* read: a pending checkpoint stays pending.                               *)
SyncCheckpointFails ==
    /\ sbc.caller \in CheckpointCallers
    /\ \/ /\ pc = "failed"
          /\ hashInvalidCheckpoint' = sbc.new
          /\ faults' = faults
       \/ /\ pc = "setbest"
          /\ faults < MaxFaults
          /\ faults' = faults + 1
          /\ UNCHANGED hashInvalidCheckpoint
    /\ CheckpointReturns
    /\ UNCHANGED <<indexVars, chainVars, hashSyncCheckpoint, hashPendingCheckpoint,
                   poolVars, torn, restarts, db, batch>>

(* Checkpoints::WriteSyncCheckpoint *)
WriteSyncCheckpoint ==
    /\ pc = "writesync"
    /\ \/ /\ db' = [db EXCEPT !.sync = sbc.new]
          /\ hashSyncCheckpoint' = sbc.new
          /\ hashPendingCheckpoint' = Nil
          /\ faults' = faults
       \/ /\ faults < MaxFaults
          /\ faults' = faults + 1
          /\ UNCHANGED <<db, hashSyncCheckpoint, hashPendingCheckpoint>>
    /\ CheckpointReturns
    /\ UNCHANGED <<indexVars, chainVars, hashInvalidCheckpoint, poolVars, torn,
                   restarts, batch>>

-----------------------------------------------------------------------------
(*                 Loose transactions, and the restart                     *)

(* AcceptToMemoryPool, for a transaction from a peer or the wallet. *)
AcceptToMemoryPool(t) ==
    /\ pc = "idle"
    /\ AcceptOK(mempool, db.txindex, pindexBest, t)
    /\ mempool' = addUnchecked(mempool, t)
    /\ UNCHANGED <<indexVars, chainVars, orphanVars, checkpointVars, vResurrect,
                   vDelete, callVars, historyVars, db, pc, sbc, batch>>

(***************************************************************************)
(* The process stops, between any two steps, and starts again: memory is   *)
(* rebuilt from the database by CTxDB::LoadBlockIndex.  Where CheckBlock   *)
(* refuses blocks of the best chain (their time is ahead of the clock) the *)
(* chain moves back to the parent of the lowest one, x.                    *)
(***************************************************************************)
Restart ==
    /\ restarts < MaxRestarts
    /\ restarts' = restarts + 1
    /\ mapBlockIndex' = db.index
    /\ setStakeSeen' = UNION {StakeOf(b) : b \in db.index}
    /\ pnext' = db.next
    /\ pindexBest' = db.best
    /\ mapOrphanBlocks' = {}
    /\ mapOrphanBlocksByPrev' = {}
    /\ setStakeSeenOrphan' = {}
    /\ hashSyncCheckpoint' = db.sync
    /\ hashPendingCheckpoint' = Nil
    /\ hashInvalidCheckpoint' = Nil
    /\ mempool' = EmptyPool
    /\ vResurrect' = <<>>
    /\ vDelete' = <<>>
    /\ batch' = NoBatch
    /\ pblock' = Nil
    /\ vWorkQueue' = <<>>
    /\ \/ pc' = "idle" /\ sbc' = NoCall
       \/ \E x \in Suspect \cap Connected(db.best) :
             /\ pc' = "setbest"
             /\ sbc' = [NoCall EXCEPT !.caller = "LoadBlockIndex",
                                      !.new = hashPrevBlock[x]]
    /\ UNCHANGED <<nBestInvalidTrust, torn, faults, db>>

LoadBlockIndexReturns ==
    /\ pc \in {"succeeded", "failed"}
    /\ sbc.caller = "LoadBlockIndex"
    /\ pc' = "idle"
    /\ sbc' = NoCall
    /\ UNCHANGED <<indexVars, chainVars, orphanVars, checkpointVars, poolVars,
                   callVars, historyVars, db, batch>>

-----------------------------------------------------------------------------
(* What peers and the user ask of an idle node. *)
Request ==
    \/ \E b \in Blocks \ {Genesis} : ProcessOrphanBlock(b) \/ ProcessBlock(b)
    \/ \E c \in SyncCheckpoints : ProcessSyncCheckpoint(c)
    \/ \E t \in Txs : AcceptToMemoryPool(t)

(* The handler that holds cs_main takes its next step. *)
Handler ==
    \/ AcceptBlock \/ RejectBlock
    \/ TryOrphan \/ NextParent
    \/ SetBestChain
    \/ DisconnectTip \/ ConnectTip \/ CommitReorganize \/ AbortReorganize
    \/ Resurrect \/ Delete \/ ReorganizeDone
    \/ SetBestChainInner \/ SetBestChainInnerFails \/ NewBestBlock
    \/ AddToBlockIndexReturns
    \/ NoPendingSyncCheckpoint \/ DropPendingSyncCheckpoint
    \/ AcceptPendingSyncCheckpoint
    \/ SyncCheckpointOnMainChain \/ SyncCheckpointFails \/ WriteSyncCheckpoint
    \/ LoadBlockIndexReturns

Next == Request \/ Handler \/ Restart

Spec == Init /\ [][Next]_vars

(***************************************************************************)
(* A handler runs to its end, and a block that some peer has is delivered  *)
(* again and again: a node that lacks it is told of it by each inv and by  *)
(* the answers to its getblocks.                                           *)
(***************************************************************************)
FairSpec ==
    /\ Spec
    /\ WF_vars(Handler)
    /\ \A b \in Blocks \ {Genesis} : SF_vars(ProcessBlock(b))
    /\ \A b \in Blocks \ {Genesis} : WF_vars(ProcessOrphanBlock(b))

-----------------------------------------------------------------------------
(*                             Properties                                  *)

SbcType == [caller : Callers \cup {"none"}, new : Blocks \cup {Nil},
            inter : Blocks \cup {Nil}, tip : Blocks \cup {Nil},
            kind : {"extend", "reorganize", "none"}]

ChainTypeOK ==
    /\ mapBlockIndex \subseteq Blocks
    /\ pnext \in [Blocks -> Blocks \cup {Nil}]
    /\ pindexBest \in Blocks
    /\ setStakeSeen \subseteq {proofOfStake[b] : b \in Blocks}
    /\ nBestInvalidTrust \in Nat

OrphanTypeOK ==
    /\ mapOrphanBlocks \subseteq Blocks \ {Genesis}
    /\ mapOrphanBlocksByPrev \subseteq Blocks \X (Blocks \ {Genesis})
    /\ setStakeSeenOrphan \subseteq {proofOfStake[b] : b \in Blocks}

CheckpointTypeOK ==
    /\ hashSyncCheckpoint \in Blocks
    /\ hashPendingCheckpoint \in Blocks \cup {Nil}
    /\ hashInvalidCheckpoint \in Blocks \cup {Nil}

PoolTypeOK ==
    /\ mempool.mapTx \subseteq Txs
    /\ vResurrect \in Seq(Txs)
    /\ vDelete \in Seq(Txs)

DBTypeOK ==
    /\ db \in [index : SUBSET Blocks, next : [Blocks -> Blocks \cup {Nil}],
              best : Blocks, txindex : {db.txindex}, sync : Blocks]
    /\ IsTxIndex(db.txindex)

CallTypeOK ==
    /\ pc \in PCs
    /\ pblock \in Blocks \cup {Nil}
    /\ vWorkQueue \in Seq(Blocks)
    /\ sbc \in SbcType

HistoryTypeOK ==
    /\ torn \subseteq Blocks
    /\ restarts \in 0..MaxRestarts
    /\ faults \in 0..MaxFaults

(* The types of the variables; the index on disk is a transaction index. *)
TypeOK ==
    /\ ChainTypeOK
    /\ OrphanTypeOK
    /\ CheckpointTypeOK
    /\ PoolTypeOK
    /\ DBTypeOK
    /\ CallTypeOK
    /\ HistoryTypeOK

(* SetBestChain: between handlers, the chain that memory calls the best is *)
(* the one the database ends in, unless a postponed block did not connect. *)
BestIsDurable == pc = "idle" /\ torn = {} => pindexBest = db.best

(* ConnectBlock, DisconnectBlock: whatever reorganisations, aborts and     *)
(* restarts came before, the transaction index is the one that connecting  *)
(* the blocks of the main chain in order would build; so is the index that *)
(* a running reorganisation has in its batch.                              *)
LedgerMatchesBest ==
    torn = {} => /\ db.txindex = TxIndexOf(db.best)
                 /\ pc = "reorganize" => batch.txindex = TxIndexOf(sbc.tip)

(* Every block of the main chain on disk connects to its parent's ledger.  *)
MainChainValid == torn = {} => ValidBranch(db.best)

(* The pointers lead from the genesis block to block best and exist on no  *)
(* other block.                                                            *)
Links(next, best) ==
    \A b \in Blocks :
        next[b] = IF b \in Branch[best] \ {best} THEN ChildToward(b, best) ELSE Nil

(* Reorganize, SetBestChainInner: the pnext pointers, on disk at any time  *)
(* and in memory between handlers, are those of the best chain and of no   *)
(* other block, so that IsInMainChain is right.                            *)
NextPointers ==
    torn = {} => /\ Links(db.next, db.best)
                 /\ pc = "idle" => Links(pnext, pindexBest)

(* Every block in the index, in memory and on disk, has its parent there. *)
IndexClosed == ParentClosed(mapBlockIndex) /\ ParentClosed(db.index)

(* The best block and the sync-checkpoint, on disk and in memory, are      *)
(* always indexed: CheckSync and LoadBlockIndex rely on it.                *)
BestIndexed == /\ {pindexBest, hashSyncCheckpoint} \subseteq mapBlockIndex
               /\ {db.best, db.sync} \subseteq db.index

(* CTxMemPool: mapNextTx holds exactly the inputs of the pooled            *)
(* transactions, so no CInPoint outlives its transaction.                  *)
MempoolIndexed == PoolIndexed(mempool)

(* Reorganize, SetBestChainInner: between handlers no transaction is both  *)
(* pooled and in the transaction index.                                    *)
PoolDisjoint == pc = "idle" => mempool.mapTx \cap DOMAIN db.txindex = {}

(* ProcessBlock: between handlers the two maps of orphans hold the same    *)
(* blocks, and no proof of stake is remembered for an orphan that is gone. *)
OrphanMapsAgree ==
    pc = "idle" =>
      /\ mapOrphanBlocksByPrev = {<<hashPrevBlock[b], b>> : b \in mapOrphanBlocks}
      /\ setStakeSeenOrphan \subseteq UNION {StakeOf(b) : b \in mapOrphanBlocks}

(* With the strict policy the best chain always holds the sync-checkpoint. *)
(* Only a restart that moves the chain back may leave it for a block below *)
(* the checkpoint, never for another branch.                               *)
CheckpointRespected ==
    CheckpointsMode = "strict" /\ torn = {} =>
        \/ hashSyncCheckpoint \in Branch[pindexBest]
        \/ restarts > 0 /\ pindexBest \in Branch[hashSyncCheckpoint]

(* AcceptPendingSyncCheckpoint: once its block is indexed, a pending       *)
(* checkpoint does not stay pending, unless its chain is invalid or the    *)
(* disk failed.                                                            *)
PendingSettled ==
    pc = "idle" /\ PendingIndexed /\ faults = 0 /\ torn = {} =>
        ~ ValidBranch(hashPendingCheckpoint)

(* InvalidChainFound: a trust is recorded as that of an invalid chain only *)
(* if an indexed block with that trust ends a branch that is invalid.      *)
InvalidIsInvalid ==
    faults = 0 /\ torn = {} /\ nBestInvalidTrust > 0 =>
        \E b \in mapBlockIndex :
            nChainTrust[b] = nBestInvalidTrust /\ ~ ValidBranch(b)

(* SetBestChain: as long as the process neither restarts nor meets a disk  *)
(* error and no checkpoint moves the best chain back, no postponed block   *)
(* fails to connect.                                                       *)
PostponedBlocksConnect ==
    restarts = 0 /\ faults = 0 /\ SyncCheckpoints = {} /\ LastHardened = Genesis
        => torn = {}

(* SetBestChain, "errors now are not fatal, we still did a reorganisation  *)
(* to a new chain in a valid way": the chain a node calls the best is      *)
(* valid.                                                                  *)
BestChainValid == pc = "idle" => ValidBranch(pindexBest)

(* CreateNewBlock, "all transactions in the memory pool should connect to  *)
(* either transactions in the chain or other transactions in the memory    *)
(* pool".                                                                  *)
PoolConnects ==
    pc = "idle" =>
        \A t \in mempool.mapTx : InputsPresent(mempool, db.txindex, t)

(* ValidateSyncCheckpoint: a sync-checkpoint gives way only to one of its  *)
(* descendants.                                                            *)
SyncAdvances == [][db.sync \in Branch[db'.sync]]_vars

(* The main chain on disk never moves to less trust on account of a block  *)
(* that was received.                                                      *)
TrustGrows ==
    [][sbc.caller = "AddToBlockIndex" /\ torn = {} =>
          nChainTrust[db'.best] >= nChainTrust[db.best]]_vars

(* No handler runs for ever. *)
HandlerReturns == pc # "idle" ~> pc = "idle"

(* Every valid chain that the peers hold is adopted in the end, unless one *)
(* with as much trust is.                                                  *)
Converges ==
    <>[](\A b \in Blocks : ValidBranch(b) /\ Branch[b] \cap Unacceptable = {}
                             => nChainTrust[b] <= nChainTrust[pindexBest])
=============================================================================
