-------------------------- MODULE BlockChain_proofs -------------------------
(***************************************************************************)
(* Theorems about BlockChain, for every block tree, set of transactions,   *)
(* checkpoint policy and number of restarts and disk errors.               *)
(***************************************************************************)
EXTENDS BlockChain, TxIndex_proofs

USE DEF indexVars, chainVars, orphanVars, checkpointVars, poolVars, callVars,
        historyVars

-----------------------------------------------------------------------------
(*                 What the operators on indexes return                    *)

(* ConnectBlock returns an index. *)
LEMMA ConnectBlockType ==
  ASSUME NEW ti, IsTxIndex(ti), NEW b \in Blocks
  PROVE  IsTxIndex(ConnectBlock(ti, b))
<1>1. TxsOf(b) \subseteq Txs
  BY TxAssumption DEF TxsOf
<1>2. \A o : SpenderIn(b, o) \in Txs \cup {Nil}
  BY <1>1 DEF SpenderIn
<1> QED
  BY <1>1, <1>2, Zenon DEF IsTxIndex, ConnectBlock

(* DisconnectBlock returns an index. *)
LEMMA DisconnectBlockType ==
  ASSUME NEW ti, IsTxIndex(ti), NEW b \in Blocks
  PROVE  IsTxIndex(DisconnectBlock(ti, b))
BY Zenon DEF IsTxIndex, DisconnectBlock

(* The loop of SetBestChain over the postponed blocks ends. *)
LEMMA IntermediateFound ==
  ASSUME NEW b \in Blocks, pindexBest \in Blocks
  PROVE  \E x \in Branch[b] \ Secondary(b) :
            x = b \/ \E y \in Secondary(b) : hashPrevBlock[y] = x
<1> DEFINE S == Secondary(b)
<1>1. S \subseteq Branch[b] \ {Genesis}
  BY DEF Secondary
<1> SUFFICES ASSUME \A x \in Branch[b] \ S : x # b /\ \A y \in S : hashPrevBlock[y] # x
             PROVE  FALSE
  OBVIOUS
<1>2. b \in S
  BY BranchEnds
<1>3. ParentClosed(S)
  BY <1>1, BranchClosed DEF ParentClosed
<1>4. S \in SUBSET Blocks
  BY <1>1, BranchEnds
<1> HIDE DEF S
<1> QED
  BY <1>1, <1>2, <1>3, <1>4, BranchEnds, BranchLeast

(* It ends in a block of the branch. *)
LEMMA IntermediateExists ==
  ASSUME NEW b \in Blocks, pindexBest \in Blocks
  PROVE  Intermediate(b) \in Branch[b]
BY IntermediateFound DEF Intermediate

-----------------------------------------------------------------------------
(*                       The running call                                  *)

(* AcceptBlock is on the stack. *)
Accepting ==
    \/ pc \in {"accept", "accepted"}
    \/ sbc.caller \in {"AddToBlockIndex", "AcceptPendingSyncCheckpoint"}

(* SetBestChain or WriteSyncCheckpoint is on the stack, or has just returned. *)
Calling == pc \in {"setbest", "reorganize", "mempool", "inner", "succeeded",
                   "failed", "writesync"}

(* What the handlers know at each step of the blocks they work on. *)
CallInv ==
    /\ ~ Calling => sbc = NoCall
    /\ Calling => sbc.caller \in Callers /\ sbc.new \in mapBlockIndex
    /\ Accepting => pblock \in Blocks \ {Genesis} /\ hashPrevBlock[pblock] \in mapBlockIndex
    /\ Accepting /\ pc # "accept" => pblock \in mapBlockIndex
    /\ pc = "writesync" => sbc.caller \in CheckpointCallers
    /\ sbc.caller \in CheckpointCallers => hashSyncCheckpoint \in Branch[sbc.new]
    /\ pc \in {"reorganize", "mempool", "inner"} =>
         sbc.inter \in Branch[sbc.new] /\ sbc.tip \in Blocks
    /\ pc = "mempool" => sbc.tip = sbc.inter
    /\ pc = "inner" => sbc.tip \in Branch[sbc.new]

(* The batch of a reorganisation is well typed. *)
BatchInv ==
    pc = "reorganize" => /\ batch.next \in [Blocks -> Blocks \cup {Nil}]
                         /\ IsTxIndex(batch.txindex)

(* ProcessBlock: an orphan is registered under its parent.  The entry may  *)
(* outlive it only while the parent is the one the work queue is at.  The  *)
(* block in AcceptBlock is the one ProcessBlock was called with, or one of *)
(* the orphans of that parent.                                             *)
QueueInv ==
    /\ \A b \in mapOrphanBlocks : <<hashPrevBlock[b], b>> \in mapOrphanBlocksByPrev
    /\ \A e \in mapOrphanBlocksByPrev :
          /\ e[1] = hashPrevBlock[e[2]]
          /\ e[2] \notin mapOrphanBlocks =>
               vWorkQueue # <<>> /\ e[1] = Head(vWorkQueue)
    /\ vWorkQueue \in Seq(mapBlockIndex)
    /\ pc = "idle" \/ sbc.caller \in {"ProcessSyncCheckpoint", "LoadBlockIndex"} =>
         vWorkQueue = <<>>
    /\ pc = "work" => vWorkQueue # <<>>
    /\ Accepting =>
         IF vWorkQueue = <<>>
         THEN pblock \notin mapOrphanBlocks
         ELSE pblock \in mapOrphanBlocks /\ hashPrevBlock[pblock] = Head(vWorkQueue)

(* The index in memory is the one on disk, and everything that points into *)
(* it finds its block there.                                               *)
IndexInv ==
    /\ db.index = mapBlockIndex
    /\ db.sync = hashSyncCheckpoint
    /\ ParentClosed(mapBlockIndex)
    /\ {pindexBest, db.best, hashSyncCheckpoint} \subseteq mapBlockIndex

IInv == TypeOK /\ CallInv /\ BatchInv /\ QueueInv /\ IndexInv

(* The first start satisfies the invariant. *)
LEMMA InitIInv == Init => IInv
<1> SUFFICES ASSUME Init PROVE IInv
  OBVIOUS
<1> USE TreeAssumption, TxAssumption, NodeAssumption
<1>1. IsTxIndex(db.txindex)
  BY DEF Init, IsTxIndex
<1>2. TypeOK
  <2>1. ChainTypeOK /\ OrphanTypeOK /\ CheckpointTypeOK
    BY DEF Init, ChainTypeOK, OrphanTypeOK, CheckpointTypeOK
  <2>2. PoolTypeOK
    BY DEF Init, PoolTypeOK, EmptyPool
  <2>3. DBTypeOK
    BY <1>1 DEF Init, DBTypeOK
  <2>4. CallTypeOK
    BY DEF Init, CallTypeOK, NoCall, PCs, SbcType
  <2>5. HistoryTypeOK
    BY DEF Init, HistoryTypeOK
  <2> QED
    BY <2>1, <2>2, <2>3, <2>4, <2>5 DEF TypeOK
<1>3. CallInv
  BY DEF Init, CallInv, Calling, Accepting, NoCall, CheckpointCallers, Callers
<1>4. IndexInv
  BY DEF Init, IndexInv, ParentClosed
<1>5. BatchInv /\ QueueInv
  BY DEF Init, BatchInv, QueueInv, Accepting, NoCall
<1> QED
  BY <1>2, <1>3, <1>4, <1>5 DEF IInv

-----------------------------------------------------------------------------
(*                  Which actions change which variables                   *)

(* The actions that let AcceptBlock return to ProcessBlock. *)
Returning ==
    \/ RejectBlock \/ AddToBlockIndexReturns \/ NoPendingSyncCheckpoint
    \/ DropPendingSyncCheckpoint \/ SyncCheckpointFails \/ WriteSyncCheckpoint

(* What a restart rebuilds. *)
LEMMA RestartEffect ==
  ASSUME Restart
  PROVE  /\ restarts < MaxRestarts /\ restarts' = restarts + 1
         /\ mapBlockIndex' = db.index
         /\ pnext' = db.next /\ pindexBest' = db.best
         /\ hashSyncCheckpoint' = db.sync
         /\ hashPendingCheckpoint' = Nil /\ hashInvalidCheckpoint' = Nil
         /\ mapOrphanBlocks' = {} /\ mapOrphanBlocksByPrev' = {}
         /\ setStakeSeenOrphan' = {}
         /\ mempool' = EmptyPool /\ vResurrect' = <<>> /\ vDelete' = <<>>
         /\ batch' = NoBatch /\ pblock' = Nil /\ vWorkQueue' = <<>>
         /\ nBestInvalidTrust' = nBestInvalidTrust
         /\ torn' = torn /\ faults' = faults /\ db' = db
BY Zenon DEF Restart

(* The call of SetBestChain, if any, that a restart makes. *)
LEMMA RestartCalls ==
  ASSUME Restart
  PROVE  \/ pc' = "idle" /\ sbc' = NoCall
         \/ \E x \in Connected(db.best) :
              /\ pc' = "setbest"
              /\ sbc' = [NoCall EXCEPT !.caller = "LoadBlockIndex",
                                       !.new = hashPrevBlock[x]]
BY Zenon DEF Restart

(* Each group of variables is changed only by the actions named here. *)
LEMMA Frames ==
  ASSUME [Next]_vars
  PROVE  /\ UNCHANGED indexVars \/ AcceptBlock \/ Restart
         /\ \/ UNCHANGED chainVars
            \/ CommitReorganize \/ AbortReorganize \/ SetBestChainInner
            \/ SetBestChainInnerFails \/ NewBestBlock \/ Restart
         /\ \/ UNCHANGED orphanVars
            \/ \E b \in Blocks \ {Genesis} : ProcessOrphanBlock(b)
            \/ NextParent \/ Returning \/ Restart
         /\ \/ UNCHANGED checkpointVars
            \/ \E c \in SyncCheckpoints : ProcessSyncCheckpoint(c)
            \/ DropPendingSyncCheckpoint \/ SyncCheckpointFails
            \/ WriteSyncCheckpoint \/ Restart
         /\ \/ UNCHANGED poolVars
            \/ DisconnectTip \/ ConnectTip \/ AbortReorganize
            \/ Resurrect \/ Delete \/ SetBestChainInner
            \/ \E t \in Txs : AcceptToMemoryPool(t)
            \/ Restart
         /\ \/ UNCHANGED db
            \/ AcceptBlock \/ CommitReorganize \/ SetBestChainInner
            \/ WriteSyncCheckpoint
         /\ \/ UNCHANGED historyVars
            \/ RejectBlock \/ AbortReorganize \/ SetBestChainInnerFails
            \/ SyncCheckpointFails \/ WriteSyncCheckpoint \/ Restart
<1> USE DEF Next, Request, Handler, vars, ProcessOrphanBlock, ProcessBlock,
            ProcessSyncCheckpoint, AcceptToMemoryPool, AcceptBlock, RejectBlock,
            TryOrphan, NextParent, SetBestChain, DisconnectTip, ConnectTip,
            CommitReorganize, AbortReorganize, Resurrect, Delete, ReorganizeDone,
            SetBestChainInner, SetBestChainInnerFails, NewBestBlock,
            AddToBlockIndexReturns, NoPendingSyncCheckpoint,
            DropPendingSyncCheckpoint, AcceptPendingSyncCheckpoint,
            SyncCheckpointOnMainChain, SyncCheckpointFails, WriteSyncCheckpoint,
            LoadBlockIndexReturns
<1>1. UNCHANGED indexVars \/ AcceptBlock \/ Restart
  BY Zenon
<1>2. \/ UNCHANGED chainVars
      \/ CommitReorganize \/ AbortReorganize \/ SetBestChainInner
      \/ SetBestChainInnerFails \/ NewBestBlock \/ Restart
  BY Zenon
<1>3. \/ UNCHANGED orphanVars
      \/ \E b \in Blocks \ {Genesis} : ProcessOrphanBlock(b)
      \/ NextParent \/ Returning \/ Restart
  BY Zenon DEF Returning
<1>4. \/ UNCHANGED checkpointVars
      \/ \E c \in SyncCheckpoints : ProcessSyncCheckpoint(c)
      \/ DropPendingSyncCheckpoint \/ SyncCheckpointFails
      \/ WriteSyncCheckpoint \/ Restart
  BY Zenon
<1>5. \/ UNCHANGED poolVars
      \/ DisconnectTip \/ ConnectTip \/ AbortReorganize
      \/ Resurrect \/ Delete \/ SetBestChainInner
      \/ \E t \in Txs : AcceptToMemoryPool(t)
      \/ Restart
  BY Zenon
<1>6. \/ UNCHANGED db
      \/ AcceptBlock \/ CommitReorganize \/ SetBestChainInner
      \/ WriteSyncCheckpoint
  BY Zenon DEF Restart
<1>7. \/ UNCHANGED historyVars
      \/ RejectBlock \/ AbortReorganize \/ SetBestChainInnerFails
      \/ SyncCheckpointFails \/ WriteSyncCheckpoint \/ Restart
  BY Zenon
<1> QED
  BY ONLY <1>1, <1>2, <1>3, <1>4, <1>5, <1>6, <1>7, Zenon

-----------------------------------------------------------------------------
(*                         Types are preserved                             *)

(* The next block to connect is one of the branch that SetBestChain adopts. *)
LEMMA NextBlockType ==
  ASSUME IInv
  PROVE  /\ pc = "reorganize" /\ sbc.tip \in Branch[sbc.inter] \ {sbc.inter} =>
              /\ NextBlock(sbc.inter) \in Branch[sbc.inter] \ {Genesis}
              /\ hashPrevBlock[NextBlock(sbc.inter)] = sbc.tip
         /\ pc = "inner" /\ sbc.tip # sbc.new =>
              /\ NextBlock(sbc.new) \in Branch[sbc.new] \ {Genesis}
              /\ hashPrevBlock[NextBlock(sbc.new)] = sbc.tip
         /\ Calling => sbc.new \in Blocks /\ Branch[sbc.new] \subseteq Blocks
         /\ pc \in {"reorganize", "mempool", "inner"} =>
              /\ sbc.inter \in Blocks
              /\ Branch[sbc.inter] \subseteq Branch[sbc.new]
<1>1. Calling => sbc.new \in Blocks /\ Branch[sbc.new] \subseteq Blocks
  BY BranchEnds DEF IInv, TypeOK, ChainTypeOK, CallInv
<1>2. pc \in {"reorganize", "mempool", "inner"} =>
        sbc.inter \in Blocks /\ Branch[sbc.inter] \subseteq Branch[sbc.new]
  BY <1>1, BranchTransitive DEF IInv, CallInv, Calling
<1>3. pc = "reorganize" /\ sbc.tip \in Branch[sbc.inter] \ {sbc.inter} =>
        /\ NextBlock(sbc.inter) \in Branch[sbc.inter] \ {Genesis}
        /\ hashPrevBlock[NextBlock(sbc.inter)] = sbc.tip
  BY <1>2, ChildTowardExists DEF NextBlock
<1>4. pc = "inner" /\ sbc.tip # sbc.new =>
        /\ NextBlock(sbc.new) \in Branch[sbc.new] \ {Genesis}
        /\ hashPrevBlock[NextBlock(sbc.new)] = sbc.tip
  BY <1>1, ChildTowardExists DEF NextBlock, IInv, CallInv, Calling
<1> QED
  BY <1>1, <1>2, <1>3, <1>4

(* Every step leaves the index and the main chain in memory well typed. *)
LEMMA ChainTypeStep ==
  ASSUME IInv, [Next]_vars
  PROVE  ChainTypeOK'
<1> USE DEF IInv, TypeOK
<1>0. db.index \subseteq Blocks
  BY DEF DBTypeOK
<1>1. mapBlockIndex' \subseteq Blocks
  <2>1. CASE AcceptBlock
    BY <2>1 DEF AcceptBlock, ChainTypeOK, CallInv, Accepting
  <2>2. CASE Restart
    BY <2>2, <1>0, Zenon DEF Restart
  <2> QED
    BY <2>1, <2>2, Frames DEF ChainTypeOK
<1>2. setStakeSeen' \subseteq {proofOfStake[b] : b \in Blocks}
  <2>1. CASE AcceptBlock
    BY <2>1 DEF AcceptBlock, StakeOf, CallInv, Accepting, ChainTypeOK
  <2>2. CASE Restart
    <3>1. \A b \in db.index : StakeOf(b) \subseteq {proofOfStake[x] : x \in Blocks}
      BY <1>0, Zenon DEF StakeOf
    <3> QED
      BY ONLY <2>2, <3>1, Zenon DEF Restart
  <2> QED
    BY <2>1, <2>2, Frames DEF ChainTypeOK
<1>3. pnext' \in [Blocks -> Blocks \cup {Nil}]
  <2>1. CASE CommitReorganize
    <3>1. Branch[sbc.inter] \subseteq Blocks
      BY <2>1, NextBlockType, BranchEnds DEF CommitReorganize
    <3>2. \A b \in Blocks : (\E x \in Branch[sbc.inter] \ Branch[pindexBest] : Parent(x) = b)
                                => ChildToward(b, sbc.inter) \in Blocks
      BY <3>1 DEF ChildToward
    <3> QED
      BY <2>1, <3>2 DEF CommitReorganize, Relinked, ChainTypeOK
  <2>2. CASE SetBestChainInner
    BY <2>2, NextBlockType, BranchEnds, Zenon
       DEF SetBestChainInner, ChainTypeOK, Calling
  <2>3. CASE Restart
    BY <2>3, Zenon DEF Restart, DBTypeOK
  <2> QED
    BY <2>1, <2>2, <2>3, Frames
       DEF ChainTypeOK, AbortReorganize, SetBestChainInnerFails, NewBestBlock
<1>4. pindexBest' \in Blocks
  BY NextBlockType, Frames, Zenon
     DEF ChainTypeOK, CommitReorganize, AbortReorganize, SetBestChainInner,
         SetBestChainInnerFails, NewBestBlock, Restart, DBTypeOK, Calling
<1>5. nBestInvalidTrust' \in Nat
  <2>1. Calling => nChainTrust[sbc.new] \in Nat
    BY NextBlockType, TrustAssumption
  <2>2. pc = "inner" /\ sbc.tip # sbc.new => nChainTrust[NextBlock(sbc.new)] \in Nat
    BY NextBlockType, BranchEnds, TrustAssumption DEF Calling
  <2> QED
    BY <2>1, <2>2, Frames, Zenon
       DEF ChainTypeOK, CommitReorganize, AbortReorganize, SetBestChainInner,
           SetBestChainInnerFails, NewBestBlock, Restart, InvalidChainFound, Max,
           Calling
<1> QED
  BY <1>1, <1>2, <1>3, <1>4, <1>5 DEF ChainTypeOK

(* Every step leaves the maps of orphans well typed. *)
LEMMA OrphanTypeStep ==
  ASSUME IInv, [Next]_vars
  PROVE  OrphanTypeOK'
<1> USE DEF IInv, TypeOK, OrphanTypeOK
<1>1. CASE \E b \in Blocks \ {Genesis} : ProcessOrphanBlock(b)
  BY <1>1, TreeAssumption DEF ProcessOrphanBlock, StakeOf
<1>2. CASE NextParent
  BY <1>2 DEF NextParent
<1>3. CASE Returning
  BY <1>3 DEF Returning, RejectBlock, AddToBlockIndexReturns,
              NoPendingSyncCheckpoint, DropPendingSyncCheckpoint,
              SyncCheckpointFails, WriteSyncCheckpoint, AcceptBlockReturns,
              CheckpointReturns
<1>4. CASE Restart
  BY <1>4, Zenon DEF Restart
<1> QED
  BY <1>1, <1>2, <1>3, <1>4, Frames

(* Every step leaves the checkpoints well typed. *)
LEMMA CheckpointTypeStep ==
  ASSUME IInv, [Next]_vars
  PROVE  CheckpointTypeOK'
BY Frames, NextBlockType, NodeAssumption, Zenon
   DEF IInv, TypeOK, CheckpointTypeOK, DBTypeOK, ProcessSyncCheckpoint,
       EnforceSyncCheckpoint, DropPendingSyncCheckpoint, SyncCheckpointFails,
       WriteSyncCheckpoint, Restart, Calling

(* Every step leaves the memory pool well typed. *)
LEMMA PoolTypeStep ==
  ASSUME IInv, [Next]_vars
  PROVE  PoolTypeOK'
<1> USE DEF IInv, TypeOK, PoolTypeOK
<1>1. CASE DisconnectTip
  BY <1>1, TxAssumption DEF DisconnectTip, CallInv
<1>2. CASE ConnectTip
  BY <1>2, NextBlockType, BranchEnds, TxAssumption DEF ConnectTip, CallInv
<1>3. CASE AbortReorganize
  BY <1>3 DEF AbortReorganize
<1>4. CASE Resurrect
  BY <1>4 DEF Resurrect, resurrect, addUnchecked
<1>5. CASE Delete
  BY <1>5 DEF Delete, removeConflicts, removeAll
<1>6. CASE SetBestChainInner
  BY <1>6 DEF SetBestChainInner, removeAll
<1>7. CASE \E t \in Txs : AcceptToMemoryPool(t)
  BY <1>7 DEF AcceptToMemoryPool, addUnchecked
<1>8. CASE Restart
  BY <1>8, RestartEffect DEF EmptyPool
<1> QED
  BY <1>1, <1>2, <1>3, <1>4, <1>5, <1>6, <1>7, <1>8, Frames

(* Every step leaves the database well typed. *)
LEMMA DBTypeStep ==
  ASSUME IInv, [Next]_vars
  PROVE  DBTypeOK'
<1> USE DEF IInv, TypeOK, DBTypeOK
<1>1. CASE AcceptBlock
  BY <1>1 DEF AcceptBlock, CallInv, Accepting
<1>2. CASE CommitReorganize
  BY <1>2, NextBlockType, Zenon DEF CommitReorganize, BatchInv
<1>3. CASE SetBestChainInner
  <2>1. NextBlock(sbc.new) \in Blocks \ {Genesis}
    BY <1>3, NextBlockType DEF SetBestChainInner, Calling
  <2>2. IsTxIndex(ConnectBlock(db.txindex, NextBlock(sbc.new)))
    BY <2>1, ConnectBlockType
  <2>3. Linked(db.next, NextBlock(sbc.new)) \in [Blocks -> Blocks \cup {Nil}]
    BY <2>1, TreeAssumption DEF Linked, Parent, ChainTypeOK
  <2> QED
    BY <1>3, <2>1, <2>2, <2>3, Zenon DEF SetBestChainInner
<1>4. CASE WriteSyncCheckpoint
  BY <1>4, NextBlockType DEF WriteSyncCheckpoint, Calling
<1> QED
  BY <1>1, <1>2, <1>3, <1>4, Frames

(* Every step leaves the history variables well typed. *)
LEMMA HistoryTypeStep ==
  ASSUME IInv, [Next]_vars
  PROVE  HistoryTypeOK'
<1> USE NodeAssumption DEF IInv, TypeOK, HistoryTypeOK
<1>1. CASE RejectBlock
  BY <1>1 DEF RejectBlock
<1>2. CASE AbortReorganize
  BY <1>2 DEF AbortReorganize
<1>3. CASE SetBestChainInnerFails
  BY <1>3, NextBlockType DEF SetBestChainInnerFails, Calling
<1>4. CASE SyncCheckpointFails \/ WriteSyncCheckpoint
  BY <1>4 DEF SyncCheckpointFails, WriteSyncCheckpoint
<1>5. CASE Restart
  BY <1>5, RestartEffect
<1> QED
  BY <1>1, <1>2, <1>3, <1>4, <1>5, Frames

-----------------------------------------------------------------------------
(*                 The index and the calls are preserved                   *)

(* The branch SetBestChain adopts is indexed. *)
LEMMA BranchIndexed ==
  ASSUME IInv
  PROVE  /\ \A b \in mapBlockIndex : Branch[b] \subseteq mapBlockIndex
         /\ Calling => Branch[sbc.new] \subseteq mapBlockIndex
         /\ Branch[db.best] \subseteq mapBlockIndex
<1>1. ASSUME NEW b \in mapBlockIndex
      PROVE  Branch[b] \subseteq mapBlockIndex
  BY <1>1, BranchLeast DEF IInv, TypeOK, ChainTypeOK, IndexInv
<1> QED
  BY <1>1 DEF IInv, IndexInv, CallInv

(* Every step keeps the index on disk, closed, and around the best block. *)
LEMMA IndexStep ==
  ASSUME IInv, [Next]_vars
  PROVE  IndexInv'
<1> USE DEF IInv, IndexInv
<1>0. db.index = mapBlockIndex /\ DBTypeOK /\ ChainTypeOK
  BY DEF TypeOK
<1>1. db'.index = mapBlockIndex' /\ mapBlockIndex \subseteq mapBlockIndex'
  <2>1. CASE AcceptBlock
    BY <1>0, <2>1 DEF AcceptBlock, DBTypeOK
  <2>2. CASE Restart
    BY <1>0, <2>2, RestartEffect
  <2>3. CASE CommitReorganize \/ SetBestChainInner \/ WriteSyncCheckpoint
    BY <1>0, <2>3, Zenon DEF CommitReorganize, SetBestChainInner, WriteSyncCheckpoint, DBTypeOK
  <2> QED
    BY <1>0, <2>1, <2>2, <2>3, Frames
<1>2. db'.sync = hashSyncCheckpoint' /\ hashSyncCheckpoint' \in mapBlockIndex
  <2>1. CASE AcceptBlock \/ CommitReorganize \/ SetBestChainInner
    BY <1>0, <2>1, Zenon DEF AcceptBlock, CommitReorganize, SetBestChainInner, DBTypeOK
  <2>2. CASE Restart
    BY <2>2, RestartEffect
  <2>3. CASE WriteSyncCheckpoint
    BY <1>0, <2>3 DEF WriteSyncCheckpoint, CallInv, Calling, DBTypeOK
  <2>4. CASE \/ \E c \in SyncCheckpoints : ProcessSyncCheckpoint(c)
             \/ DropPendingSyncCheckpoint \/ SyncCheckpointFails
    BY <1>0, <2>4, Zenon DEF ProcessSyncCheckpoint, DropPendingSyncCheckpoint, SyncCheckpointFails
  <2> QED
    BY <1>0, <2>1, <2>2, <2>3, <2>4, Frames
<1>3. ParentClosed(mapBlockIndex')
  <2>1. CASE AcceptBlock
    BY <2>1 DEF AcceptBlock, ParentClosed, CallInv, Accepting
  <2> QED
    BY <1>0, <2>1, RestartEffect, Frames
<1>4. pindexBest' \in mapBlockIndex
  <2>1. CASE Restart
    BY <2>1, RestartEffect
  <2> QED
    BY <2>1, Frames, Zenon
       DEF CommitReorganize, AbortReorganize, SetBestChainInner,
           SetBestChainInnerFails, NewBestBlock, CallInv, Calling
<1>5. db'.best \in mapBlockIndex
  <2>1. CASE AcceptBlock \/ WriteSyncCheckpoint
    BY <1>0, <2>1 DEF AcceptBlock, WriteSyncCheckpoint, DBTypeOK
  <2>2. CASE CommitReorganize
    BY <1>0, <2>2, BranchIndexed DEF CommitReorganize, DBTypeOK, CallInv, Calling
  <2>3. CASE SetBestChainInner
    BY <1>0, <2>3, BranchIndexed, NextBlockType
       DEF SetBestChainInner, DBTypeOK, CallInv, Calling
  <2> QED
    BY <2>1, <2>2, <2>3, Frames
<1> QED
  BY <1>1, <1>2, <1>3, <1>4, <1>5

(* Every step leaves the batch of a reorganisation well typed. *)
LEMMA BatchStep ==
  ASSUME IInv, [Next]_vars
  PROVE  BatchInv'
<1> USE DEF BatchInv
<1>1. CASE SetBestChain
  BY <1>1 DEF SetBestChain, IInv, TypeOK, DBTypeOK
<1>2. CASE DisconnectTip
  <2>1. sbc.tip \in Blocks
    BY <1>2 DEF DisconnectTip, IInv, CallInv
  <2>2. IsTxIndex(DisconnectBlock(batch.txindex, sbc.tip))
    BY <1>2, <2>1, DisconnectBlockType DEF DisconnectTip, IInv, CallInv
  <2>3. batch.next \in [Blocks -> Blocks \cup {Nil}]
    BY <1>2 DEF DisconnectTip, IInv, CallInv
  <2> QED
    BY <1>2, <2>2, <2>3, Zenon DEF DisconnectTip
<1>3. CASE ConnectTip
  <2>1. NextBlock(sbc.inter) \in Blocks \ {Genesis}
    BY <1>3, NextBlockType, BranchEnds DEF ConnectTip
  <2>2. IsTxIndex(ConnectBlock(batch.txindex, NextBlock(sbc.inter)))
    BY <1>3, <2>1, ConnectBlockType DEF ConnectTip, IInv, CallInv
  <2>3. batch.next \in [Blocks -> Blocks \cup {Nil}]
    BY <1>3 DEF ConnectTip, IInv, CallInv
  <2>4. Linked(batch.next, NextBlock(sbc.inter)) \in [Blocks -> Blocks \cup {Nil}]
    BY <2>1, <2>3, TreeAssumption DEF Linked, Parent, IInv, TypeOK, ChainTypeOK
  <2> QED
    BY <1>3, <2>2, <2>4 DEF ConnectTip
<1>4. \/ SetBestChain \/ DisconnectTip \/ ConnectTip
      \/ pc' # "reorganize" \/ UNCHANGED <<pc, batch>>
  BY RestartCalls, Zenon
     DEF Next, Request, Handler, vars, ProcessOrphanBlock, ProcessBlock,
         ProcessSyncCheckpoint, AcceptToMemoryPool, AcceptBlock, RejectBlock,
         TryOrphan, NextParent,
         CommitReorganize, AbortReorganize, Resurrect, Delete, ReorganizeDone,
         SetBestChainInner, SetBestChainInnerFails, NewBestBlock,
         AddToBlockIndexReturns, NoPendingSyncCheckpoint,
         DropPendingSyncCheckpoint, AcceptPendingSyncCheckpoint,
         SyncCheckpointOnMainChain, SyncCheckpointFails, WriteSyncCheckpoint,
         LoadBlockIndexReturns, AcceptBlockReturns, CheckpointReturns,
         EnforceSyncCheckpoint
<1> QED
  BY <1>1, <1>2, <1>3, <1>4 DEF IInv, CallInv

(* The invariants on the running call, as one formula. *)
CallsOK == CallTypeOK /\ CallInv

(* AcceptBlock gives the block back to ProcessBlock. *)
LEMMA AcceptBlockReturnsStep ==
  ASSUME IInv, NEW f \in BOOLEAN, AcceptBlockReturns(f), Accepting,
         f => pc # "accept", mapBlockIndex' = mapBlockIndex
  PROVE  CallsOK' /\ QueueInv'
<1> USE DEF IInv, AcceptBlockReturns
<1>1. pc' \in {"idle", "work"} /\ sbc' = NoCall /\ pblock' = Nil
  OBVIOUS
<1>2. vWorkQueue \in Seq(mapBlockIndex) /\ vWorkQueue' \in Seq(mapBlockIndex)
  BY DEF QueueInv, CallInv
<1>3. CallsOK'
  <2>1. mapBlockIndex \subseteq Blocks
    BY DEF TypeOK, ChainTypeOK
  <2>2. vWorkQueue' \in Seq(Blocks)
    BY ONLY <1>2, <2>1
  <2>3. NoCall \in SbcType /\ NoCall.caller = "none"
    BY DEF NoCall, SbcType
  <2> QED
    BY ONLY <1>1, <2>2, <2>3 DEF CallsOK, CallTypeOK, CallInv, PCs, Calling, Accepting,
       CheckpointCallers
<1>4. /\ vWorkQueue # <<>> => vWorkQueue' # <<>> /\ Head(vWorkQueue') = Head(vWorkQueue)
      /\ pc' = "idle" => vWorkQueue' = <<>>
      /\ pc' = "work" => vWorkQueue' # <<>>
  BY <1>2
<1>5. /\ vWorkQueue = <<>> => mapOrphanBlocks' = mapOrphanBlocks
      /\ vWorkQueue # <<>> => hashPrevBlock[pblock] = Head(vWorkQueue)
  BY DEF QueueInv
<1>6. ~ Accepting'
  BY <1>1 DEF Accepting, NoCall
<1>7. /\ mapOrphanBlocksByPrev' = mapOrphanBlocksByPrev
      /\ mapOrphanBlocks' = mapOrphanBlocks \ {pblock}
      /\ sbc'.caller = "none"
  BY DEF NoCall
<1>8. QueueInv'
  BY ONLY <1>1, <1>2, <1>4, <1>5, <1>6, <1>7, QueueInv, mapBlockIndex' = mapBlockIndex
     DEF QueueInv
<1> QED
  BY <1>3, <1>8

(* The actions that leave the running call as it is. *)
LEMMA CallUnchanged ==
  ASSUME IInv, UNCHANGED <<pc, sbc, callVars, orphanVars, hashSyncCheckpoint, mapBlockIndex>>
  PROVE  CallsOK' /\ QueueInv'
BY DEF IInv, TypeOK, CallsOK, CallTypeOK, CallInv, QueueInv, Calling, Accepting

(* Steps of ProcessBlock and AcceptBlock before SetBestChain. *)
LEMMA ProcessBlockCalls ==
  ASSUME IInv,
         \/ \E b \in Blocks \ {Genesis} : ProcessOrphanBlock(b) \/ ProcessBlock(b)
         \/ AcceptBlock \/ RejectBlock \/ TryOrphan \/ NextParent
  PROVE  CallsOK' /\ QueueInv'
<1> USE DEF IInv
<1>1. ASSUME NEW b \in Blocks \ {Genesis}, ProcessOrphanBlock(b)
      PROVE  CallsOK' /\ QueueInv'
  <2>1. CallsOK'
    BY <1>1, Zenon DEF ProcessOrphanBlock, TypeOK, CallsOK, CallTypeOK, CallInv, Calling, Accepting
  <2>2. ~ Accepting /\ ~ Accepting'
    BY <1>1 DEF ProcessOrphanBlock, Accepting, CallInv, Calling, NoCall
  <2> QED
    BY <1>1, <2>1, <2>2 DEF ProcessOrphanBlock, QueueInv
<1>2. ASSUME NEW b \in Blocks \ {Genesis}, ProcessBlock(b)
      PROVE  CallsOK' /\ QueueInv'
  <2>1. sbc' = NoCall /\ pc' = "accept" /\ pblock' = b /\ vWorkQueue' = <<>>
    BY <1>2 DEF ProcessBlock, CallInv, Calling, QueueInv
  <2>2. CallsOK'
    BY <1>2, <2>1, Zenon DEF ProcessBlock, TypeOK, CallsOK, CallTypeOK, CallInv, Calling,
                      Accepting, NoCall, PCs, CheckpointCallers
  <2>3. b \notin mapOrphanBlocks
    BY <1>2, Zenon DEF ProcessBlock, Processable
  <2> QED
    BY <1>2, <2>1, <2>2, <2>3, Zenon DEF ProcessBlock, QueueInv, NoCall
<1>3. CASE AcceptBlock
  <2>1. /\ mapBlockIndex' = mapBlockIndex \cup {pblock}
        /\ UNCHANGED <<callVars, orphanVars, hashSyncCheckpoint>>
        /\ Accepting /\ sbc = NoCall /\ pblock \in Blocks \ {Genesis}
    BY <1>3 DEF AcceptBlock, Accepting, CallInv, Calling
  <2>2. \/ /\ pc' = "setbest"
           /\ sbc' = [NoCall EXCEPT !.caller = "AddToBlockIndex", !.new = pblock]
        \/ pc' = "accepted" /\ sbc' = NoCall
    BY <1>3, <2>1 DEF AcceptBlock
  <2>3. CallsOK'
    BY <2>1, <2>2, Zenon DEF TypeOK, CallsOK, CallTypeOK, CallInv, Calling, Callers,
                      Accepting, NoCall, PCs, CheckpointCallers, SbcType
  <2>4. vWorkQueue \in Seq(mapBlockIndex \cup {pblock})
    BY DEF QueueInv
  <2> QED
    BY <2>1, <2>2, <2>3, <2>4, Zenon DEF QueueInv, NoCall, Accepting
<1>4. CASE RejectBlock
  BY <1>4, AcceptBlockReturnsStep, Zenon DEF RejectBlock, Accepting
<1>5. CASE TryOrphan
  <2>1. PICK x \in OrphansOf(Head(vWorkQueue)) : pblock' = x
    BY <1>5 DEF TryOrphan
  <2>2. /\ sbc' = NoCall /\ pc' = "accept" /\ vWorkQueue' = vWorkQueue
        /\ vWorkQueue # <<>>
        /\ UNCHANGED <<orphanVars, hashSyncCheckpoint, mapBlockIndex>>
    BY <1>5 DEF TryOrphan, CallInv, Calling
  <2>3. x \in mapOrphanBlocks /\ <<Head(vWorkQueue), x>> \in mapOrphanBlocksByPrev
    BY <2>1 DEF OrphansOf
  <2>4. x \in Blocks \ {Genesis} /\ hashPrevBlock[x] = Head(vWorkQueue)
    BY <2>3 DEF QueueInv, TypeOK, OrphanTypeOK
  <2>5. Head(vWorkQueue) \in mapBlockIndex
    BY <2>2 DEF QueueInv
  <2>6. CallsOK'
    <3>1. vWorkQueue' \in Seq(Blocks) /\ sbc' \in SbcType
      BY <2>2 DEF TypeOK, CallTypeOK, NoCall, SbcType
    <3> QED
      BY ONLY <2>1, <2>2, <2>4, <2>5, <3>1
         DEF CallsOK, CallTypeOK, CallInv, Calling, Accepting, NoCall, PCs,
             CheckpointCallers
  <2> QED
    BY <2>1, <2>2, <2>3, <2>4, <2>6 DEF QueueInv, NoCall
<1>6. CASE NextParent
  <2>1. /\ sbc = NoCall /\ pc' \in {"idle", "work"}
        /\ vWorkQueue # <<>> /\ vWorkQueue' = Tail(vWorkQueue)
        /\ pc' = "idle" <=> vWorkQueue' = <<>>
        /\ UNCHANGED <<pblock, sbc, mapOrphanBlocks, hashSyncCheckpoint, mapBlockIndex>>
        /\ mapOrphanBlocksByPrev' = {e \in mapOrphanBlocksByPrev : e[1] # Head(vWorkQueue)}
    BY <1>6 DEF NextParent, CallInv, Calling
  <2>2. vWorkQueue' \in Seq(mapBlockIndex) /\ vWorkQueue' \in Seq(Blocks)
    BY <2>1 DEF QueueInv, TypeOK, CallTypeOK
  <2>3. CallsOK'
    BY <2>1, <2>2 DEF TypeOK, CallsOK, CallTypeOK, CallInv, Calling,
                      Accepting, NoCall, PCs, CheckpointCallers
  <2>4. \A b \in mapOrphanBlocks : <<Head(vWorkQueue), b>> \notin mapOrphanBlocksByPrev
    BY <1>6 DEF NextParent, OrphansOf
  <2>5. ~ Accepting'
    BY <2>1 DEF Accepting, NoCall
  <2> QED
    BY <2>1, <2>2, <2>3, <2>4, <2>5, Zenon DEF QueueInv, NoCall
<1> QED
  BY <1>1, <1>2, <1>3, <1>4, <1>5, <1>6, ZenonT(30)

(* A step inside SetBestChain, which stays with its caller and its block. *)
LEMMA InsideSetBestChain ==
  ASSUME IInv, UNCHANGED <<callVars, orphanVars, hashSyncCheckpoint, mapBlockIndex>>,
         pc \in {"setbest", "reorganize", "mempool", "inner"},
         pc' \in {"reorganize", "mempool", "inner", "succeeded", "failed"},
         sbc' \in SbcType, sbc'.caller = sbc.caller, sbc'.new = sbc.new,
         pc' \in {"reorganize", "mempool", "inner"} =>
           sbc'.inter \in Branch[sbc.new] /\ sbc'.tip \in Blocks,
         pc' = "mempool" => sbc'.tip = sbc'.inter,
         pc' = "inner" => sbc'.tip \in Branch[sbc.new]
  PROVE  CallsOK' /\ QueueInv'
<1>1. CallsOK'
  BY DEF IInv, TypeOK, CallsOK, CallTypeOK, CallInv, Calling, Accepting, PCs
<1>2. QueueInv'
  BY DEF IInv, QueueInv, Accepting
<1> QED
  BY <1>1, <1>2

(* SetBestChain, Reorganize and SetBestChainInner keep what they know. *)
LEMMA SetBestChainCalls ==
  ASSUME IInv,
         \/ SetBestChain \/ DisconnectTip \/ ConnectTip \/ CommitReorganize
         \/ AbortReorganize \/ Resurrect \/ Delete \/ ReorganizeDone
         \/ SetBestChainInner \/ SetBestChainInnerFails \/ NewBestBlock
  PROVE  CallsOK' /\ QueueInv'
<1>1. /\ sbc \in SbcType /\ pindexBest \in Blocks
      /\ Calling => /\ sbc.new \in Blocks /\ Branch[sbc.new] \subseteq Blocks
                    /\ sbc.new \in Branch[sbc.new]
  BY NextBlockType, BranchEnds DEF IInv, TypeOK, CallTypeOK, ChainTypeOK
<1>2. CASE SetBestChain
  <2>1. CASE Parent(sbc.new) = pindexBest
    <3>1. pindexBest \in Branch[sbc.new]
      BY <1>1, <1>2, <2>1, BranchClosed, TreeAssumption
         DEF SetBestChain, Calling, Parent, ParentClosed
    <3>2. /\ pc = "setbest" /\ pc' = "inner" /\ sbc'.tip = pindexBest
          /\ sbc'.inter = pindexBest /\ sbc' \in SbcType
          /\ sbc'.caller = sbc.caller /\ sbc'.new = sbc.new
          /\ UNCHANGED <<callVars, orphanVars, hashSyncCheckpoint, mapBlockIndex>>
      BY <1>1, <1>2, <2>1, Zenon DEF SetBestChain, SbcType
    <3> QED
      BY <1>1, <3>1, <3>2, InsideSetBestChain
  <2>2. CASE Parent(sbc.new) # pindexBest
    <3>1. Intermediate(sbc.new) \in Branch[sbc.new]
      BY <1>1, <1>2, IntermediateExists DEF SetBestChain, Calling
    <3>2. Intermediate(sbc.new) \in Blocks
      BY <1>1, <1>2, <3>1 DEF SetBestChain, Calling
    <3>3. /\ pc = "setbest" /\ pc' = "reorganize" /\ sbc'.tip = pindexBest
          /\ sbc'.inter = Intermediate(sbc.new) /\ sbc' \in SbcType
          /\ sbc'.caller = sbc.caller /\ sbc'.new = sbc.new
          /\ UNCHANGED <<callVars, orphanVars, hashSyncCheckpoint, mapBlockIndex>>
      BY <1>1, <1>2, <2>2, <3>2, Zenon DEF SetBestChain, SbcType
    <3> QED
      BY <1>1, <3>1, <3>3, InsideSetBestChain
  <2> QED
    BY <2>1, <2>2
<1>3. CASE DisconnectTip
  <2>1. sbc.tip \in Blocks /\ sbc.inter \in Branch[sbc.new] /\ sbc.inter \in Blocks
    BY <1>3, NextBlockType DEF DisconnectTip, IInv, CallInv
  <2>2. sbc.tip # Genesis
    BY <1>3, <2>1, BranchEnds DEF DisconnectTip
  <2>3. Parent(sbc.tip) \in Blocks
    BY <2>1, <2>2, TreeAssumption DEF Parent
  <2>4. /\ pc = "reorganize" /\ pc' = "reorganize" /\ sbc'.tip = Parent(sbc.tip)
        /\ sbc'.inter = sbc.inter /\ sbc' \in SbcType
        /\ sbc'.caller = sbc.caller /\ sbc'.new = sbc.new
        /\ UNCHANGED <<callVars, orphanVars, hashSyncCheckpoint, mapBlockIndex>>
    BY <1>1, <1>3, <2>3, Zenon DEF DisconnectTip, SbcType
  <2> QED
    BY <2>1, <2>3, <2>4, InsideSetBestChain
<1>4. CASE ConnectTip
  <2>1. sbc.inter \in Branch[sbc.new] /\ NextBlock(sbc.inter) \in Blocks
    BY <1>4, NextBlockType, BranchEnds DEF ConnectTip, IInv, CallInv
  <2>2. /\ pc = "reorganize" /\ pc' = "reorganize" /\ sbc'.tip = NextBlock(sbc.inter)
        /\ sbc'.inter = sbc.inter /\ sbc' \in SbcType
        /\ sbc'.caller = sbc.caller /\ sbc'.new = sbc.new
        /\ UNCHANGED <<callVars, orphanVars, hashSyncCheckpoint, mapBlockIndex>>
    BY <1>1, <1>4, <2>1 DEF ConnectTip, SbcType
  <2> QED
    BY <2>1, <2>2, InsideSetBestChain
<1>5. CASE SetBestChainInner
  <2>1. /\ sbc.inter \in Branch[sbc.new]
        /\ NextBlock(sbc.new) \in Branch[sbc.new] /\ NextBlock(sbc.new) \in Blocks
    BY <1>1, <1>5, NextBlockType DEF SetBestChainInner, IInv, CallInv, Calling
  <2>2. /\ pc = "inner" /\ pc' = "inner" /\ sbc'.tip = NextBlock(sbc.new)
        /\ sbc'.inter = sbc.inter /\ sbc' \in SbcType
        /\ sbc'.caller = sbc.caller /\ sbc'.new = sbc.new
        /\ UNCHANGED <<callVars, orphanVars, hashSyncCheckpoint, mapBlockIndex>>
    BY <1>1, <1>5, <2>1 DEF SetBestChainInner, SbcType
  <2> QED
    BY <2>1, <2>2, InsideSetBestChain
<1>6. CASE \/ CommitReorganize \/ AbortReorganize \/ Resurrect \/ Delete
           \/ ReorganizeDone \/ SetBestChainInnerFails \/ NewBestBlock
  <2>1. /\ pc \in {"reorganize", "mempool", "inner"}
        /\ \/ pc' \in {"succeeded", "failed"} 
           \/ pc = "reorganize" /\ pc' = "mempool" /\ sbc.tip = sbc.inter
           \/ pc = "mempool" /\ pc' \in {"mempool", "inner"}
        /\ UNCHANGED <<sbc, callVars, orphanVars, hashSyncCheckpoint, mapBlockIndex>>
    BY <1>6 DEF CommitReorganize, AbortReorganize, Resurrect, Delete,
                ReorganizeDone, SetBestChainInnerFails, NewBestBlock
  <2>2. pc = "mempool" => sbc.tip \in Branch[sbc.new]
    BY DEF IInv, CallInv
  <2>3. sbc.inter \in Branch[sbc.new] /\ sbc.tip \in Blocks
    BY <2>1 DEF IInv, CallInv
  <2>4. pc = "mempool" => sbc.tip = sbc.inter
    BY DEF IInv, CallInv
  <2> QED
    BY ONLY <1>1, <2>1, <2>2, <2>3, <2>4, IInv, InsideSetBestChain, Zenon
<1> QED
  BY <1>2, <1>3, <1>4, <1>5, <1>6

(* So do the callers of SetBestChain, when it returns. *)
LEMMA CheckpointCalls ==
  ASSUME IInv,
         \/ AddToBlockIndexReturns \/ NoPendingSyncCheckpoint
         \/ DropPendingSyncCheckpoint \/ AcceptPendingSyncCheckpoint
         \/ SyncCheckpointOnMainChain \/ SyncCheckpointFails \/ WriteSyncCheckpoint
         \/ LoadBlockIndexReturns
         \/ \E c \in SyncCheckpoints : ProcessSyncCheckpoint(c)
  PROVE  CallsOK' /\ QueueInv'
<1> USE DEF IInv
<1>1. NoCall \in SbcType /\ NoCall.caller = "none"
  BY DEF NoCall, SbcType
<1>2. ASSUME pc' \in {"idle", "accepted"}, sbc' = NoCall,
             UNCHANGED <<callVars, orphanVars, mapBlockIndex>>,
             pc' = "idle" => vWorkQueue = <<>>,
             pc' = "accepted" => Accepting /\ pc # "accept"
      PROVE  CallsOK' /\ QueueInv'
  <2>1. CallsOK'
    BY <1>1, <1>2, Zenon DEF TypeOK, CallsOK, CallTypeOK, CallInv, Calling, Accepting, PCs,
                      CheckpointCallers
  <2>2. QueueInv'
    BY <1>1, <1>2 DEF QueueInv, Accepting
  <2> QED
    BY <2>1, <2>2
<1>3. CASE AddToBlockIndexReturns
  <2>1. CASE pc = "succeeded"
    BY <1>2, <1>3, <2>1 DEF AddToBlockIndexReturns, Accepting
  <2>2. CASE pc = "failed"
    BY <1>3, <2>2, AcceptBlockReturnsStep, Zenon DEF AddToBlockIndexReturns, Accepting
  <2> QED
    BY <1>3, <2>1, <2>2, Zenon DEF AddToBlockIndexReturns
<1>4. CASE NoPendingSyncCheckpoint \/ DropPendingSyncCheckpoint
  BY <1>4, AcceptBlockReturnsStep, Zenon
     DEF NoPendingSyncCheckpoint, DropPendingSyncCheckpoint, Accepting
<1>5. ASSUME NEW caller \in CheckpointCallers, NEW c \in mapBlockIndex,
             EnforceSyncCheckpoint(caller, c),
             UNCHANGED <<callVars, orphanVars, hashSyncCheckpoint, mapBlockIndex>>,
             caller = "AcceptPendingSyncCheckpoint" => pc = "accepted",
             caller = "ProcessSyncCheckpoint" => pc = "idle"
      PROVE  CallsOK' /\ QueueInv'
  <2>1. /\ pc' \in {"writesync", "setbest"} /\ sbc'.caller = caller /\ sbc'.new = c
        /\ hashSyncCheckpoint \in Branch[c]
    BY <1>5 DEF EnforceSyncCheckpoint, ValidateSyncCheckpoint, NoCall
  <2>2. c \in Blocks
    BY DEF TypeOK, ChainTypeOK
  <2>3. sbc' \in SbcType
    BY <1>5, <2>2, Zenon DEF EnforceSyncCheckpoint, NoCall, SbcType, Callers, CheckpointCallers
  <2>4. CallsOK'
    BY <1>5, <2>1, <2>3 DEF TypeOK, CallsOK, CallTypeOK, CallInv, Calling, Accepting,
                            PCs, CheckpointCallers, Callers
  <2>5. QueueInv'
    BY <1>5, <2>1, Zenon DEF QueueInv, Accepting, CheckpointCallers
  <2> QED
    BY <2>4, <2>5
<1>6. CASE AcceptPendingSyncCheckpoint
  BY <1>5, <1>6 DEF AcceptPendingSyncCheckpoint, PendingIndexed, CheckpointCallers
<1>7. CASE SyncCheckpointOnMainChain
  <2>1. CallsOK'
    BY <1>7, Zenon DEF SyncCheckpointOnMainChain, TypeOK, CallsOK, CallTypeOK, CallInv, Calling,
                Accepting, PCs
  <2>2. QueueInv'
    BY <1>7, Zenon DEF SyncCheckpointOnMainChain, QueueInv, Accepting
  <2> QED
    BY <2>1, <2>2
<1>8. ASSUME CheckpointReturns, pc \in {"setbest", "failed", "writesync"},
             sbc.caller \in CheckpointCallers, mapBlockIndex' = mapBlockIndex
      PROVE  CallsOK' /\ QueueInv'
  <2>1. CASE sbc.caller = "AcceptPendingSyncCheckpoint"
    BY <1>8, <2>1, AcceptBlockReturnsStep, Zenon DEF CheckpointReturns, Accepting
  <2>2. CASE sbc.caller # "AcceptPendingSyncCheckpoint"
    BY <1>2, <1>8, <2>2 DEF CheckpointReturns, CheckpointCallers, QueueInv
  <2> QED
    BY <2>1, <2>2
<1>9. CASE SyncCheckpointFails \/ WriteSyncCheckpoint
  BY <1>8, <1>9, Zenon DEF SyncCheckpointFails, WriteSyncCheckpoint, CallInv
<1>10. CASE LoadBlockIndexReturns
  BY <1>2, <1>10 DEF LoadBlockIndexReturns, QueueInv
<1>11. CASE \E c \in SyncCheckpoints : ProcessSyncCheckpoint(c)
  <2>1. PICK c \in SyncCheckpoints : ProcessSyncCheckpoint(c)
    BY <1>11
  <2>2. CASE UNCHANGED <<pc, sbc>>
    BY <2>1, <2>2, CallUnchanged DEF ProcessSyncCheckpoint
  <2>3. CASE c \in mapBlockIndex /\ EnforceSyncCheckpoint("ProcessSyncCheckpoint", c)
    BY <1>5, <2>1, <2>3 DEF ProcessSyncCheckpoint, CheckpointCallers
  <2> QED
    BY <2>1, <2>2, <2>3 DEF ProcessSyncCheckpoint
<1> QED
  BY <1>3, <1>4, <1>6, <1>7, <1>9, <1>10, <1>11

(* So does a restart. *)
LEMMA RestartCallsOK ==
  ASSUME IInv, Restart
  PROVE  CallsOK' /\ QueueInv'
<1> USE DEF IInv
<1>1. /\ mapBlockIndex' = mapBlockIndex /\ pblock' = Nil /\ vWorkQueue' = <<>>
      /\ mapOrphanBlocks' = {} /\ mapOrphanBlocksByPrev' = {}
  BY RestartEffect, Zenon DEF IndexInv
<1>2. \/ pc' = "idle" /\ sbc' = NoCall
      \/ \E b \in mapBlockIndex :
           /\ pc' = "setbest"
           /\ sbc' = [NoCall EXCEPT !.caller = "LoadBlockIndex", !.new = b]
  <2>1. ASSUME NEW x \in Connected(db.best)
        PROVE  hashPrevBlock[x] \in mapBlockIndex
    <3>1. db.best \in Blocks
      BY DEF TypeOK, DBTypeOK
    <3>2. hashPrevBlock[x] \in Branch[db.best]
      BY <3>1, BranchClosed DEF Connected, ParentClosed
    <3> QED
      BY <3>2, BranchIndexed
  <2> QED
    BY <2>1, RestartCalls, Zenon
<1>3. /\ sbc' \in SbcType /\ sbc'.caller \in {"none", "LoadBlockIndex"}
      /\ \/ pc' = "idle" /\ sbc' = NoCall
         \/ /\ pc' = "setbest"
            /\ sbc'.new \in mapBlockIndex
            /\ sbc'.caller = "LoadBlockIndex"
  <2>1. mapBlockIndex \subseteq Blocks
    BY DEF TypeOK, ChainTypeOK
  <2>2. CASE sbc' = NoCall /\ pc' = "idle"
    BY ONLY <2>2 DEF NoCall, SbcType
  <2>3. CASE \E b \in mapBlockIndex :
               /\ pc' = "setbest"
               /\ sbc' = [NoCall EXCEPT !.caller = "LoadBlockIndex", !.new = b]
    BY ONLY <2>1, <2>3, Zenon DEF NoCall, SbcType, Callers
  <2> QED
    BY <1>2, <2>2, <2>3, Zenon
<1>4. CallsOK'
  BY ONLY <1>1, <1>3 DEF CallsOK, CallTypeOK, CallInv, Calling, Accepting, PCs,
                         CheckpointCallers, Callers
<1>5. QueueInv'
  BY ONLY <1>1, <1>3 DEF QueueInv, Accepting
<1> QED
  BY <1>4, <1>5

(* The invariant is inductive. *)
LEMMA NextIInv ==
  ASSUME IInv, [Next]_vars
  PROVE  IInv'
<1>1. CallsOK' /\ QueueInv'
  <2>1. CASE UNCHANGED vars
    BY <2>1, CallUnchanged DEF vars
  <2>2. CASE \E t \in Txs : AcceptToMemoryPool(t)
    BY <2>2, CallUnchanged DEF AcceptToMemoryPool
  <2> QED
    BY <2>1, <2>2, ProcessBlockCalls, SetBestChainCalls, CheckpointCalls, RestartCallsOK
       DEF Next, Request, Handler
<1>2. TypeOK'
  BY <1>1, ChainTypeStep, OrphanTypeStep, CheckpointTypeStep, PoolTypeStep, DBTypeStep,
     HistoryTypeStep DEF TypeOK, CallsOK
<1> QED
  BY <1>1, <1>2, BatchStep, IndexStep DEF IInv, CallsOK

(* IInv holds in every reachable state. *)
THEOREM Invariance == Spec => []IInv
BY InitIInv, NextIInv, PTL DEF Spec

(* TypeOK: every variable of the node keeps its type, whatever blocks,     *)
(* transactions, checkpoints, restarts and disk errors it meets.           *)
THEOREM TypeCorrect == Spec => []TypeOK
<1>1. IInv => TypeOK
  BY DEF IInv
<1> QED
  BY <1>1, Invariance, PTL

-----------------------------------------------------------------------------
(*                    The index and the sync-checkpoint                    *)

(* AddToBlockIndex, LoadBlockIndex: the index in memory and the one on     *)
(* disk hold the parent of each of their blocks, also after a restart.     *)
THEOREM IndexIsClosed == Spec => []IndexClosed
<1>1. IInv => IndexClosed
  BY DEF IInv, IndexInv, IndexClosed
<1> QED
  BY <1>1, Invariance, PTL

(* The best block and the sync-checkpoint are indexed, in memory and on    *)
(* disk, so that CheckSync and LoadBlockIndex find them.                   *)
THEOREM BestIsIndexed == Spec => []BestIndexed
<1>1. IInv => BestIndexed
  BY DEF IInv, IndexInv, BestIndexed
<1> QED
  BY <1>1, Invariance, PTL

(* ValidateSyncCheckpoint, WriteSyncCheckpoint: the checkpoint on disk     *)
(* gives way only to a descendant, also when the two calls are separated   *)
(* by a reorganisation.                                                    *)
THEOREM CheckpointAdvances == Spec => SyncAdvances
<1>1. ASSUME IInv, [Next]_vars
      PROVE  db.sync \in Branch[db'.sync]
  <2>1. db.sync \in Blocks /\ db.sync \in Branch[db.sync]
    BY <1>1, BranchEnds DEF IInv, TypeOK, DBTypeOK
  <2>2. CASE WriteSyncCheckpoint
    BY <1>1, <2>1, <2>2
       DEF WriteSyncCheckpoint, IInv, CallInv, IndexInv, TypeOK, DBTypeOK
  <2>3. CASE AcceptBlock \/ CommitReorganize \/ SetBestChainInner
    BY <1>1, <2>1, <2>3, Zenon
       DEF AcceptBlock, CommitReorganize, SetBestChainInner, IInv, TypeOK, DBTypeOK
  <2> QED
    BY <1>1, <2>1, <2>2, <2>3, Frames
<1>2. IInv /\ [Next]_vars => [db.sync \in Branch[db'.sync]]_vars
  BY <1>1
<1> QED
  BY <1>2, Invariance, PTL DEF Spec, SyncAdvances

-----------------------------------------------------------------------------
(*                              Orphan blocks                              *)

(* ProcessBlock: each proof of stake remembered for an orphan is that of   *)
(* an orphan still held.                                                   *)
StakeInv == setStakeSeenOrphan \subseteq UNION {StakeOf(b) : b \in mapOrphanBlocks}

(* Every step keeps the proofs of stake of the orphans. *)
LEMMA StakeStep ==
  ASSUME IInv, StakeInv, [Next]_vars
  PROVE  StakeInv'
<1> USE DEF StakeInv
<1>1. CASE \E b \in Blocks \ {Genesis} : ProcessOrphanBlock(b)
  BY <1>1 DEF ProcessOrphanBlock
<1>2. CASE NextParent
  BY <1>2 DEF NextParent
<1>3. CASE Returning
  <2> DEFINE Erased ==
        /\ mapOrphanBlocks' = mapOrphanBlocks \ {pblock}
        /\ setStakeSeenOrphan' = IF vWorkQueue = <<>>
                                 THEN setStakeSeenOrphan
                                 ELSE setStakeSeenOrphan \ StakeOf(pblock)
  <2>1. (Accepting /\ Erased) \/ UNCHANGED orphanVars
    <3> USE DEF AcceptBlockReturns, Accepting
    <3>1. CASE RejectBlock
      BY <3>1 DEF RejectBlock
    <3>2. CASE AddToBlockIndexReturns
      BY <3>2 DEF AddToBlockIndexReturns
    <3>3. CASE NoPendingSyncCheckpoint \/ DropPendingSyncCheckpoint
      BY <3>3 DEF NoPendingSyncCheckpoint, DropPendingSyncCheckpoint
    <3>4. CASE SyncCheckpointFails \/ WriteSyncCheckpoint
      BY <3>4 DEF SyncCheckpointFails, WriteSyncCheckpoint, CheckpointReturns
    <3> QED
      BY <1>3, <3>1, <3>2, <3>3, <3>4 DEF Returning
  <2>2. Accepting /\ vWorkQueue = <<>> => pblock \notin mapOrphanBlocks
    BY DEF IInv, QueueInv
  <2>3. CASE UNCHANGED orphanVars
    BY <2>3
  <2>4. CASE Accepting /\ Erased /\ vWorkQueue = <<>>
    BY <2>2, <2>4
  <2>5. CASE Accepting /\ Erased /\ vWorkQueue # <<>>
    BY <2>5
  <2> QED
    BY <2>1, <2>3, <2>4, <2>5
<1>4. CASE Restart
  <2>1. setStakeSeenOrphan' = {}
    BY <1>4, RestartEffect
  <2> QED
    BY ONLY <2>1 DEF StakeInv
<1>5. CASE UNCHANGED orphanVars
  BY <1>5
<1> HIDE DEF StakeInv
<1> QED
  BY <1>1, <1>2, <1>3, <1>4, <1>5, Frames

(* ProcessBlock: between handlers the two maps of orphan blocks describe   *)
(* the same orphans, whichever of them were accepted, refused or lost.     *)
THEOREM OrphansAgree == Spec => []OrphanMapsAgree
<1>1. Init => StakeInv
  BY DEF Init, StakeInv
<1>2. IInv /\ StakeInv => OrphanMapsAgree
  <2> SUFFICES ASSUME IInv, StakeInv, pc = "idle"
               PROVE  mapOrphanBlocksByPrev = {<<hashPrevBlock[b], b>> : b \in mapOrphanBlocks}
    BY DEF OrphanMapsAgree, StakeInv
  <2>1. \A e \in mapOrphanBlocksByPrev : e = <<e[1], e[2]>>
    BY DEF IInv, TypeOK, OrphanTypeOK
  <2> QED
    BY <2>1 DEF IInv, QueueInv
<1> QED
  BY <1>1, <1>2, StakeStep, Invariance, PTL DEF Spec

(***************************************************************************)
(* A block in AcceptBlock is not indexed yet, although it may have waited  *)
(* as an orphan while others were accepted: an orphan leaves the map       *)
(* before AcceptBlock returns.                                             *)
(***************************************************************************)
FreshInv ==
    /\ \A b \in mapOrphanBlocks \cap mapBlockIndex : Accepting /\ b = pblock
    /\ pc = "accept" => pblock \notin mapBlockIndex

(* Every step keeps FreshInv. *)
LEMMA FreshStep ==
  ASSUME IInv, FreshInv, [Next]_vars
  PROVE  FreshInv'
<1> USE DEF FreshInv
<1>1. ~ Calling => sbc = NoCall
  BY DEF IInv, CallInv
<1>2. CASE \E b \in Blocks \ {Genesis} : ProcessOrphanBlock(b)
  BY <1>2 DEF ProcessOrphanBlock, Processable, Accepting
<1>3. CASE \E b \in Blocks \ {Genesis} : ProcessBlock(b)
  <2>1. ~ Accepting
    BY <1>1, <1>3 DEF ProcessBlock, Accepting, NoCall, Calling
  <2> QED
    BY <1>3, <2>1, Zenon DEF ProcessBlock, Processable
<1>4. CASE AcceptBlock
  BY <1>4, Zenon DEF AcceptBlock, Accepting, NoCall
<1>5. CASE TryOrphan
  <2>1. ~ Accepting
    BY <1>1, <1>5 DEF TryOrphan, Accepting, NoCall, Calling
  <2> QED
    BY <1>5, <2>1 DEF TryOrphan, OrphansOf
<1>6. CASE Returning
  <2>1. mapBlockIndex' = mapBlockIndex
    BY <1>6, Zenon DEF Returning, RejectBlock, AddToBlockIndexReturns, NoPendingSyncCheckpoint,
                DropPendingSyncCheckpoint, SyncCheckpointFails, WriteSyncCheckpoint
  <2>2. \/ mapOrphanBlocks' = mapOrphanBlocks \ {pblock} /\ pc' \in {"idle", "work"}
        \/ /\ UNCHANGED <<mapOrphanBlocks, pblock>> /\ pc' # "accept"
           /\ Accepting => Accepting'
    <3> USE DEF AcceptBlockReturns, Accepting
    <3>1. CASE RejectBlock
      BY <3>1 DEF RejectBlock
    <3>2. CASE AddToBlockIndexReturns
      BY <3>2 DEF AddToBlockIndexReturns
    <3>3. CASE NoPendingSyncCheckpoint \/ DropPendingSyncCheckpoint
      BY <3>3 DEF NoPendingSyncCheckpoint, DropPendingSyncCheckpoint
    <3>4. CASE SyncCheckpointFails \/ WriteSyncCheckpoint
      <4>1. /\ CheckpointReturns /\ sbc.caller \in CheckpointCallers
            /\ pc \notin {"accept", "accepted"}
        BY <3>4 DEF SyncCheckpointFails, WriteSyncCheckpoint, IInv, CallInv
      <4> QED
        BY <4>1 DEF CheckpointReturns, CheckpointCallers
    <3> QED
      BY <1>6, <3>1, <3>2, <3>3, <3>4 DEF Returning
  <2> QED
    BY <2>1, <2>2
<1>7. CASE Restart
  <2>1. pc' \in {"idle", "setbest"}
    BY <1>7, RestartCalls, Zenon
  <2> QED
    BY <1>7, <2>1, RestartEffect
<1>8. CASE /\ UNCHANGED <<mapOrphanBlocks, mapBlockIndex, pblock>>
           /\ pc' = "accept" => pc = "accept"
           /\ Accepting => Accepting'
  BY <1>8, Zenon
<1>9. \/ \E b \in Blocks \ {Genesis} : ProcessOrphanBlock(b) \/ ProcessBlock(b)
      \/ AcceptBlock \/ TryOrphan \/ Returning \/ Restart
      \/ /\ UNCHANGED <<mapOrphanBlocks, mapBlockIndex, pblock>>
         /\ pc' = "accept" => pc = "accept"
         /\ Accepting => Accepting'
  <2>1. sbc \in SbcType
    BY DEF IInv, TypeOK, CallTypeOK
  <2>2. CASE SetBestChain \/ DisconnectTip \/ ConnectTip \/ SetBestChainInner
    <3>1. sbc'.caller = sbc.caller
      BY <2>1, <2>2, Zenon DEF SetBestChain, DisconnectTip, ConnectTip, SetBestChainInner, SbcType
    <3> QED
      BY <2>2, <3>1 DEF SetBestChain, DisconnectTip, ConnectTip, SetBestChainInner, Accepting
  <2>3. CASE \/ AcceptPendingSyncCheckpoint \/ LoadBlockIndexReturns
             \/ \E c \in SyncCheckpoints : ProcessSyncCheckpoint(c)
    <3>1. CASE AcceptPendingSyncCheckpoint
      <4>1. sbc'.caller = "AcceptPendingSyncCheckpoint"
        BY <3>1 DEF AcceptPendingSyncCheckpoint, EnforceSyncCheckpoint, NoCall
      <4>2. UNCHANGED <<mapOrphanBlocks, mapBlockIndex, pblock>> /\ pc' # "accept"
        BY <3>1 DEF AcceptPendingSyncCheckpoint, EnforceSyncCheckpoint
      <4> QED
        BY <4>1, <4>2 DEF Accepting
    <3>2. CASE LoadBlockIndexReturns
      BY <3>2 DEF LoadBlockIndexReturns, Accepting
    <3>3. CASE \E c \in SyncCheckpoints : ProcessSyncCheckpoint(c)
      <4>1. pc = "idle" /\ UNCHANGED <<mapOrphanBlocks, mapBlockIndex, pblock>> /\ pc' # "accept"
        BY <3>3 DEF ProcessSyncCheckpoint, EnforceSyncCheckpoint
      <4>2. ~ Accepting
        BY <1>1, <4>1 DEF Accepting, Calling, NoCall
      <4> QED
        BY <4>1, <4>2
    <3> QED
      BY <2>3, <3>1, <3>2, <3>3
  <2> QED
    BY <2>2, <2>3
       DEF Next, Request, Handler, vars, AcceptToMemoryPool, NextParent, Returning,
           CommitReorganize, AbortReorganize, Resurrect, Delete, ReorganizeDone,
           SetBestChainInnerFails, NewBestBlock, SyncCheckpointOnMainChain, Accepting
<1> HIDE DEF FreshInv
<1> QED
  BY <1>2, <1>3, <1>4, <1>5, <1>6, <1>7, <1>8, <1>9, Zenon

(* FreshInv holds in every reachable state. *)
LEMMA Fresh == Spec => []FreshInv
<1>1. Init => FreshInv
  BY DEF Init, FreshInv
<1> QED
  BY <1>1, FreshStep, Invariance, PTL DEF Spec

-----------------------------------------------------------------------------
(*                       The best chain and the disk                       *)

(***************************************************************************)
(* Where the best block in memory and the one on disk stand while          *)
(* SetBestChain runs: they differ only between the commit of a             *)
(* reorganisation, or of the one block of an extension, and the moment the *)
(* new best block is set.                                                  *)
(***************************************************************************)
DurableInv ==
    /\ pc \in {"reorganize", "mempool"} => sbc.kind = "reorganize"
    /\ pc = "inner" => sbc.kind \in {"reorganize", "extend"}
    /\ pc = "inner" /\ sbc.kind = "extend" =>
         Parent(sbc.new) = pindexBest /\ sbc.tip \in {pindexBest, sbc.new}
    /\ torn = {} => db.best = IF pc \in {"mempool", "inner"} THEN sbc.tip ELSE pindexBest

(* The steps that move the best block, in memory or on disk. *)
Moving == \/ SetBestChain \/ CommitReorganize \/ AbortReorganize
          \/ ReorganizeDone \/ SetBestChainInner \/ SetBestChainInnerFails
          \/ NewBestBlock \/ Restart

(* All other steps leave the best block where it is. *)
LEMMA MovingFrame ==
  ASSUME IInv, [Next]_vars, ~ Moving
  PROVE  /\ UNCHANGED <<pindexBest, torn>>
         /\ db'.best = db.best
         /\ \/ UNCHANGED <<pc, sbc>>
            \/ pc' \notin {"reorganize", "mempool", "inner"}
               /\ pc \notin {"reorganize", "mempool", "inner"}
            \/ /\ pc = "reorganize" /\ pc' = "reorganize"
               /\ sbc'.kind = sbc.kind
               /\ sbc'.new = sbc.new /\ sbc'.inter = sbc.inter
               /\ sbc'.caller = sbc.caller
<1> USE DEF Moving
<1>1. UNCHANGED <<pindexBest, torn>>
  <2>1. CASE RejectBlock \/ SyncCheckpointFails \/ WriteSyncCheckpoint
    BY <2>1, Zenon DEF RejectBlock, SyncCheckpointFails, WriteSyncCheckpoint
  <2> QED
    BY <2>1, Frames
<1>2. db'.best = db.best
  BY Frames DEF AcceptBlock, WriteSyncCheckpoint, IInv, TypeOK, DBTypeOK
<1>3. \/ UNCHANGED <<pc, sbc>>
      \/ pc' \notin {"reorganize", "mempool", "inner"}
         /\ pc \notin {"reorganize", "mempool", "inner"}
      \/ DisconnectTip \/ ConnectTip
  BY Zenon DEF Next, Request, Handler, vars, ProcessOrphanBlock, ProcessBlock,
         ProcessSyncCheckpoint, AcceptToMemoryPool, AcceptBlock, RejectBlock,
         TryOrphan, NextParent, Resurrect, Delete,
         AddToBlockIndexReturns, NoPendingSyncCheckpoint,
         DropPendingSyncCheckpoint, AcceptPendingSyncCheckpoint,
         SyncCheckpointOnMainChain, SyncCheckpointFails, WriteSyncCheckpoint,
         LoadBlockIndexReturns, AcceptBlockReturns, CheckpointReturns,
         EnforceSyncCheckpoint, IInv, CallInv
<1>4. sbc \in SbcType
  BY DEF IInv, TypeOK, CallTypeOK
<1>5. ASSUME DisconnectTip \/ ConnectTip
      PROVE  /\ pc = "reorganize" /\ pc' = "reorganize"
             /\ sbc'.kind = sbc.kind
             /\ sbc'.new = sbc.new /\ sbc'.inter = sbc.inter
             /\ sbc'.caller = sbc.caller
  BY <1>4, <1>5 DEF DisconnectTip, ConnectTip, SbcType
<1> QED
  BY <1>1, <1>2, <1>3, <1>5

(* Every step keeps DurableInv. *)
LEMMA DurableStep ==
  ASSUME IInv, DurableInv, [Next]_vars
  PROVE  DurableInv'
<1> USE DEF DurableInv
<1>1. sbc \in SbcType /\ DBTypeOK /\ CallInv
  BY DEF IInv, TypeOK, CallTypeOK
<1>2. CASE ~ Moving
  BY <1>1, <1>2, MovingFrame, Zenon
<1>3. CASE SetBestChain
  BY <1>1, <1>3, Zenon DEF SetBestChain, SbcType
<1>4. CASE CommitReorganize
  BY <1>1, <1>4, Zenon DEF CommitReorganize, DBTypeOK
<1>5. CASE AbortReorganize \/ ReorganizeDone \/ NewBestBlock
  BY <1>1, <1>5, Zenon DEF AbortReorganize, ReorganizeDone, NewBestBlock
<1>6. NextBlock(sbc.new) = sbc.new \/ ~ (pc = "inner" /\ sbc.kind = "extend")
        \/ sbc.tip = sbc.new
  <2> SUFFICES ASSUME pc = "inner", sbc.kind = "extend", sbc.tip # sbc.new
               PROVE  NextBlock(sbc.new) = sbc.new
    OBVIOUS
  <2>1. sbc.new \in Blocks /\ Parent(sbc.new) = sbc.tip /\ sbc.tip \in Blocks
    BY <1>1, NextBlockType, Zenon DEF Calling, CallInv
  <2>2. sbc.new # Genesis /\ hashPrevBlock[sbc.new] = sbc.tip
    BY <2>1, TreeAssumption, Zenon DEF Parent
  <2> QED
    BY <2>1, <2>2, ChildTowardLast DEF NextBlock
<1>7. CASE SetBestChainInner
  <2>1. /\ pc = "inner" /\ pc' = "inner" /\ sbc.tip # sbc.new
        /\ sbc'.tip = NextBlock(sbc.new) /\ db'.best = sbc'.tip
        /\ sbc'.new = sbc.new /\ sbc'.kind = sbc.kind
        /\ UNCHANGED <<pindexBest, torn>>
    BY <1>1, <1>7 DEF SetBestChainInner, SbcType, DBTypeOK
  <2> QED
    BY <1>6, <2>1
<1>8. CASE SetBestChainInnerFails
  <2>1. /\ pc = "inner" /\ sbc.tip # sbc.new /\ db' = db
        /\ sbc.kind = "reorganize" => sbc.new \in torn' /\ pc' = "succeeded"
        /\ sbc.kind # "reorganize" => UNCHANGED <<pindexBest, torn>> /\ pc' = "failed"
    BY <1>8, Zenon DEF SetBestChainInnerFails
  <2> QED
    BY <2>1, ZenonT(30)
<1>9. CASE Restart
  BY <1>9, RestartEffect, RestartCalls, Zenon DEF NoCall
<1> QED
  BY <1>2, <1>3, <1>4, <1>5, <1>7, <1>8, <1>9, Zenon DEF Moving

(* DurableInv holds in every reachable state. *)
LEMMA Durable == Spec => []DurableInv
<1>1. Init => DurableInv
  <2>1. Init => db.best = Genesis /\ pindexBest = Genesis /\ pc = "idle"
    BY DEF Init
  <2> QED
    BY <2>1 DEF DurableInv
<1> QED
  BY <1>1, DurableStep, Invariance, PTL DEF Spec

(* SetBestChain: when a handler returns, the best block in memory is the   *)
(* one the database ends in, after any crash, abort or disk error, unless  *)
(* a postponed block failed to connect.                                    *)
THEOREM BestStaysDurable == Spec => []BestIsDurable
<1>1. DurableInv => BestIsDurable
  BY DEF DurableInv, BestIsDurable
<1> QED
  BY <1>1, Durable, PTL

-----------------------------------------------------------------------------
(*                         The pointers of the chain                       *)

(* The steps that move an index across a block, or copy one. *)
Indexing == \/ SetBestChain \/ DisconnectTip \/ ConnectTip \/ CommitReorganize
            \/ SetBestChainInner

(* A failure that was once met is not forgotten. *)
LEMMA TornGrows ==
  ASSUME [Next]_vars
  PROVE  torn \subseteq torn' /\ (torn' # torn => SetBestChainInnerFails)
BY Frames, Zenon DEF RejectBlock, AbortReorganize, SetBestChainInnerFails, SyncCheckpointFails,
              WriteSyncCheckpoint, Restart

(* All other steps leave the indexes alone. *)
LEMMA IndexingFrame ==
  ASSUME IInv, [Next]_vars, ~ Indexing
  PROVE  /\ db'.txindex = db.txindex /\ db'.best = db.best /\ db'.next = db.next
         /\ pc' = "reorganize" => UNCHANGED <<pc, sbc, batch, pindexBest>>
<1>1. db'.txindex = db.txindex /\ db'.best = db.best /\ db'.next = db.next
  BY Frames, Zenon DEF Indexing, AcceptBlock, WriteSyncCheckpoint, IInv, TypeOK, DBTypeOK
<1>2. pc' = "reorganize" => UNCHANGED <<pc, sbc, batch, pindexBest>>
  BY RestartCalls, Zenon
     DEF Indexing, Next, Request, Handler, vars, ProcessOrphanBlock, ProcessBlock,
         ProcessSyncCheckpoint, AcceptToMemoryPool, AcceptBlock, RejectBlock,
         TryOrphan, NextParent, AbortReorganize, Resurrect, Delete,
         ReorganizeDone, SetBestChainInnerFails, NewBestBlock,
         AddToBlockIndexReturns, NoPendingSyncCheckpoint,
         DropPendingSyncCheckpoint, AcceptPendingSyncCheckpoint,
         SyncCheckpointOnMainChain, SyncCheckpointFails, WriteSyncCheckpoint,
         LoadBlockIndexReturns, AcceptBlockReturns, CheckpointReturns,
         EnforceSyncCheckpoint
<1> QED
  BY <1>1, <1>2

(* A disconnected block is not the genesis block. *)
LEMMA TipHasParent ==
  ASSUME IInv, pc = "reorganize", sbc.tip \notin Branch[sbc.inter]
  PROVE  sbc.tip \in Blocks \ {Genesis} /\ Parent(sbc.tip) = hashPrevBlock[sbc.tip]
BY NextBlockType, BranchEnds, Zenon DEF IInv, CallInv, Parent

(* The child of a block toward the end of a branch is the same for every   *)
(* block of the branch above it.                                           *)
LEMMA ChildTowardSame ==
  ASSUME NEW b \in Blocks, NEW a \in Branch[b], NEW x \in Branch[a], x # a
  PROVE  x # b /\ ChildToward(x, a) = ChildToward(x, b)
<1>1. a \in Blocks /\ Branch[a] \subseteq Branch[b] /\ x \in Branch[b]
  BY BranchTransitive, Zenon
<1>2. x # b
  BY <1>1, BranchAntisymmetric, Zenon
<1>3. /\ ChildToward(x, a) \in Branch[b] \ {Genesis} /\ hashPrevBlock[ChildToward(x, a)] = x
      /\ ChildToward(x, b) \in Branch[b] \ {Genesis} /\ hashPrevBlock[ChildToward(x, b)] = x
  BY <1>1, <1>2, ChildTowardExists, Zenon
<1> QED
  BY <1>2, <1>3, ChildUnique

(* A block on a branch is not the end of it if its child is on it. *)
LEMMA ParentIsBelow ==
  ASSUME NEW b \in Blocks, NEW x \in Branch[b] \ {Genesis}
  PROVE  hashPrevBlock[x] \in Branch[b] \ {b}
<1>1. x \in Blocks /\ hashPrevBlock[x] \in Branch[b]
  BY BranchEnds, BranchClosed DEF ParentClosed
<1> QED
  BY <1>1, RootedAssumption

(* The chain loses its last block. *)
LEMMA LinksBack ==
  ASSUME NEW c \in Blocks \ {Genesis}, NEW next \in [Blocks -> Blocks \cup {Nil}],
         Links(next, c)
  PROVE  Links([next EXCEPT ![hashPrevBlock[c]] = Nil], hashPrevBlock[c])
<1> DEFINE q == hashPrevBlock[c]
           new == [next EXCEPT ![q] = Nil]
<1>1. q \in Blocks /\ Branch[c] = {c} \cup Branch[q] /\ q \in Branch[c]
  BY BranchStep, BranchEnds
<1>2. \A b \in Blocks : new[b] = IF b = q THEN Nil ELSE next[b]
  BY <1>1, Zenon
<1> HIDE DEF q, new
<1>3. ASSUME NEW b \in Blocks
      PROVE  new[b] = IF b \in Branch[q] \ {q} THEN ChildToward(b, q) ELSE Nil
  <2>1. CASE b \in Branch[q] \ {q}
    <3>1. b # c /\ ChildToward(b, q) = ChildToward(b, c)
      BY <1>1, <2>1, ChildTowardSame, Zenon
    <3>2. next[b] = ChildToward(b, c)
      BY <1>1, <2>1, <3>1 DEF Links
    <3> QED
      BY <1>2, <2>1, <3>1, <3>2, Zenon
  <2>2. CASE b \notin Branch[q] \ {q}
    <3>1. b = q \/ next[b] = Nil
      BY <1>1, <2>2 DEF Links
    <3> QED
      BY <1>2, <2>2, <3>1
  <2> QED
    BY <2>1, <2>2, Zenon
<1>4. Links(new, q)
  BY <1>3 DEF Links
<1> QED
  BY <1>4 DEF new, q

(* The chain gains a block. *)
LEMMA LinksForward ==
  ASSUME NEW c \in Blocks \ {Genesis}, NEW next, NEW new, Links(next, hashPrevBlock[c]),
         \A b \in Blocks : new[b] = IF b = hashPrevBlock[c] THEN c ELSE next[b]
  PROVE  Links(new, c) /\ next[c] = Nil
<1> DEFINE q == hashPrevBlock[c]
<1>1. q \in Blocks /\ Branch[c] = {c} \cup Branch[q] /\ c \notin Branch[q] /\ q \in Branch[q]
  BY BranchStep, BranchEnds, RootedAssumption
<1>2. ChildToward(q, c) = c
  BY ChildTowardLast, Zenon
<1> HIDE DEF q
<1>3. ASSUME NEW b \in Blocks
      PROVE  new[b] = IF b \in Branch[c] \ {c} THEN ChildToward(b, c) ELSE Nil
  <2>1. CASE b = q
    BY <1>1, <1>2, <2>1, Zenon DEF q
  <2>2. CASE b \in Branch[q] \ {q}
    <3>1. b # c /\ ChildToward(b, q) = ChildToward(b, c)
      BY <1>1, <2>2, ChildTowardSame
    <3>2. next[b] = ChildToward(b, q)
      BY <2>2 DEF Links, q
    <3> QED
      BY <1>1, <2>2, <3>1, <3>2, Zenon DEF q
  <2>3. CASE b \notin Branch[q]
    <3>1. next[b] = Nil
      BY <2>3 DEF Links, q
    <3> QED
      BY <1>1, <2>3, <3>1 DEF q
  <2> QED
    BY <2>1, <2>2, <2>3, Zenon
<1>4. next[c] = Nil
  BY <1>1, Zenon DEF Links, q
<1> QED
  BY <1>3, <1>4 DEF Links

(***************************************************************************)
(* The two passes of Reorganize over pnext leave the pointers of the new   *)
(* chain, wherever the two branches part.                                  *)
(***************************************************************************)
LEMMA RelinkedLinks ==
  ASSUME pindexBest \in Blocks, sbc.inter \in Blocks, Links(pnext, pindexBest),
         NEW new, \A b \in Blocks : new[b] = Relinked(b)
  PROVE  Links(new, sbc.inter)
<1> DEFINE B == Branch[pindexBest]
           I == Branch[sbc.inter]
           Joins(b) == \E x \in I \ B : Parent(x) = b
           Leaves(b) == \E x \in B \ I : Parent(x) = b
<1> SUFFICES ASSUME NEW b \in Blocks
             PROVE  new[b] = IF b \in I \ {sbc.inter} THEN ChildToward(b, sbc.inter) ELSE Nil
  BY Zenon DEF Links
<1>1. new[b] = IF Joins(b) THEN ChildToward(b, sbc.inter)
               ELSE IF Leaves(b) THEN Nil ELSE pnext[b]
  BY DEF Relinked
<1>2. \A x \in B \cup I : Parent(x) = b => x # Genesis /\ hashPrevBlock[x] = b
  BY TreeAssumption, Zenon DEF Parent
<1>3. b \in I \ {sbc.inter} => /\ ChildToward(b, sbc.inter) \in I
                               /\ Parent(ChildToward(b, sbc.inter)) = b
  BY ChildTowardExists, Zenon DEF Parent
<1>4. b \in B \ {pindexBest} => /\ ChildToward(b, pindexBest) \in B
                                /\ Parent(ChildToward(b, pindexBest)) = b
  BY ChildTowardExists DEF Parent
<1>5. pnext[b] = IF b \in B \ {pindexBest} THEN ChildToward(b, pindexBest) ELSE Nil
  BY DEF Links
<1>6. ASSUME NEW x \in I, Parent(x) = b PROVE b \in I \ {sbc.inter}
  <2>1. x \in I \ {Genesis} /\ hashPrevBlock[x] = b
    BY <1>2, <1>6
  <2> QED
    BY <2>1, ParentIsBelow
<1>7. ASSUME NEW x \in B, Parent(x) = b PROVE b \in B \ {pindexBest}
  <2>1. x \in B \ {Genesis} /\ hashPrevBlock[x] = b
    BY <1>2, <1>7
  <2> QED
    BY <2>1, ParentIsBelow
<1>8. ASSUME NEW x \in B, NEW y \in B, Parent(x) = b, Parent(y) = b PROVE x = y
  <2>1. /\ x \in B \ {Genesis} /\ y \in B \ {Genesis}
        /\ hashPrevBlock[x] = hashPrevBlock[y]
    BY <1>2, <1>8, Zenon
  <2> QED
    BY <2>1, ChildUnique, Zenon
<1> HIDE DEF B, I
<1>9. CASE Joins(b)
  BY <1>1, <1>6, <1>9
<1>10. CASE ~ Joins(b) /\ Leaves(b)
  BY <1>1, <1>3, <1>8, <1>10, Zenon
<1>11. CASE ~ Joins(b) /\ ~ Leaves(b)
  <2>1. CASE b \in I \ {sbc.inter}
    <3>1. ChildToward(b, sbc.inter) \in B
      BY <1>3, <1>11, <2>1, Zenon
    <3>2. b \in B \ {pindexBest}
      BY <1>3, <1>7, <2>1, <3>1, Zenon
    <3>3. ChildToward(b, pindexBest) = ChildToward(b, sbc.inter)
      BY <1>3, <1>4, <1>8, <2>1, <3>1, <3>2, Zenon
    <3> QED
      BY <1>1, <1>5, <1>11, <2>1, <3>2, <3>3, Zenon
  <2>2. CASE b \notin I \ {sbc.inter}
    <3>1. b \notin B \ {pindexBest}
      BY <1>4, <1>6, <1>11, <2>2
    <3> QED
      BY <1>1, <1>5, <1>11, <2>2, <3>1, Zenon
  <2> QED
    BY <2>1, <2>2
<1> QED
  BY <1>9, <1>10, <1>11

(***************************************************************************)
(* The pointers on disk and in memory are those of the chain on disk, and  *)
(* the batch of a reorganisation has those of the block the reorganisation *)
(* has come to, which is never below the fork.                             *)
(***************************************************************************)
LinkInv ==
    torn = {} =>
      /\ Links(db.next, db.best)
      /\ Links(pnext, db.best)
      /\ pc = "reorganize" =>
           /\ Links(batch.next, sbc.tip)
           /\ Branch[pindexBest] \cap Branch[sbc.inter] \subseteq Branch[sbc.tip]

(* Every step keeps LinkInv. *)
LEMMA LinkStep ==
  ASSUME IInv, DurableInv, LinkInv, [Next]_vars
  PROVE  LinkInv'
<1> SUFFICES ASSUME torn' = {}
             PROVE  /\ Links(db'.next, db'.best)
                    /\ Links(pnext', db'.best)
                    /\ pc' = "reorganize" =>
                         /\ Links(batch'.next, sbc'.tip)
                         /\ Branch[pindexBest'] \cap Branch[sbc'.inter] \subseteq Branch[sbc'.tip]
  BY Zenon DEF LinkInv, Links, ChildToward
<1>1. /\ torn = {} /\ Links(db.next, db.best) /\ Links(pnext, db.best)
      /\ pc = "reorganize" =>
           /\ Links(batch.next, sbc.tip)
           /\ Branch[pindexBest] \cap Branch[sbc.inter] \subseteq Branch[sbc.tip]
  BY TornGrows, Zenon DEF LinkInv
<1>2. /\ sbc \in SbcType /\ DBTypeOK /\ pindexBest \in Blocks
      /\ pnext \in [Blocks -> Blocks \cup {Nil}]
      /\ pc = "reorganize" => batch.next \in [Blocks -> Blocks \cup {Nil}]
  BY Zenon DEF IInv, TypeOK, CallTypeOK, ChainTypeOK, BatchInv
<1>3. CASE ~ Indexing /\ ~ Restart
  <2>1. pnext' = pnext
    BY <1>3, Frames, Zenon DEF Indexing, AbortReorganize, SetBestChainInnerFails, NewBestBlock
  <2> QED
    BY <1>1, <1>3, <2>1, IndexingFrame, Zenon
<1>4. CASE Restart
  <2>1. pc' \in {"idle", "setbest"}
    BY <1>4, RestartCalls, Zenon
  <2> QED
    BY <1>1, <1>4, <2>1, RestartEffect, Zenon
<1>5. CASE SetBestChain
  <2>1. pindexBest = db.best /\ UNCHANGED <<db, pnext, pindexBest>>
    BY <1>1, <1>5 DEF SetBestChain, DurableInv
  <2>2. pc' = "reorganize" =>
          /\ batch' = [txindex |-> db.txindex, next |-> db.next]
          /\ sbc' = [sbc EXCEPT !.inter = Intermediate(sbc.new), !.tip = pindexBest,
                                !.kind = "reorganize"]
    BY <1>5 DEF SetBestChain
  <2>3. pc' = "reorganize" => batch'.next = db.next
    BY ONLY <2>2
  <2>4. pc' = "reorganize" => sbc'.tip = pindexBest
    BY <1>2, <2>2, Zenon DEF SbcType
  <2> QED
    BY <1>1, <2>1, <2>3, <2>4, Zenon
<1>6. CASE DisconnectTip
  <2>1. /\ UNCHANGED <<db, pnext, pindexBest>>
        /\ pc = "reorganize" /\ sbc.tip \notin Branch[sbc.inter]
        /\ sbc'.tip = Parent(sbc.tip) /\ sbc'.inter = sbc.inter
        /\ batch'.next = [batch.next EXCEPT ![Parent(sbc.tip)] = Nil]
    BY <1>2, <1>6, Zenon DEF DisconnectTip, SbcType
  <2>2. sbc.tip \in Blocks \ {Genesis} /\ Parent(sbc.tip) = hashPrevBlock[sbc.tip]
    BY <2>1, TipHasParent, Zenon
  <2>3. Links(batch'.next, sbc'.tip)
    <3>1. batch.next \in [Blocks -> Blocks \cup {Nil}] /\ Links(batch.next, sbc.tip)
      BY <1>1, <1>2, <2>1, Zenon
    <3>2. Links([batch.next EXCEPT ![hashPrevBlock[sbc.tip]] = Nil], hashPrevBlock[sbc.tip])
      BY <2>2, <3>1, LinksBack, Zenon
    <3> QED
      BY <2>1, <2>2, <3>2, Zenon
  <2>4. Branch[sbc.tip] = {sbc.tip} \cup Branch[sbc'.tip]
    BY <2>1, <2>2, BranchStep
  <2> QED
    BY <1>1, <2>1, <2>3, <2>4
<1>7. CASE ConnectTip
  <2> DEFINE c == NextBlock(sbc.inter)
  <2>1. /\ UNCHANGED <<db, pnext, pindexBest>>
        /\ pc = "reorganize" /\ sbc.tip \in Branch[sbc.inter] \ {sbc.inter}
        /\ sbc'.tip = c /\ sbc'.inter = sbc.inter
        /\ batch'.next = Linked(batch.next, c)
    BY <1>2, <1>7, ZenonT(30) DEF ConnectTip, SbcType
  <2>2. c \in Branch[sbc.inter] /\ c \in Blocks \ {Genesis} /\ hashPrevBlock[c] = sbc.tip
    BY <2>1, NextBlockType, BranchEnds, Zenon
  <2> HIDE DEF c
  <2>3. c \notin Branch[sbc.tip] /\ Branch[c] = {c} \cup Branch[sbc.tip]
    BY <2>2, RootedAssumption, BranchStep, Zenon
  <2>4. c \notin Branch[pindexBest] /\ pindexBest = db.best
    BY <1>1, <2>1, <2>2, <2>3 DEF DurableInv
  <2>5. pnext[c] = Nil /\ batch.next[c] = Nil
    BY <1>1, <2>1, <2>2, <2>3, <2>4, Zenon DEF Links
  <2>6. \A b \in Blocks : batch'.next[b] = IF b = sbc.tip THEN c ELSE batch.next[b]
    BY <1>2, <2>1, <2>2, <2>5, Zenon DEF Linked, Parent
  <2>7. Links(batch'.next, c)
    <3>1. /\ Links(batch.next, hashPrevBlock[c])
          /\ \A b \in Blocks : batch'.next[b] = IF b = hashPrevBlock[c] THEN c ELSE batch.next[b]
      BY <1>1, <2>1, <2>2, <2>6, Zenon
    <3> QED
      BY <2>2, <3>1, LinksForward
  <2> QED
    BY <1>1, <2>1, <2>3, <2>7
<1>8. CASE CommitReorganize
  <2>1. /\ pc = "reorganize" /\ pc' = "mempool" /\ sbc.tip = sbc.inter
        /\ db'.next = batch.next /\ db'.best = sbc.inter
        /\ pnext' = [b \in Blocks |-> Relinked(b)]
    BY <1>2, <1>8, Zenon DEF CommitReorganize, DBTypeOK
  <2>2. db.best = pindexBest
    BY <1>1, <2>1 DEF DurableInv
  <2>3. Links(pnext', sbc.inter)
    BY <1>1, <1>2, <2>1, <2>2, NextBlockType, RelinkedLinks, Zenon
  <2> QED
    BY <1>1, <2>1, <2>3, Zenon
<1>9. CASE SetBestChainInner
  <2> DEFINE c == NextBlock(sbc.new)
  <2>1. /\ pc = "inner" /\ pc' = "inner" /\ sbc.tip # sbc.new
        /\ db'.next = Linked(db.next, c) /\ db'.best = c
        /\ pnext' = [pnext EXCEPT ![sbc.tip] = c]
    BY <1>2, <1>9, Zenon DEF SetBestChainInner, DBTypeOK
  <2>2. db.best = sbc.tip
    BY <1>1, <2>1 DEF DurableInv
  <2>3. c \in Blocks \ {Genesis} /\ hashPrevBlock[c] = sbc.tip
    BY <2>1, NextBlockType, BranchEnds, Zenon DEF Calling
  <2> HIDE DEF c
  <2>4. Links(pnext', c) /\ pnext[c] = Nil
    <3>1. \A b \in Blocks : pnext'[b] = IF b = sbc.tip THEN c ELSE pnext[b]
      BY <1>2, <2>1, Zenon
    <3>2. /\ Links(pnext, hashPrevBlock[c])
          /\ \A b \in Blocks : pnext'[b] = IF b = hashPrevBlock[c] THEN c ELSE pnext[b]
      BY <1>1, <2>2, <2>3, <3>1, Zenon
    <3> QED
      BY <2>3, <3>2, LinksForward
  <2>5. Links(db'.next, c)
    <3>1. db.next[c] = Nil
      BY <1>1, <2>2, <2>3, RootedAssumption DEF Links
    <3>2. \A b \in Blocks : db'.next[b] = IF b = sbc.tip THEN c ELSE db.next[b]
      BY <1>2, <2>1, <2>3, <2>4, <3>1 DEF Linked, Parent, DBTypeOK
    <3>3. Links(db.next, hashPrevBlock[c])
      BY <1>1, <2>2, <2>3, Zenon
    <3>4. \A b \in Blocks : db'.next[b] = IF b = hashPrevBlock[c] THEN c ELSE db.next[b]
      BY <2>3, <3>2
    <3> QED
      BY <2>3, <3>3, <3>4, LinksForward
  <2> QED
    BY <2>1, <2>4, <2>5
<1> QED
  BY <1>3, <1>4, <1>5, <1>6, <1>7, <1>8, <1>9, Zenon DEF Indexing

(* LinkInv holds in every reachable state. *)
LEMMA Linking == Spec => []LinkInv
<1>1. Init => LinkInv
  <2> SUFFICES ASSUME Init PROVE LinkInv
    OBVIOUS
  <2> DEFINE none == [b \in Blocks |-> Nil]
  <2>1. db.next = none /\ pnext = none /\ db.best = Genesis /\ pc = "idle"
    BY DEF Init
  <2>2. Links(none, Genesis)
    BY BranchGenesis DEF Links
  <2> QED
    BY <2>1, <2>2, Zenon DEF LinkInv
<1> QED
  BY <1>1, LinkStep, Durable, Invariance, PTL DEF Spec

(* Reorganize, SetBestChainInner: the pnext pointers, on disk at any time  *)
(* and in memory between handlers, lead along the best chain and nowhere   *)
(* else, so that IsInMainChain is right.                                   *)
THEOREM PointersFollowBest == Spec => []NextPointers
<1>1. DurableInv /\ LinkInv => NextPointers
  BY Zenon DEF DurableInv, LinkInv, NextPointers
<1> QED
  BY <1>1, Linking, Durable, PTL

-----------------------------------------------------------------------------
(*                  The best chain and the sync-checkpoint                 *)

(* A chain agrees with the checkpoint: it holds it, or a restart has moved *)
(* it back to below the checkpoint.                                        *)
Agrees(b) == \/ hashSyncCheckpoint \in Branch[b]
             \/ restarts > 0 /\ b \in Branch[hashSyncCheckpoint]

(* With the strict policy the best chain agrees with the checkpoint, and   *)
(* so does every chain that SetBestChain is called for; what becomes the   *)
(* checkpoint is on the best chain.                                        *)
CheckpointInv ==
    CheckpointsMode = "strict" /\ torn = {} =>
      /\ Agrees(pindexBest)
      /\ Calling => Agrees(sbc.new)
      /\ pc = "succeeded" => pindexBest = sbc.new
      /\ pc = "writesync" => sbc.new \in Branch[pindexBest]

(* The steps that change a checkpoint, the best block in memory, or what   *)
(* SetBestChain is called for.                                             *)
Checkpointing ==
    \/ AcceptBlock \/ SetBestChainInnerFails \/ NewBestBlock
    \/ AcceptPendingSyncCheckpoint \/ SyncCheckpointOnMainChain \/ WriteSyncCheckpoint
    \/ Restart \/ \E c \in SyncCheckpoints : ProcessSyncCheckpoint(c)

LEMMA CheckpointingFrame ==
  ASSUME IInv, [Next]_vars, ~ Checkpointing
  PROVE  /\ UNCHANGED <<hashSyncCheckpoint, pindexBest, restarts>>
         /\ \/ ~ Calling'
            \/ UNCHANGED pc /\ sbc'.new = sbc.new
            \/ /\ Calling /\ pc' \notin {"succeeded", "writesync"}
               /\ sbc'.new = sbc.new
<1>1. UNCHANGED <<hashSyncCheckpoint, pindexBest, restarts>>
  BY Frames, Zenon DEF Checkpointing, CommitReorganize, AbortReorganize, SetBestChainInner,
                DropPendingSyncCheckpoint, SyncCheckpointFails, RejectBlock
<1>2. sbc \in SbcType
  BY DEF IInv, TypeOK, CallTypeOK
<1>3. CASE SetBestChain \/ DisconnectTip \/ ConnectTip \/ SetBestChainInner
  <2>1. sbc'.new = sbc.new
    BY <1>2, <1>3, Zenon DEF SetBestChain, DisconnectTip, ConnectTip, SetBestChainInner, SbcType
  <2>2. Calling /\ pc' \notin {"succeeded", "writesync"}
    BY <1>3 DEF SetBestChain, DisconnectTip, ConnectTip, SetBestChainInner, Calling
  <2> QED
    BY <1>1, <2>1, <2>2
<1>4. CASE ~ (SetBestChain \/ DisconnectTip \/ ConnectTip \/ SetBestChainInner)
  <2>1. \/ ~ Calling'
        \/ UNCHANGED pc /\ sbc'.new = sbc.new
        \/ /\ Calling /\ pc' \notin {"succeeded", "writesync"}
           /\ sbc'.new = sbc.new
    BY <1>4, Zenon
       DEF Checkpointing, Next, Request, Handler, vars, ProcessOrphanBlock, ProcessBlock,
           AcceptToMemoryPool, RejectBlock, TryOrphan, NextParent, CommitReorganize,
           AbortReorganize, Resurrect, Delete, ReorganizeDone,
           AddToBlockIndexReturns, NoPendingSyncCheckpoint,
           DropPendingSyncCheckpoint, SyncCheckpointFails, LoadBlockIndexReturns,
           AcceptBlockReturns, CheckpointReturns, Calling
  <2> QED
    BY <1>1, <2>1, Zenon
<1> QED
  BY <1>3, <1>4, Zenon

(* CheckSync: a block that the strict policy accepts descends from the     *)
(* checkpoint.                                                             *)
LEMMA CheckSyncHolds ==
  ASSUME IInv, FreshInv, AcceptBlock, CheckpointsMode = "strict"
  PROVE  hashSyncCheckpoint \in Branch[pblock]
<1> DEFINE s == hashSyncCheckpoint
           q == hashPrevBlock[pblock]
<1>1. pc = "accept" /\ CheckSync(pblock) /\ pblock \notin mapBlockIndex
  BY Zenon DEF AcceptBlock, AcceptBlockOK, FreshInv
<1>2. pblock \in Blocks \ {Genesis} /\ s \in Blocks
  BY <1>1, Zenon DEF IInv, CallInv, Accepting, TypeOK, CheckpointTypeOK
<1>3. q \in Blocks /\ Branch[pblock] = {pblock} \cup Branch[q]
  BY <1>2, BranchStep, Zenon
<1>4. nHeight[q] \in Int /\ nHeight[s] \in Int
  BY <1>2, <1>3, HeightType, Zenon
<1>5. s \in Branch[q] \/ pblock = s
  BY <1>1, <1>4 DEF CheckSync
<1> QED
  BY <1>3, <1>5

(* The main chain on disk is comparable with the checkpoint at all times,  *)
(* also between the commits of SetBestChain.                               *)
LEMMA DiskAgrees ==
  ASSUME IInv, DurableInv, CheckpointInv, CheckpointsMode = "strict", torn = {}
  PROVE  \/ hashSyncCheckpoint \in Branch[db.best]
         \/ db.best \in Branch[hashSyncCheckpoint]
<1>1. hashSyncCheckpoint \in Blocks /\ pindexBest \in Blocks
  BY DEF IInv, TypeOK, CheckpointTypeOK, ChainTypeOK
<1>2. CASE pc \notin {"mempool", "inner"}
  BY <1>2, Zenon DEF CheckpointInv, DurableInv, Agrees
<1>3. CASE pc \in {"mempool", "inner"}
  <2>1. db.best \in Branch[sbc.new] /\ sbc.new \in Blocks
    BY <1>3, NextBlockType, Zenon DEF DurableInv, IInv, CallInv, Calling
  <2>2. Agrees(sbc.new)
    BY <1>3 DEF CheckpointInv, Calling
  <2>3. CASE hashSyncCheckpoint \in Branch[sbc.new]
    BY <2>1, <2>3, BranchLinear, Zenon
  <2>4. CASE sbc.new \in Branch[hashSyncCheckpoint]
    BY <1>1, <2>1, <2>4, BranchTransitive
  <2> QED
    BY <2>2, <2>3, <2>4 DEF Agrees
<1> QED
  BY <1>2, <1>3

(* Every step keeps CheckpointInv. *)
LEMMA CheckpointStep ==
  ASSUME IInv, DurableInv, LinkInv, FreshInv, CheckpointInv, [Next]_vars
  PROVE  CheckpointInv'
<1> DEFINE Agreed(s, r, b) == s \in Branch[b] \/ (r > 0 /\ b \in Branch[s])
<1> SUFFICES ASSUME CheckpointsMode = "strict", torn' = {}
             PROVE  /\ Agreed(hashSyncCheckpoint', restarts', pindexBest')
                    /\ Calling' => Agreed(hashSyncCheckpoint', restarts', sbc'.new)
                    /\ pc' = "succeeded" => pindexBest' = sbc'.new
                    /\ pc' = "writesync" => sbc'.new \in Branch[pindexBest']
  BY Zenon DEF CheckpointInv, Agrees
<1>1. /\ torn = {} /\ Agreed(hashSyncCheckpoint, restarts, pindexBest)
      /\ Calling => Agreed(hashSyncCheckpoint, restarts, sbc.new)
      /\ pc = "succeeded" => pindexBest = sbc.new
      /\ pc = "writesync" => sbc.new \in Branch[pindexBest]
  <2>1. torn = {}
    BY TornGrows
  <2> QED
    BY <2>1 DEF CheckpointInv, Agrees
<1>2. hashSyncCheckpoint \in Blocks /\ pindexBest \in Blocks /\ restarts \in Nat
  BY NodeAssumption DEF IInv, TypeOK, CheckpointTypeOK, ChainTypeOK, HistoryTypeOK
<1>3. CASE ~ Checkpointing
  <2> HIDE DEF Agreed
  <2> QED
    BY <1>1, <1>3, CheckpointingFrame, Zenon DEF Calling
<1>4. CASE AcceptBlock
  <2>1. hashSyncCheckpoint \in Branch[pblock]
    BY <1>4, CheckSyncHolds
  <2>2. /\ UNCHANGED <<hashSyncCheckpoint, restarts, pindexBest>>
        /\ \/ pc' = "setbest" /\ sbc'.new = pblock
           \/ pc' = "accepted"
    BY <1>4, Zenon DEF AcceptBlock, NoCall
  <2> QED
    BY <1>1, <2>1, <2>2, Zenon DEF Calling
<1>5. CASE SetBestChainInnerFails
  <2>1. /\ Calling /\ pc' = "failed"
        /\ UNCHANGED <<hashSyncCheckpoint, restarts, pindexBest, sbc>>
    BY <1>5 DEF SetBestChainInnerFails, Calling
  <2> QED
    BY <1>1, <2>1, Zenon
<1>6. CASE NewBestBlock
  <2>1. /\ Calling /\ pc' = "succeeded" /\ pindexBest' = sbc.new
        /\ UNCHANGED <<hashSyncCheckpoint, restarts, sbc>>
    BY <1>6, Zenon DEF NewBestBlock, Calling
  <2> QED
    BY <1>1, <2>1, ZenonT(30)
<1>7. ASSUME NEW c \in Blocks, NEW caller, EnforceSyncCheckpoint(caller, c),
             UNCHANGED <<hashSyncCheckpoint, restarts, pindexBest>>,
             pc \in {"idle", "accepted"}
      PROVE  /\ Agreed(hashSyncCheckpoint', restarts', pindexBest')
             /\ Calling' => Agreed(hashSyncCheckpoint', restarts', sbc'.new)
             /\ pc' = "succeeded" => pindexBest' = sbc'.new
             /\ pc' = "writesync" => sbc'.new \in Branch[pindexBest']
  <2>1. /\ sbc'.new = c /\ hashSyncCheckpoint \in Branch[c]
        /\ pc' = IF IsInMainChain(c) THEN "writesync" ELSE "setbest"
    BY <1>7 DEF EnforceSyncCheckpoint, ValidateSyncCheckpoint, NoCall
  <2>2. Links(pnext, pindexBest)
    BY <1>1, <1>7, Zenon DEF LinkInv, DurableInv
  <2>3. IsInMainChain(c) => c \in Branch[pindexBest]
    BY <1>2, <2>2, BranchEnds DEF IsInMainChain, Links
  <2> QED
    BY <1>1, <1>7, <2>1, <2>3, Zenon
<1>8. CASE AcceptPendingSyncCheckpoint
  <2>1. hashPendingCheckpoint \in Blocks
    BY <1>8, Zenon DEF AcceptPendingSyncCheckpoint, PendingIndexed, IInv, TypeOK, ChainTypeOK
  <2>2. /\ pc = "accepted" /\ UNCHANGED <<hashSyncCheckpoint, restarts, pindexBest>>
        /\ EnforceSyncCheckpoint("AcceptPendingSyncCheckpoint", hashPendingCheckpoint)
    BY <1>8 DEF AcceptPendingSyncCheckpoint
  <2> HIDE DEF Agreed
  <2> QED
    BY <1>7, <2>1, <2>2, Zenon
<1>9. CASE \E c \in SyncCheckpoints : ProcessSyncCheckpoint(c)
  <2>1. PICK c \in SyncCheckpoints : ProcessSyncCheckpoint(c)
    BY <1>9
  <2>2. /\ c \in Blocks /\ pc = "idle"
        /\ UNCHANGED <<hashSyncCheckpoint, restarts, pindexBest>>
        /\ UNCHANGED pc \/ EnforceSyncCheckpoint("ProcessSyncCheckpoint", c)
    BY <2>1, NodeAssumption DEF ProcessSyncCheckpoint
  <2>3. CASE EnforceSyncCheckpoint("ProcessSyncCheckpoint", c)
    <3> HIDE DEF Agreed
    <3> QED
      BY <1>7, <2>2, <2>3, Zenon
  <2>4. CASE UNCHANGED pc
    BY <1>1, <2>2, <2>4, Zenon DEF Calling
  <2> QED
    BY <2>2, <2>3, <2>4, Zenon
<1>10. CASE SyncCheckpointOnMainChain
  <2>1. /\ pc = "succeeded" /\ pc' = "writesync"
        /\ UNCHANGED <<hashSyncCheckpoint, restarts, pindexBest, sbc>>
    BY <1>10 DEF SyncCheckpointOnMainChain
  <2>2. pindexBest \in Branch[pindexBest]
    BY <1>2, BranchEnds, Zenon
  <2> QED
    BY <1>1, <2>1, <2>2, Zenon DEF Calling
<1>11. CASE WriteSyncCheckpoint
  <2>1. /\ pc = "writesync" /\ UNCHANGED <<restarts, pindexBest>>
        /\ hashSyncCheckpoint' \in {sbc.new, hashSyncCheckpoint}
    BY <1>11 DEF WriteSyncCheckpoint
  <2>2. pc' \in {"idle", "work"}
    BY <1>11 DEF WriteSyncCheckpoint, CheckpointReturns, AcceptBlockReturns
  <2> QED
    BY <1>1, <2>1, <2>2 DEF Calling
<1>12. CASE Restart
  <2>1. /\ restarts' > 0 /\ pindexBest' = db.best
        /\ hashSyncCheckpoint' = hashSyncCheckpoint
    BY <1>2, <1>12, RestartEffect DEF IInv, IndexInv
  <2>2. db.best \in Blocks
    BY Zenon DEF IInv, TypeOK, DBTypeOK
  <2>3. \/ hashSyncCheckpoint \in Branch[db.best]
        \/ db.best \in Branch[hashSyncCheckpoint]
    BY <1>1, DiskAgrees, Zenon
  <2>4. ASSUME NEW a \in Branch[db.best]
        PROVE  hashSyncCheckpoint \in Branch[a] \/ a \in Branch[hashSyncCheckpoint]
    BY <1>2, <2>2, <2>3, BranchLinear, BranchTransitive
  <2>5. \/ pc' = "idle"
        \/ \E a \in Branch[db.best] : pc' = "setbest" /\ sbc'.new = a
    <3>1. \A x \in Connected(db.best) : hashPrevBlock[x] \in Branch[db.best]
      BY <2>2, BranchClosed DEF Connected, ParentClosed
    <3> QED
      BY <1>12, <3>1, RestartCalls, ZenonT(30) DEF NoCall
  <2> QED
    BY <2>1, <2>3, <2>4, <2>5, Zenon DEF Calling
<1> HIDE DEF Agreed
<1> QED
  BY <1>3, <1>4, <1>5, <1>6, <1>8, <1>9, <1>10, <1>11, <1>12, Zenon DEF Checkpointing

(* With the strict policy the best chain always holds the sync-checkpoint. *)
(* Only a restart that moves the chain back may leave it for a block below *)
(* the checkpoint, never for another branch; so CheckSync, the enforcement *)
(* of checkpoints and the restart never work against each other.           *)
THEOREM CheckpointHolds == Spec => []CheckpointRespected
<1>1. Init => CheckpointInv
  <2> SUFFICES ASSUME Init PROVE CheckpointInv
    OBVIOUS
  <2>1. Genesis \in Branch[Genesis]
    BY TreeAssumption, BranchEnds
  <2> QED
    BY <2>1, Zenon DEF Init, CheckpointInv, Agrees, Calling
<1>2. CheckpointInv => CheckpointRespected
  BY DEF CheckpointInv, Agrees, CheckpointRespected
<1> QED
  BY <1>1, <1>2, CheckpointStep, Fresh, Linking, Durable, Invariance, PTL DEF Spec

-----------------------------------------------------------------------------
(*                          Trust of the best chain                        *)

(* AddToBlockIndex calls SetBestChain for a chain of more trust, and the   *)
(* block where SetBestChain ends a reorganisation has more trust already.  *)
TrustInv ==
    sbc.caller = "AddToBlockIndex" =>
      /\ pc = "setbest" => nChainTrust[sbc.new] > nChainTrust[pindexBest]
      /\ pc = "reorganize" => nChainTrust[sbc.inter] > nChainTrust[pindexBest]

(* The postponed blocks do not include what makes the branch the best. *)
LEMMA IntermediateTrust ==
  ASSUME NEW b \in Blocks, pindexBest \in Blocks,
         nChainTrust[b] > nChainTrust[pindexBest]
  PROVE  nChainTrust[Intermediate(b)] > nChainTrust[pindexBest]
<1> DEFINE P(x) == x = b \/ \E y \in Secondary(b) : hashPrevBlock[y] = x
<1>1. \A x : P(x) => nChainTrust[x] > nChainTrust[pindexBest]
  BY DEF Secondary
<1>2. \E x \in Branch[b] \ Secondary(b) : P(x)
  BY IntermediateFound
<1>3. P(Intermediate(b))
  BY <1>2 DEF Intermediate
<1> QED
  BY <1>1, <1>3, Zenon

(* Every step keeps TrustInv. *)
LEMMA TrustStep ==
  ASSUME IInv, TrustInv, [Next]_vars
  PROVE  TrustInv'
<1> USE DEF TrustInv
<1>1. /\ sbc \in SbcType /\ pindexBest \in Blocks
      /\ Calling => sbc.new \in Blocks
  BY NextBlockType, Zenon DEF IInv, TypeOK, CallTypeOK, ChainTypeOK
<1>2. CASE AcceptBlock
  BY <1>1, <1>2, Zenon DEF AcceptBlock, NoCall
<1>3. CASE SetBestChain
  BY <1>1, <1>3, IntermediateTrust, Zenon DEF SetBestChain, SbcType, Calling
<1>4. CASE pc' \notin {"setbest", "reorganize"}
  BY <1>4
<1>5. CASE sbc'.caller # "AddToBlockIndex"
  BY <1>5, Zenon
<1>6. \/ AcceptBlock \/ SetBestChain \/ DisconnectTip \/ ConnectTip
      \/ pc' \notin {"setbest", "reorganize"}
      \/ sbc'.caller # "AddToBlockIndex"
      \/ UNCHANGED <<pc, sbc, pindexBest>>
  BY RestartCalls, Zenon
     DEF Next, Request, Handler, vars, ProcessOrphanBlock, ProcessBlock,
         ProcessSyncCheckpoint, AcceptToMemoryPool, RejectBlock,
         TryOrphan, NextParent,
         CommitReorganize, AbortReorganize, Resurrect, Delete, ReorganizeDone,
         SetBestChainInner, SetBestChainInnerFails, NewBestBlock,
         AddToBlockIndexReturns, NoPendingSyncCheckpoint,
         DropPendingSyncCheckpoint, AcceptPendingSyncCheckpoint,
         SyncCheckpointOnMainChain, SyncCheckpointFails, WriteSyncCheckpoint,
         LoadBlockIndexReturns, AcceptBlockReturns, CheckpointReturns,
         EnforceSyncCheckpoint, NoCall
<1>7. CASE DisconnectTip \/ ConnectTip
  BY <1>1, <1>7 DEF DisconnectTip, ConnectTip, SbcType
<1> QED
  BY <1>2, <1>3, <1>4, <1>5, <1>6, <1>7, Zenon

(* TrustInv holds in every reachable state. *)
LEMMA Trusted == Spec => []TrustInv
<1>1. Init => TrustInv
  BY Zenon DEF Init, TrustInv, NoCall
<1> QED
  BY <1>1, TrustStep, Invariance, PTL DEF Spec

(* AddToBlockIndex, SetBestChain: a block that is received never moves the *)
(* main chain on disk to less trust, not even for the time between the     *)
(* commits of a long reorganisation.                                       *)
THEOREM TrustNeverFalls == Spec => TrustGrows
<1>1. ASSUME IInv, DurableInv, TrustInv, [Next]_vars,
             sbc.caller = "AddToBlockIndex", torn = {}
      PROVE  nChainTrust[db'.best] >= nChainTrust[db.best]
  <2>1. DBTypeOK /\ db.best \in Blocks /\ nChainTrust[db.best] \in Nat
    BY <1>1, TrustAssumption DEF IInv, TypeOK, DBTypeOK
  <2>2. CASE db'.best = db.best
    BY <2>1, <2>2
  <2>3. CASE CommitReorganize
    <3>1. db.best = pindexBest /\ db'.best = sbc.inter
      BY <1>1, <2>1, <2>3 DEF CommitReorganize, DurableInv, DBTypeOK
    <3>2. nChainTrust[sbc.inter] > nChainTrust[pindexBest]
      BY <1>1, <2>3 DEF CommitReorganize, TrustInv
    <3>3. sbc.inter \in Blocks
      BY <1>1, <2>3, NextBlockType DEF CommitReorganize
    <3>4. nChainTrust[sbc.inter] \in Nat
      BY <3>3, TrustAssumption, Zenon
    <3> QED
      BY ONLY <2>1, <3>1, <3>2, <3>4
  <2>4. CASE SetBestChainInner
    <3>1. db.best = sbc.tip /\ db'.best = NextBlock(sbc.new)
      BY <1>1, <2>1, <2>4 DEF SetBestChainInner, DurableInv, DBTypeOK
    <3>2. /\ NextBlock(sbc.new) \in Blocks \ {Genesis}
          /\ hashPrevBlock[NextBlock(sbc.new)] = sbc.tip
      BY <1>1, <2>4, NextBlockType DEF SetBestChainInner, Calling
    <3> QED
      BY <2>1, <3>1, <3>2, TrustAssumption, TreeAssumption
  <2> QED
    BY <1>1, <2>1, <2>2, <2>3, <2>4, Frames, Zenon DEF AcceptBlock, WriteSyncCheckpoint, DBTypeOK
<1>2. IInv /\ DurableInv /\ TrustInv /\ [Next]_vars =>
        [sbc.caller = "AddToBlockIndex" /\ torn = {} =>
           nChainTrust[db'.best] >= nChainTrust[db.best]]_vars
  BY <1>1
<1> QED
  BY <1>2, Invariance, Durable, Trusted, PTL DEF Spec, TrustGrows
=============================================================================
