------------------------- MODULE ChainLedger_proofs -------------------------
(***************************************************************************)
(* What the database of a node says of the main chain, and what its pool   *)
(* holds beside it: theorems about BlockChain that rest on the transaction *)
(* index, and the refinement of Ledger.                                    *)
(***************************************************************************)
EXTENDS ChainLedger, BlockChain_proofs

USE DEF indexVars, chainVars, orphanVars, checkpointVars, poolVars, callVars,
        historyVars

-----------------------------------------------------------------------------
(*                    The transaction index and the best block             *)

(***************************************************************************)
(* The index on disk is the one of the chain that ends in the best block   *)
(* on disk, and this chain is valid; the batch of a reorganisation is the  *)
(* same for the block the reorganisation has come to.                      *)
(***************************************************************************)
LedgerInv ==
    torn = {} =>
      /\ db.txindex = TxIndexOf(db.best) /\ ValidBranch(db.best)
      /\ pc = "reorganize" => batch.txindex = TxIndexOf(sbc.tip) /\ ValidBranch(sbc.tip)

(* The first start satisfies it: the genesis block is not indexed. *)
LEMMA InitLedger == Init => LedgerInv
<1>1. TxsOfBranch(Genesis) = {}
  BY ValidGenesis DEF TxsOfBranch
<1>2. TxIndexOf(Genesis) = <<>>
  <2>1. TxIndexOf(Genesis) \in [{} -> {}]
    BY <1>1, IndexForm, Zenon
  <2> QED
    BY <2>1
<1> QED
  BY <1>2, ValidGenesis DEF Init, LedgerInv

(* Every step keeps LedgerInv. *)
LEMMA LedgerStep ==
  ASSUME IInv, DurableInv, LedgerInv, [Next]_vars
  PROVE  LedgerInv'
<1> SUFFICES ASSUME torn' = {}
             PROVE  /\ db'.txindex = TxIndexOf(db'.best) /\ ValidBranch(db'.best)
                    /\ pc' = "reorganize" => /\ batch'.txindex = TxIndexOf(sbc'.tip)
                                             /\ ValidBranch(sbc'.tip)
  BY Zenon DEF LedgerInv, ValidBranch, TxIndexOf, Connected, TxsOfBranch
<1>1. /\ torn = {} /\ sbc \in SbcType /\ DBTypeOK
      /\ db.txindex = TxIndexOf(db.best) /\ ValidBranch(db.best)
      /\ pc = "reorganize" => batch.txindex = TxIndexOf(sbc.tip) /\ ValidBranch(sbc.tip)
  BY TornGrows DEF LedgerInv, IInv, TypeOK, CallTypeOK
<1>2. CASE ~ Indexing
  BY <1>1, <1>2, IndexingFrame
<1>3. CASE SetBestChain
  <2>1. pindexBest = db.best /\ db' = db
    BY <1>1, <1>3 DEF SetBestChain, DurableInv
  <2>2. pc' = "reorganize" =>
          /\ batch' = [txindex |-> db.txindex, next |-> db.next]
          /\ sbc' = [sbc EXCEPT !.inter = Intermediate(sbc.new), !.tip = pindexBest,
                                !.kind = "reorganize"]
    BY <1>3 DEF SetBestChain
  <2>3. pc' = "reorganize" => batch'.txindex = db.txindex
    BY ONLY <2>2
  <2>4. sbc \in SbcType
    BY <1>1
  <2>5. pc' = "reorganize" => sbc'.tip = pindexBest
    BY ONLY <2>2, <2>4, Zenon DEF SbcType
  <2> QED
    BY <1>1, <2>1, <2>3, <2>5
<1>4. CASE DisconnectTip
  <2>1. /\ db' = db /\ sbc'.tip = Parent(sbc.tip)
        /\ batch'.txindex = DisconnectBlock(batch.txindex, sbc.tip)
        /\ pc = "reorganize" /\ sbc.tip \notin Branch[sbc.inter]
    BY <1>1, <1>4 DEF DisconnectTip, SbcType
  <2> QED
    BY <1>1, <2>1, TipHasParent, DisconnectBlockIndex
<1>5. CASE ConnectTip
  <2> DEFINE c == NextBlock(sbc.inter)
  <2>1. /\ db' = db /\ sbc'.tip = c
        /\ batch'.txindex = ConnectBlock(batch.txindex, c)
        /\ ConnectBlockOK(batch.txindex, c)
        /\ pc = "reorganize" /\ sbc.tip \in Branch[sbc.inter] \ {sbc.inter}
    BY <1>1, <1>5 DEF ConnectTip, SbcType
  <2>2. c \in Blocks \ {Genesis} /\ hashPrevBlock[c] = sbc.tip
    BY <2>1, NextBlockType, BranchEnds
  <2> HIDE DEF c
  <2> QED
    BY <1>1, <2>1, <2>2, ConnectBlockIndex
<1>6. CASE CommitReorganize
  BY <1>1, <1>6 DEF CommitReorganize, DBTypeOK
<1>7. CASE SetBestChainInner
  <2> DEFINE c == NextBlock(sbc.new)
  <2>1. /\ db'.best = c /\ db'.txindex = ConnectBlock(db.txindex, c)
        /\ ConnectBlockOK(db.txindex, c)
        /\ pc = "inner" /\ pc' = "inner" /\ sbc.tip # sbc.new
    BY <1>1, <1>7 DEF SetBestChainInner, DBTypeOK
  <2>2. db.best = sbc.tip
    BY <1>1, <2>1 DEF DurableInv
  <2>3. c \in Blocks \ {Genesis} /\ hashPrevBlock[c] = sbc.tip
    BY <2>1, NextBlockType, BranchEnds DEF Calling
  <2> HIDE DEF c
  <2> QED
    BY <1>1, <2>1, <2>2, <2>3, ConnectBlockIndex
<1> QED
  BY <1>2, <1>3, <1>4, <1>5, <1>6, <1>7 DEF Indexing

(* LedgerInv holds in every reachable state. *)
LEMMA LedgerHolds == Spec => []LedgerInv
BY InitLedger, LedgerStep, Invariance, Durable, PTL DEF Spec

(* ConnectBlock, DisconnectBlock: whatever reorganisations, aborts, disk   *)
(* errors and crashes came before, the transaction index is the one that   *)
(* connecting the blocks of the main chain in order would build.           *)
THEOREM LedgerStaysExact == Spec => []LedgerMatchesBest
<1>1. LedgerInv => LedgerMatchesBest
  BY DEF LedgerInv, LedgerMatchesBest
<1> QED
  BY <1>1, LedgerHolds, PTL

(* ConnectBlock: every block of the main chain on disk was connected to    *)
(* the ledger its parent leaves, and passed all the tests against it.      *)
THEOREM MainChainStaysValid == Spec => []MainChainValid
<1>1. LedgerInv => MainChainValid
  BY DEF LedgerInv, MainChainValid
<1> QED
  BY <1>1, LedgerHolds, PTL

-----------------------------------------------------------------------------
(*                        Chains that do not connect                       *)

(* The index in memory only grows: a restart finds all of it on disk. *)
LEMMA IndexGrows ==
  ASSUME IInv, [Next]_vars
  PROVE  mapBlockIndex \subseteq mapBlockIndex'
<1>1. CASE Restart
  BY <1>1, RestartEffect DEF IInv, IndexInv
<1>2. CASE AcceptBlock
  BY <1>2 DEF AcceptBlock
<1> QED
  BY <1>1, <1>2, Frames

(* Disk errors are counted. *)
LEMMA FaultsGrow ==
  ASSUME IInv, [Next]_vars, faults' = 0
  PROVE  faults = 0 /\ faults' # faults + 1
<1>1. faults \in Nat
  BY NodeAssumption DEF IInv, TypeOK, HistoryTypeOK
<1>2. faults' \in {faults, faults + 1}
  BY Frames, Zenon DEF RejectBlock, AbortReorganize, SetBestChainInnerFails, SyncCheckpointFails,
                WriteSyncCheckpoint, Restart
<1> QED
  BY <1>1, <1>2

(* A reorganisation that no disk error stops, stops because the chain it   *)
(* is to adopt is invalid.                                                 *)
LEMMA AbortedIsInvalid ==
  ASSUME IInv, LedgerInv, torn = {}, AbortReorganize, faults' = 0
  PROVE  ~ ValidBranch(sbc.new) /\ sbc.new \in mapBlockIndex
<1>1. faults \in Nat
  BY NodeAssumption DEF IInv, TypeOK, HistoryTypeOK
<1>2. /\ pc = "reorganize" /\ ReorganizeBlocked
      /\ batch.txindex = TxIndexOf(sbc.tip) /\ ValidBranch(sbc.tip)
  BY <1>1 DEF AbortReorganize, LedgerInv
<1>3. sbc.new \in Blocks /\ sbc.new \in mapBlockIndex
  BY <1>2, NextBlockType DEF IInv, CallInv, Calling
<1>4. sbc.tip \in Branch[sbc.inter] \ {sbc.inter}
  BY <1>2, TipHasParent, DisconnectBlockIndex DEF ReorganizeBlocked
<1> DEFINE c == NextBlock(sbc.inter)
<1>5. ~ ConnectBlockOK(TxIndexOf(sbc.tip), c)
  BY <1>2, <1>4 DEF ReorganizeBlocked
<1>6. c \in Branch[sbc.new] /\ c \in Blocks \ {Genesis} /\ hashPrevBlock[c] = sbc.tip
  BY <1>2, <1>4, NextBlockType DEF Calling
<1> HIDE DEF c
<1> QED
  BY <1>3, <1>5, <1>6, ValidAncestor, ValidStep

(* So does a block that does not connect by itself. *)
LEMMA RefusedIsInvalid ==
  ASSUME IInv, DurableInv, LedgerInv, torn = {}, pc = "inner", sbc.tip # sbc.new,
         ~ ConnectBlockOK(db.txindex, NextBlock(sbc.new))
  PROVE  /\ NextBlock(sbc.new) \in mapBlockIndex
         /\ ~ ValidBranch(NextBlock(sbc.new)) /\ ~ ValidBranch(sbc.new)
<1> DEFINE c == NextBlock(sbc.new)
<1>1. db.txindex = TxIndexOf(sbc.tip)
  BY DEF LedgerInv, DurableInv
<1>2. /\ sbc.new \in Blocks /\ c \in Branch[sbc.new] /\ c \in Blocks \ {Genesis}
      /\ hashPrevBlock[c] = sbc.tip
  BY NextBlockType DEF Calling
<1>3. c \in mapBlockIndex
  BY <1>2, BranchIndexed DEF Calling
<1>4. ~ ConnectBlockOK(TxIndexOf(sbc.tip), c)
  BY <1>1
<1> HIDE DEF c
<1>5. ~ ValidBranch(c)
  BY <1>2, <1>4, ValidStep
<1>6. ~ ValidBranch(sbc.new)
  BY <1>2, <1>5, ValidAncestor
<1> QED
  BY <1>3, <1>5, <1>6 DEF c

(* When SetBestChain fails, the chain it was called for is invalid. *)
FailInv == pc = "failed" /\ faults = 0 /\ torn = {} => ~ ValidBranch(sbc.new)

LEMMA FailStep ==
  ASSUME IInv, DurableInv, LedgerInv, FailInv, [Next]_vars
  PROVE  FailInv'
<1> SUFFICES ASSUME pc' = "failed", faults' = 0, torn' = {}
             PROVE  ~ ValidBranch(sbc'.new)
  BY DEF FailInv, ValidBranch, Connected
<1>1. torn = {} /\ faults = 0
  BY TornGrows, FaultsGrow
<1>2. CASE AbortReorganize
  BY <1>1, <1>2, AbortedIsInvalid DEF AbortReorganize
<1>3. CASE SetBestChainInnerFails
  <2>1. /\ pc = "inner" /\ sbc.tip # sbc.new /\ sbc' = sbc
        /\ ~ ConnectBlockOK(db.txindex, NextBlock(sbc.new)) \/ faults' = faults + 1
    BY <1>3, Zenon DEF SetBestChainInnerFails
  <2> QED
    BY <1>1, <2>1, FaultsGrow, RefusedIsInvalid, Zenon
<1>4. \/ AbortReorganize \/ SetBestChainInnerFails
      \/ pc = "failed" /\ sbc' = sbc
  BY RestartCalls, Zenon
     DEF Next, Request, Handler, vars, ProcessOrphanBlock, ProcessBlock,
         ProcessSyncCheckpoint, AcceptToMemoryPool, AcceptBlock, RejectBlock,
         TryOrphan, NextParent, SetBestChain, DisconnectTip, ConnectTip,
         CommitReorganize, Resurrect, Delete,
         ReorganizeDone, SetBestChainInner, NewBestBlock,
         AddToBlockIndexReturns, NoPendingSyncCheckpoint,
         DropPendingSyncCheckpoint, AcceptPendingSyncCheckpoint,
         SyncCheckpointOnMainChain, SyncCheckpointFails, WriteSyncCheckpoint,
         LoadBlockIndexReturns, AcceptBlockReturns, CheckpointReturns,
         EnforceSyncCheckpoint
<1> QED
  BY <1>1, <1>2, <1>3, <1>4 DEF FailInv

LEMMA FailHolds == Spec => []FailInv
<1>1. Init => FailInv
  BY DEF Init, FailInv
<1> QED
  BY <1>1, FailStep, Invariance, Durable, LedgerHolds, PTL DEF Spec

(* InvalidChainFound: the trust that a node warns of is that of an indexed *)
(* chain that really is invalid, as long as the disk did not fail and no   *)
(* postponed block did.                                                    *)
THEOREM InvalidTrustIsReal == Spec => []InvalidIsInvalid
<1>1. Init => InvalidIsInvalid
  BY DEF Init, InvalidIsInvalid
<1>2. ASSUME IInv, DurableInv, LedgerInv, InvalidIsInvalid, [Next]_vars
      PROVE  InvalidIsInvalid'
  <2> DEFINE Found(b) == b \in mapBlockIndex /\ ~ ValidBranch(b)
  <2> SUFFICES ASSUME faults' = 0, torn' = {}, nBestInvalidTrust' > 0
               PROVE  \E b \in mapBlockIndex :
                         nChainTrust[b] = nBestInvalidTrust' /\ ~ ValidBranch(b)
    BY <1>2, IndexGrows DEF InvalidIsInvalid, ValidBranch, Connected
  <2>1. torn = {} /\ faults = 0 /\ nBestInvalidTrust \in Nat /\ faults \in Nat
    BY <1>2, TornGrows, FaultsGrow DEF IInv, TypeOK, ChainTypeOK
  <2>2. \/ nBestInvalidTrust' = nBestInvalidTrust
        \/ \E b : Found(b) /\ InvalidChainFound(b)
    <3>1. CASE AbortReorganize
      BY <1>2, <2>1, <3>1, AbortedIsInvalid DEF AbortReorganize
    <3>2. CASE SetBestChainInnerFails
      BY <1>2, <2>1, <3>2, RefusedIsInvalid DEF SetBestChainInnerFails
    <3> QED
      BY <1>2, <3>1, <3>2, Frames, Zenon
         DEF CommitReorganize, SetBestChainInner, NewBestBlock, Restart
  <2>3. \A b : Found(b) => nChainTrust[b] \in Nat
    BY <1>2, TrustAssumption DEF IInv, TypeOK, ChainTypeOK
  <2>4. \/ nBestInvalidTrust' = nBestInvalidTrust
        \/ \E b : Found(b) /\ nBestInvalidTrust' = nChainTrust[b]
    BY <2>1, <2>2, <2>3 DEF InvalidChainFound, Max
  <2> QED
    BY <1>2, <2>1, <2>4 DEF InvalidIsInvalid
<1> QED
  BY <1>1, <1>2, Invariance, Durable, LedgerHolds, PTL DEF Spec

-----------------------------------------------------------------------------
(*                        The pending checkpoint                           *)

(***************************************************************************)
(* A pending checkpoint whose block is indexed is of an invalid chain, or  *)
(* is about to be looked at: its block has just been indexed, and          *)
(* AcceptBlock has not returned yet.                                       *)
(***************************************************************************)
PendingInv ==
    PendingIndexed /\ faults = 0 /\ torn = {} =>
        \/ ~ ValidBranch(hashPendingCheckpoint)
        \/ pc = "accepted"
        \/ /\ sbc.caller \in {"AddToBlockIndex", "AcceptPendingSyncCheckpoint"}
           /\ sbc.new = hashPendingCheckpoint

(* The steps at which an indexed checkpoint may become pending, or lose    *)
(* the handler that looks at it.                                           *)
Settling == \/ AcceptBlock \/ RejectBlock \/ AddToBlockIndexReturns
            \/ NoPendingSyncCheckpoint \/ DropPendingSyncCheckpoint
            \/ AcceptPendingSyncCheckpoint \/ SyncCheckpointFails
            \/ WriteSyncCheckpoint \/ LoadBlockIndexReturns \/ Restart
            \/ \E c \in SyncCheckpoints : ProcessSyncCheckpoint(c)

(* Every other step leaves them where they are. *)
LEMMA SettlingFrame ==
  ASSUME IInv, [Next]_vars, ~ Settling
  PROVE  /\ UNCHANGED <<mapBlockIndex, checkpointVars>>
         /\ sbc'.caller = sbc.caller /\ sbc'.new = sbc.new
         /\ pc' = "accepted" <=> pc = "accepted"
<1>1. UNCHANGED <<mapBlockIndex, checkpointVars>>
  BY Frames DEF Settling
<1>2. sbc \in SbcType
  BY Zenon DEF IInv, TypeOK, CallTypeOK
<1>3. sbc'.caller = sbc.caller /\ sbc'.new = sbc.new
  <2>1. CASE SetBestChain
    BY <1>2, <2>1, Zenon DEF SetBestChain, SbcType
  <2>2. CASE DisconnectTip \/ ConnectTip \/ SetBestChainInner
    BY <1>2, <2>2, Zenon DEF DisconnectTip, ConnectTip, SetBestChainInner, SbcType
  <2> QED
    BY <2>1, <2>2, Zenon
       DEF Settling, Next, Request, Handler, vars, ProcessOrphanBlock, ProcessBlock,
           AcceptToMemoryPool, TryOrphan, NextParent, CommitReorganize,
           AbortReorganize, Resurrect, Delete, ReorganizeDone,
           SetBestChainInnerFails, NewBestBlock, SyncCheckpointOnMainChain
<1>4. pc' = "accepted" <=> pc = "accepted"
  BY Zenon DEF Settling, Next, Request, Handler, vars, ProcessOrphanBlock, ProcessBlock,
         AcceptToMemoryPool, TryOrphan, NextParent, SetBestChain, DisconnectTip,
         ConnectTip, CommitReorganize, AbortReorganize, Resurrect, Delete,
         ReorganizeDone, SetBestChainInner, SetBestChainInnerFails, NewBestBlock,
         SyncCheckpointOnMainChain
<1> QED
  BY <1>1, <1>3, <1>4

LEMMA PendingStep ==
  ASSUME IInv, FailInv, PendingInv, [Next]_vars
  PROVE  PendingInv'
<1> DEFINE Looked == \/ pc = "accepted"
                     \/ /\ sbc.caller \in {"AddToBlockIndex", "AcceptPendingSyncCheckpoint"}
                        /\ sbc.new = hashPendingCheckpoint
<1> SUFFICES ASSUME PendingIndexed', faults' = 0, torn' = {},
                    ValidBranch(hashPendingCheckpoint')
             PROVE  Looked'
  BY DEF PendingInv, ValidBranch, Connected
<1>1. torn = {} /\ faults = 0
  BY TornGrows, FaultsGrow
<1>2. PendingIndexed /\ hashPendingCheckpoint' = hashPendingCheckpoint => Looked
  BY <1>1 DEF PendingInv
<1>3. ~ Calling => sbc = NoCall
  BY DEF IInv, CallInv
<1>4. CASE ~ Settling
  BY <1>2, <1>4, SettlingFrame DEF PendingIndexed
<1>5. CASE AcceptBlock
  <2>1. pc = "accept" /\ ~ Looked
    BY <1>3, <1>5 DEF AcceptBlock, NoCall, Calling
  <2>2. hashPendingCheckpoint' = pblock
    BY <1>2, <1>5, <2>1 DEF AcceptBlock, PendingIndexed
  <2> QED
    BY <1>5, <2>2, Zenon DEF AcceptBlock, NoCall
<1>6. CASE RejectBlock \/ LoadBlockIndexReturns
  <2>1. /\ pc # "accepted" /\ UNCHANGED <<mapBlockIndex, hashPendingCheckpoint>>
        /\ pc = "accept" \/ sbc.caller = "LoadBlockIndex"
    BY <1>6, Zenon DEF RejectBlock, LoadBlockIndexReturns
  <2>2. sbc.caller \in {"none", "LoadBlockIndex"}
    BY <1>3, <2>1 DEF NoCall, Calling
  <2> QED
    BY <1>2, <2>1, <2>2 DEF PendingIndexed
<1>7. CASE AddToBlockIndexReturns
  <2>1. CASE pc = "succeeded"
    BY <1>7, <2>1 DEF AddToBlockIndexReturns
  <2>2. CASE pc = "failed"
    BY <1>1, <1>2, <1>7, <2>2 DEF AddToBlockIndexReturns, PendingIndexed, FailInv
  <2> QED
    BY <1>7, <2>1, <2>2, Zenon DEF AddToBlockIndexReturns
<1>8. CASE NoPendingSyncCheckpoint \/ DropPendingSyncCheckpoint
  BY <1>8, Zenon DEF NoPendingSyncCheckpoint, DropPendingSyncCheckpoint, PendingIndexed
<1>9. CASE AcceptPendingSyncCheckpoint
  BY <1>9 DEF AcceptPendingSyncCheckpoint, EnforceSyncCheckpoint, NoCall
<1>10. CASE SyncCheckpointFails
  BY <1>1, <1>2, <1>10 DEF SyncCheckpointFails, PendingIndexed, FailInv
<1>11. CASE WriteSyncCheckpoint
  BY <1>1, <1>11 DEF WriteSyncCheckpoint, PendingIndexed
<1>12. CASE Restart
  BY <1>12, RestartEffect DEF PendingIndexed
<1>13. CASE \E c \in SyncCheckpoints : ProcessSyncCheckpoint(c)
  BY <1>2, <1>3, <1>13 DEF ProcessSyncCheckpoint, PendingIndexed, NoCall, Calling
<1> QED
  BY <1>4, <1>5, <1>6, <1>7, <1>8, <1>9, <1>10, <1>11, <1>12, <1>13, Zenon DEF Settling

(* AcceptPendingSyncCheckpoint: between handlers no pending checkpoint is  *)
(* forgotten.  One whose block is indexed is of an invalid chain, unless   *)
(* the disk failed or a postponed block did not connect.                   *)
THEOREM PendingIsSettled == Spec => []PendingSettled
<1>1. Init => PendingInv
  BY NodeAssumption, Zenon DEF Init, PendingInv, PendingIndexed
<1>2. IInv /\ PendingInv => PendingSettled
  BY DEF IInv, CallInv, Calling, NoCall, PendingInv, PendingSettled
<1> QED
  BY <1>1, <1>2, PendingStep, FailHolds, Invariance, PTL DEF Spec

-----------------------------------------------------------------------------
(*                           Postponed blocks                              *)

(* No restart, no disk error, and no checkpoint that moves the best chain. *)
Undisturbed == restarts = 0 /\ faults = 0 /\ SyncCheckpoints = {} /\ LastHardened = Genesis

Adopting == pc \in {"setbest", "reorganize", "mempool", "inner"}

(***************************************************************************)
(* Every indexed block with more trust than the best one has been tried    *)
(* and found invalid, or is being tried.  So a reorganisation that         *)
(* succeeds has nothing postponed: the block it ends in has more trust     *)
(* than the best one and is valid.                                         *)
(***************************************************************************)
TriedInv ==
    Undisturbed =>
      /\ torn = {}
      /\ hashPendingCheckpoint = Nil
      /\ sbc.caller \in {"none", "AddToBlockIndex"}
      /\ \A b \in mapBlockIndex :
            nChainTrust[b] > nChainTrust[pindexBest] =>
              ~ ValidBranch(b) \/ (Adopting /\ b = sbc.new)
      /\ Adopting => nChainTrust[sbc.new] > nChainTrust[pindexBest]
      /\ pc \in {"mempool", "inner"} /\ sbc.kind = "reorganize" => sbc.tip = sbc.new

(* The steps of SetBestChain and of the call that starts it. *)
Trying == \/ AcceptBlock \/ SetBestChain \/ DisconnectTip \/ ConnectTip
          \/ CommitReorganize \/ AbortReorganize \/ ReorganizeDone
          \/ SetBestChainInner \/ SetBestChainInnerFails \/ NewBestBlock

(* Without restarts and checkpoints, the other steps change nothing of it. *)
LEMMA TryingFrame ==
  ASSUME IInv, [Next]_vars, ~ Trying, ~ Restart, SyncCheckpoints = {},
         hashPendingCheckpoint = Nil, sbc.caller \in {"none", "AddToBlockIndex"}
  PROVE  /\ UNCHANGED <<mapBlockIndex, pindexBest, torn, hashPendingCheckpoint>>
         /\ \/ UNCHANGED <<pc, sbc>>
            \/ ~ Adopting /\ ~ Adopting' /\ sbc' \in {sbc, NoCall}
<1>1. ~ WriteSyncCheckpoint /\ ~ SyncCheckpointFails /\ ~ DropPendingSyncCheckpoint
  BY DEF WriteSyncCheckpoint, SyncCheckpointFails, DropPendingSyncCheckpoint,
         PendingIndexed, IInv, CallInv, CheckpointCallers
<1>2. UNCHANGED <<mapBlockIndex, pindexBest, torn, hashPendingCheckpoint>>
  BY <1>1, Frames, TornGrows, ZenonT(30) DEF Trying
<1>3. \/ UNCHANGED <<pc, sbc>>
      \/ ~ Adopting /\ ~ Adopting' /\ sbc' \in {sbc, NoCall}
  BY <1>1, Zenon DEF Trying, Adopting, Next, Request, Handler, vars, ProcessOrphanBlock,
         ProcessBlock, AcceptToMemoryPool, RejectBlock, TryOrphan, NextParent,
         Resurrect, Delete, AddToBlockIndexReturns, NoPendingSyncCheckpoint,
         AcceptPendingSyncCheckpoint, PendingIndexed, SyncCheckpointOnMainChain,
         LoadBlockIndexReturns, AcceptBlockReturns
<1> QED
  BY <1>2, <1>3

(* The steps of SetBestChain that do not end it. *)
LEMMA TryingSteps ==
  ASSUME IInv,
         \/ SetBestChain \/ DisconnectTip \/ ConnectTip \/ CommitReorganize
         \/ ReorganizeDone \/ SetBestChainInner
  PROVE  /\ Adopting /\ Adopting' /\ sbc'.new = sbc.new /\ sbc'.caller = sbc.caller
         /\ UNCHANGED <<mapBlockIndex, pindexBest, torn, hashPendingCheckpoint>>
         /\ pc' \in {"mempool", "inner"} /\ sbc'.kind = "reorganize" =>
              \/ CommitReorganize
              \/ ReorganizeDone
              \/ SetBestChainInner /\ sbc.kind = "reorganize"
<1>1. sbc \in SbcType
  BY DEF IInv, TypeOK, CallTypeOK
<1>2. CASE SetBestChain
  BY <1>1, <1>2, Zenon DEF SetBestChain, SbcType, Adopting
<1>3. CASE DisconnectTip \/ ConnectTip
  BY <1>1, <1>3 DEF DisconnectTip, ConnectTip, SbcType, Adopting
<1>4. CASE CommitReorganize \/ ReorganizeDone
  BY <1>4 DEF CommitReorganize, ReorganizeDone, Adopting
<1>5. CASE SetBestChainInner
  BY <1>1, <1>5 DEF SetBestChainInner, SbcType, Adopting
<1> QED
  BY <1>2, <1>3, <1>4, <1>5

LEMMA TriedStep ==
  ASSUME IInv, DurableInv, TrustInv, LedgerInv, TriedInv, [Next]_vars
  PROVE  TriedInv'
<1> SUFFICES ASSUME Undisturbed'
             PROVE  /\ torn' = {}
                    /\ hashPendingCheckpoint' = Nil
                    /\ sbc'.caller \in {"none", "AddToBlockIndex"}
                    /\ \A b \in mapBlockIndex' :
                          nChainTrust[b] > nChainTrust[pindexBest'] =>
                            ~ ValidBranch(b) \/ (Adopting' /\ b = sbc'.new)
                    /\ Adopting' => nChainTrust[sbc'.new] > nChainTrust[pindexBest']
                    /\ pc' \in {"mempool", "inner"} /\ sbc'.kind = "reorganize" =>
                          sbc'.tip = sbc'.new
  BY Zenon DEF TriedInv, ValidBranch, Connected
<1>1. restarts \in Nat /\ faults \in Nat
  BY NodeAssumption DEF IInv, TypeOK, HistoryTypeOK
<1>2. ~ Restart /\ restarts = 0
  <2>1. restarts' \in {restarts, restarts + 1} /\ (Restart => restarts' = restarts + 1)
    BY Frames, RestartEffect, Zenon
       DEF RejectBlock, AbortReorganize, SetBestChainInnerFails, SyncCheckpointFails,
           WriteSyncCheckpoint
  <2> QED
    BY <1>1, <2>1 DEF Undisturbed
<1>3. Undisturbed /\ faults = 0 /\ SyncCheckpoints = {}
  BY <1>2, FaultsGrow DEF Undisturbed
<1>4. /\ torn = {} /\ hashPendingCheckpoint = Nil
      /\ sbc.caller \in {"none", "AddToBlockIndex"}
      /\ \A b \in mapBlockIndex :
            nChainTrust[b] > nChainTrust[pindexBest] =>
              ~ ValidBranch(b) \/ (Adopting /\ b = sbc.new)
      /\ Adopting => nChainTrust[sbc.new] > nChainTrust[pindexBest]
      /\ pc \in {"mempool", "inner"} /\ sbc.kind = "reorganize" => sbc.tip = sbc.new
  BY <1>3 DEF TriedInv
<1>5. CASE ~ Trying
  <2>1. /\ UNCHANGED <<mapBlockIndex, pindexBest, torn, hashPendingCheckpoint>>
        /\ \/ UNCHANGED <<pc, sbc>>
           \/ ~ Adopting /\ ~ Adopting' /\ sbc' \in {sbc, NoCall}
    BY <1>2, <1>3, <1>4, <1>5, TryingFrame, Zenon
  <2>2. CASE UNCHANGED <<pc, sbc>>
    BY <1>4, <2>1, <2>2, Zenon DEF Adopting
  <2>3. CASE ~ Adopting /\ ~ Adopting' /\ sbc' \in {sbc, NoCall}
    <3>1. sbc'.caller \in {"none", "AddToBlockIndex"}
      BY <1>4, <2>3 DEF NoCall
    <3>2. pc' \notin {"mempool", "inner"}
      BY <2>3, Zenon DEF Adopting
    <3> QED
      BY <1>4, <2>1, <2>3, <3>1, <3>2, Zenon
  <2> QED
    BY <2>1, <2>2, <2>3, Zenon
<1>6. CASE AcceptBlock
  <2>1. pc = "accept" /\ ~ Adopting /\ mapBlockIndex' = mapBlockIndex \cup {pblock}
    BY <1>6 DEF AcceptBlock, Adopting
  <2>2. UNCHANGED <<pindexBest, torn, hashPendingCheckpoint>>
    BY <1>6 DEF AcceptBlock
  <2>3. \/ /\ nChainTrust[pblock] > nChainTrust[pindexBest]
           /\ pc' = "setbest" /\ sbc'.caller = "AddToBlockIndex" /\ sbc'.new = pblock
        \/ /\ ~ (nChainTrust[pblock] > nChainTrust[pindexBest])
           /\ pc' = "accepted" /\ sbc' = sbc
    BY <1>6, Zenon DEF AcceptBlock, NoCall
  <2> QED
    BY <1>4, <2>1, <2>2, <2>3 DEF Adopting
<1>7. CASE \/ SetBestChain \/ DisconnectTip \/ ConnectTip
           \/ ReorganizeDone \/ SetBestChainInner
  <2>1. ~ CommitReorganize
    BY <1>7 DEF SetBestChain, DisconnectTip, ConnectTip, ReorganizeDone,
                SetBestChainInner, CommitReorganize
  <2>2. ReorganizeDone => UNCHANGED sbc /\ pc = "mempool"
    BY DEF ReorganizeDone
  <2>3. SetBestChainInner => pc = "inner" /\ sbc.tip # sbc.new
    BY DEF SetBestChainInner
  <2> QED
    BY <1>4, <1>7, <2>1, <2>2, <2>3, TryingSteps, Zenon
<1>8. CASE CommitReorganize
  <2>1. pc = "reorganize" /\ sbc.tip = sbc.inter /\ sbc' = sbc
    BY <1>8, Zenon DEF CommitReorganize
  <2>2. ValidBranch(sbc.inter)
    BY <1>4, <2>1, Zenon DEF LedgerInv
  <2>3. sbc.inter \in mapBlockIndex
    BY <2>1, BranchIndexed DEF IInv, CallInv, Calling
  <2>4. sbc.caller = "AddToBlockIndex"
    BY <1>4, <2>1 DEF IInv, CallInv, Calling, Callers
  <2>5. nChainTrust[sbc.inter] > nChainTrust[pindexBest]
    BY <2>1, <2>4 DEF TrustInv
  <2>6. sbc.inter = sbc.new
    BY <1>4, <2>2, <2>3, <2>5, Zenon
  <2> QED
    BY <1>4, <1>8, <2>1, <2>6, TryingSteps, Zenon
<1>9. CASE AbortReorganize
  <2>1. ~ ValidBranch(sbc.new)
    BY <1>3, <1>4, <1>9, AbortedIsInvalid, Zenon DEF Undisturbed
  <2>2. /\ pc' = "failed"
        /\ UNCHANGED <<mapBlockIndex, pindexBest, torn, hashPendingCheckpoint, sbc>>
    BY <1>9, Zenon DEF AbortReorganize
  <2> QED
    BY <1>4, <2>1, <2>2 DEF Adopting
<1>10. CASE SetBestChainInnerFails
  <2>1. pc = "inner" /\ sbc.tip # sbc.new /\ sbc.kind # "reorganize"
    BY <1>4, <1>10, Zenon DEF SetBestChainInnerFails
  <2>2. ~ ConnectBlockOK(db.txindex, NextBlock(sbc.new))
    BY <1>3, <1>10 DEF SetBestChainInnerFails, Undisturbed
  <2>3. ~ ValidBranch(sbc.new)
    BY <1>4, <2>1, <2>2, RefusedIsInvalid, Zenon
  <2>4. /\ pc' = "failed"
        /\ UNCHANGED <<mapBlockIndex, pindexBest, torn, hashPendingCheckpoint, sbc>>
    BY <1>10, <2>1 DEF SetBestChainInnerFails
  <2> QED
    BY <1>4, <2>3, <2>4 DEF Adopting
<1>11. CASE NewBestBlock
  <2>1. /\ pc = "inner" /\ pc' = "succeeded" /\ pindexBest' = sbc.new
        /\ UNCHANGED <<mapBlockIndex, torn, hashPendingCheckpoint, sbc>>
    BY <1>11 DEF NewBestBlock
  <2>2. nChainTrust[sbc.new] > nChainTrust[pindexBest]
    BY <1>4, <2>1, Zenon DEF Adopting
  <2>3. /\ nChainTrust[pindexBest] \in Nat /\ nChainTrust[sbc.new] \in Nat
        /\ \A b \in mapBlockIndex : nChainTrust[b] \in Nat
    BY <2>1, NextBlockType, TrustAssumption, Zenon DEF IInv, TypeOK, ChainTypeOK, Calling
  <2>4. ASSUME NEW b \in mapBlockIndex, nChainTrust[b] > nChainTrust[sbc.new]
        PROVE  ~ ValidBranch(b)
    <3>1. nChainTrust[b] > nChainTrust[pindexBest] /\ b # sbc.new
      BY <2>2, <2>3, <2>4
    <3> QED
      BY <1>4, <3>1
  <2> QED
    BY <1>4, <2>1, <2>4 DEF Adopting
<1> QED
  BY <1>5, <1>6, <1>7, <1>8, <1>9, <1>10, <1>11, Zenon DEF Trying

(* SetBestChain: as long as the process neither restarts nor meets a disk  *)
(* error and no checkpoint moves the best chain, no postponed block fails  *)
(* to connect: the "errors now are not fatal" branch is never taken.       *)
THEOREM PostponedConnect == Spec => []PostponedBlocksConnect
<1>1. Init => TriedInv
  <2> SUFFICES ASSUME Init PROVE TriedInv
    OBVIOUS
  <2>1. nChainTrust[Genesis] \in Nat
    BY TrustAssumption, TreeAssumption
  <2> QED
    BY <2>1 DEF Init, TriedInv, Adopting, NoCall, Undisturbed
<1>2. TriedInv => PostponedBlocksConnect
  BY DEF TriedInv, Undisturbed, PostponedBlocksConnect
<1> QED
  BY <1>1, <1>2, TriedStep, LedgerHolds, Trusted, Durable, Invariance, PTL DEF Spec

-----------------------------------------------------------------------------
(*                           Refinement of Ledger                          *)

(***************************************************************************)
(* The outputs left on a branch, without recursion: some block creates     *)
(* them and neither it nor a later one spends them.                        *)
(***************************************************************************)
LeftOn(b) ==
    {o \in L!OutputsOf(Txs) :
        \E x \in Connected(b) :
            /\ o \in L!OutputsOf(TxsOf(x))
            /\ \A y \in Connected(b) : x \in Branch[y] => o \notin L!SpentBy(TxsOf(y))}

(* Ledger speaks of the same tree of blocks. *)
LEMMA SameTree ==
  /\ \A b : L!TxsOf(b) = TxsOf(b)
  /\ L!Branch = Branch
  /\ L!nHeight = nHeight
<1>1. \A b : L!TxsOf(b) = TxsOf(b)
  BY DEF L!TxsOf, TxsOf
<1>2. L!Branch = Branch
  BY DEF L!Branch, Branch, L!ParentClosed, ParentClosed
<1>3. \A S : L!Cardinality(S) = Cardinality(S)
  BY Zenon DEF L!Cardinality, Cardinality
<1>4. L!nHeight = nHeight
  BY <1>2, <1>3, Zenon DEF L!nHeight, nHeight
<1> QED
  BY <1>1, <1>2, <1>4

(* The outputs of a set of transactions, one by one. *)
LEMMA OutputsOfIn ==
  ASSUME NEW T, NEW o
  PROVE  o \in L!OutputsOf(T) <=> \E t \in T : \E n \in 1..nOut[t] : o = <<t, n>>
<1> DEFINE S(t) == {<<t, n>> : n \in 1..nOut[t]}
<1>1. \A t : o \in S(t) <=> \E n \in 1..nOut[t] : o = <<t, n>>
  OBVIOUS
<1>2. L!OutputsOf(T) = UNION {S(t) : t \in T}
  BY DEF L!OutputsOf
<1> HIDE DEF S
<1>3. o \in UNION {S(t) : t \in T} <=> \E t \in T : o \in S(t)
  OBVIOUS
<1> QED
  BY <1>1, <1>2, <1>3

(* The outputs an index calls unspent, one by one. *)
LEMMA UnspentInIn ==
  ASSUME NEW ti, NEW o
  PROVE  o \in UnspentIn(ti) <=>
            \E t \in DOMAIN ti : \E n \in 1..nOut[t] : o = <<t, n>> /\ ti[t].vSpent[n] = Nil
<1> DEFINE S(t) == {<<t, n>> : n \in {m \in 1..nOut[t] : ti[t].vSpent[m] = Nil}}
<1>1. \A t : o \in S(t) <=> \E n \in 1..nOut[t] : o = <<t, n>> /\ ti[t].vSpent[n] = Nil
  OBVIOUS
<1>2. UnspentIn(ti) = UNION {S(t) : t \in DOMAIN ti}
  BY DEF UnspentIn
<1> HIDE DEF S
<1>3. o \in UNION {S(t) : t \in DOMAIN ti} <=> \E t \in DOMAIN ti : o \in S(t)
  OBVIOUS
<1> QED
  BY <1>1, <1>2, <1>3

(* The outputs of some transactions are among those of more of them. *)
LEMMA OutputsGrow ==
  ASSUME NEW T, NEW U, T \subseteq U
  PROVE  L!OutputsOf(T) \subseteq L!OutputsOf(U)
BY DEF L!OutputsOf

(* What is left on a branch follows from what is left before its last block. *)
LEMMA LeftStep ==
  ASSUME NEW b \in Blocks \ {Genesis}
  PROVE  LeftOn(b) = (LeftOn(hashPrevBlock[b]) \cup L!OutputsOf(TxsOf(b)))
                         \ L!SpentBy(TxsOf(b))
<1> DEFINE q == hashPrevBlock[b]
           Out(x) == L!OutputsOf(TxsOf(x))
           Spent(x) == L!SpentBy(TxsOf(x))
<1>1. q \in Blocks /\ Connected(b) = {b} \cup Connected(q) /\ b \notin Connected(q)
  BY ConnectedStep
<1>2. \A y \in Connected(q) : b \notin Branch[y]
  BY <1>1, BranchTransitive, RootedAssumption DEF Connected
<1>3. \A x \in Connected(q) : x \in Branch[b]
  BY <1>1 DEF Connected
<1>4. b \in Branch[b]
  BY BranchEnds
<1>5. Out(b) \subseteq L!OutputsOf(Txs)
  BY TxsType, OutputsGrow, Zenon
<1>6. /\ \A o : o \in LeftOn(b) <=>
            /\ o \in L!OutputsOf(Txs)
            /\ \E x \in Connected(b) :
                  o \in Out(x) /\ \A y \in Connected(b) : x \in Branch[y] => o \notin Spent(y)
      /\ \A o : o \in LeftOn(q) <=>
            /\ o \in L!OutputsOf(Txs)
            /\ \E x \in Connected(q) :
                  o \in Out(x) /\ \A y \in Connected(q) : x \in Branch[y] => o \notin Spent(y)
  BY DEF LeftOn
<1> HIDE DEF q, Out, Spent
<1>7. LeftOn(b) = (LeftOn(q) \cup Out(b)) \ Spent(b)
  <2>1. ASSUME NEW o \in LeftOn(b)
        PROVE  o \in (LeftOn(q) \cup Out(b)) \ Spent(b)
    BY <1>1, <1>3, <1>4, <1>6, Zenon
  <2>2. ASSUME NEW o \in LeftOn(q), o \notin Spent(b)
        PROVE  o \in LeftOn(b)
    BY <1>1, <1>6, <2>2, Zenon
  <2>3. ASSUME NEW o \in Out(b), o \notin Spent(b)
        PROVE  o \in LeftOn(b)
    BY <1>1, <1>2, <1>5, <1>6, <2>3, Zenon
  <2> QED
    BY <2>1, <2>2, <2>3, Zenon
<1> QED
  BY <1>7 DEF q, Out, Spent

(* So the recursion that defines unspentAfter has a solution. *)
LEMMA UnspentAfterRec ==
  /\ L!unspentAfter[Genesis] = {}
  /\ \A b \in Blocks \ {Genesis} :
        L!unspentAfter[b] = (L!unspentAfter[hashPrevBlock[b]] \cup L!OutputsOf(TxsOf(b)))
                                \ L!SpentBy(TxsOf(b))
<1> DEFINE F(f) == [b \in Blocks |->
                      IF b = Genesis THEN {}
                      ELSE (f[hashPrevBlock[b]] \cup L!OutputsOf(TxsOf(b)))
                               \ L!SpentBy(TxsOf(b))]
           G == [b \in Blocks |-> LeftOn(b)]
<1>1. G = F(G)
  <2>1. LeftOn(Genesis) = {}
    BY ValidGenesis DEF LeftOn
  <2>2. \A b \in Blocks \ {Genesis} : hashPrevBlock[b] \in Blocks
    BY TreeAssumption
  <2>3. \A b \in Blocks : LeftOn(b) = F(G)[b]
    BY <2>1, <2>2, LeftStep
  <2> QED
    BY <2>3
<1>2. L!unspentAfter = CHOOSE f : f = F(f)
  <2> DEFINE H(f) == [b \in Blocks |->
                        IF b = Genesis THEN {}
                        ELSE (f[hashPrevBlock[b]] \cup L!OutputsOf(L!TxsOf(b)))
                                 \ L!SpentBy(L!TxsOf(b))]
  <2>1. L!unspentAfter = CHOOSE f : f = H(f)
    BY DEF L!unspentAfter
  <2>2. \A f : H(f) = F(f)
    BY SameTree
  <2> HIDE DEF F, H
  <2> QED
    BY <2>1, <2>2
<1> HIDE DEF G
<1>3. L!unspentAfter = F(L!unspentAfter)
  <2> HIDE DEF F
  <2> QED
    BY <1>1, <1>2
<1> QED
  BY <1>3, TreeAssumption

(* ConnectBlock moves the unspent outputs of the index as Ledger does. *)
LEMMA UnspentInStep ==
  ASSUME NEW b \in Blocks \ {Genesis}, ValidBranch(b)
  PROVE  UnspentIn(TxIndexOf(b)) =
            (UnspentIn(TxIndexOf(hashPrevBlock[b])) \cup L!OutputsOf(TxsOf(b)))
                \ L!SpentBy(TxsOf(b))
<1> DEFINE q == hashPrevBlock[b]
           U(x) == UnspentIn(TxIndexOf(x))
           Free(x, t, n) == t \in TxsOfBranch(x) /\ n \in 1..nOut[t] /\ Spender(x, <<t, n>>) = Nil
<1>1. /\ q \in Blocks /\ ValidBranch(q) /\ ConnectBlockOK(TxIndexOf(q), b)
      /\ TxsOfBranch(b) = TxsOf(b) \cup TxsOfBranch(q)
      /\ TxsOf(b) \cap TxsOfBranch(q) = {}
  BY ValidStep, ConnectedStep, BlockIsFresh
<1>2. ASSUME NEW x \in Blocks
      PROVE  \A o : o \in U(x) <=> \E t, n : o = <<t, n>> /\ Free(x, t, n)
  <2> DEFINE ti == TxIndexOf(x)
  <2>1. \A t \in TxsOfBranch(x) : \A n \in 1..nOut[t] : ti[t].vSpent[n] = Spender(x, <<t, n>>)
    BY IndexEntry, Zenon
  <2>2. DOMAIN ti = TxsOfBranch(x)
    BY IndexDomain
  <2> HIDE DEF ti
  <2>3. \A t, n : t \in DOMAIN ti /\ n \in 1..nOut[t] /\ ti[t].vSpent[n] = Nil <=> Free(x, t, n)
    BY <2>1, <2>2, Zenon
  <2> HIDE DEF Free
  <2>4. ASSUME NEW o \in UnspentIn(ti)
        PROVE  \E t, n : o = <<t, n>> /\ Free(x, t, n)
    <3>1. \E t \in DOMAIN ti : \E n \in 1..nOut[t] : o = <<t, n>> /\ ti[t].vSpent[n] = Nil
      BY <2>4, UnspentInIn, Zenon
    <3>2. PICK t, n : o = <<t, n>> /\ t \in DOMAIN ti /\ n \in 1..nOut[t] /\ ti[t].vSpent[n] = Nil
      BY <3>1, Zenon
    <3>3. Free(x, t, n)
      BY <2>3, <3>2
    <3> QED
      BY <3>2, <3>3, Zenon
  <2>5. ASSUME NEW t, NEW n, Free(x, t, n)
        PROVE  <<t, n>> \in UnspentIn(ti)
    BY <2>3, <2>5, UnspentInIn, Zenon
  <2> QED
    BY <2>4, <2>5, Zenon DEF ti
<1>3. \A o : o \in L!OutputsOf(TxsOf(b)) <=>
          \E t, n : o = <<t, n>> /\ t \in TxsOf(b) /\ n \in 1..nOut[t]
  BY OutputsOfIn, Zenon
<1>4. \A o : o \in L!SpentBy(TxsOf(b)) <=> SpenderIn(b, o) # Nil
  BY SpenderFound DEF L!SpentBy
<1>5. \A o : Spender(b, o) = Nil <=> SpenderIn(b, o) = Nil /\ Spender(q, o) = Nil
  BY SpenderStep
<1>6. \A t, n : t \notin TxsOfBranch(q) => Spender(q, <<t, n>>) = Nil
  BY <1>1, FreshIsUnspent
<1>7. \A t, n : Free(b, t, n) <=>
          /\ Free(q, t, n) \/ (t \in TxsOf(b) /\ n \in 1..nOut[t])
          /\ <<t, n>> \notin L!SpentBy(TxsOf(b))
  BY <1>1, <1>4, <1>5, <1>6, Zenon
<1>8. \A o : /\ o \in U(b) <=> \E t, n : o = <<t, n>> /\ Free(b, t, n)
             /\ o \in U(q) <=> \E t, n : o = <<t, n>> /\ Free(q, t, n)
  BY <1>1, <1>2, Zenon
<1> HIDE DEF q, U, Free
<1>9. U(b) = (U(q) \cup L!OutputsOf(TxsOf(b))) \ L!SpentBy(TxsOf(b))
  <2> DEFINE V == (U(q) \cup L!OutputsOf(TxsOf(b))) \ L!SpentBy(TxsOf(b))
  <2>1. ASSUME NEW o \in U(b) PROVE o \in V
    <3>1. PICK t, n : o = <<t, n>> /\ Free(b, t, n)
      BY <1>8, <2>1, Zenon
    <3> QED
      BY <1>3, <1>7, <1>8, <3>1, Zenon
  <2>2. ASSUME NEW o \in V PROVE o \in U(b)
    <3>1. PICK t, n : o = <<t, n>> /\ (Free(q, t, n) \/ (t \in TxsOf(b) /\ n \in 1..nOut[t]))
      BY <1>3, <1>8, <2>2, Zenon
    <3> QED
      BY <1>7, <1>8, <2>2, <3>1, Zenon
  <2> QED
    BY <2>1, <2>2, Zenon
<1> QED
  BY <1>9, Zenon DEF q, U

(* The index of a valid chain shows the outputs its blocks leave. *)
LEMMA UnspentInIndex ==
  ASSUME NEW b \in Blocks, ValidBranch(b)
  PROVE  UnspentIn(TxIndexOf(b)) = L!unspentAfter[b]
<1> DEFINE S == {x \in Branch[b] : UnspentIn(TxIndexOf(x)) # L!unspentAfter[x]}
<1>1. Branch[b] \subseteq Blocks /\ b \in Branch[b] /\ Genesis \in Branch[b]
  BY BranchEnds
<1>2. Genesis \notin S
  <2>1. DOMAIN TxIndexOf(Genesis) = {}
    BY IndexDomain, ValidGenesis, Zenon DEF TxsOfBranch
  <2>2. UnspentIn(TxIndexOf(Genesis)) = {}
    BY <2>1 DEF UnspentIn
  <2> QED
    BY <2>2, UnspentAfterRec, Zenon
<1>3. ASSUME NEW x \in S
      PROVE  hashPrevBlock[x] \in S
  <2>1. x \in Blocks \ {Genesis} /\ ValidBranch(x) /\ hashPrevBlock[x] \in Branch[b]
    BY <1>1, <1>2, <1>3, ValidAncestor, BranchClosed, Zenon DEF ParentClosed
  <2>2. UnspentIn(TxIndexOf(hashPrevBlock[x])) # L!unspentAfter[hashPrevBlock[x]]
    BY <2>1, <1>3, UnspentInStep, UnspentAfterRec, Zenon
  <2> QED
    BY <2>1, <2>2
<1>4. ParentClosed(S) /\ S \in SUBSET Blocks
  BY <1>1, <1>3 DEF ParentClosed
<1> HIDE DEF S
<1>5. b \notin S
  BY <1>1, <1>2, <1>4, BranchLeast, Zenon
<1> QED
  BY <1>1, <1>5 DEF S

(* A block that connects may follow its parent in the sense of Ledger. *)
LEMMA ConnectsFollows ==
  ASSUME NEW b \in Blocks \ {Genesis}, ValidBranch(b)
  PROVE  L!Follows(b)
<1> DEFINE q == hashPrevBlock[b]
           ti == TxIndexOf(q)
<1>1. q \in Blocks /\ ValidBranch(q) /\ ConnectBlockOK(ti, b)
  BY ValidStep, ConnectedStep
<1>2. UnspentIn(ti) = L!unspentAfter[q] /\ DOMAIN ti = TxsOfBranch(q)
  BY <1>1, UnspentInIndex, IndexDomain
<1>3. vtx[b] \in Seq(Txs)
  BY TxAssumption
<1> HIDE DEF q, ti
<1>4. ASSUME NEW i \in DOMAIN vtx[b]
      PROVE  /\ vin[vtx[b][i]] \subseteq L!unspentAfter[q] \cup L!OutputsOf(L!Before(b, i))
             /\ vin[vtx[b][i]] \cap L!SpentBy(L!Before(b, i)) = {}
             /\ L!OutputsOf({vtx[b][i]}) \cap L!unspentAfter[q] = {}
  <2> DEFINE t == vtx[b][i]
  <2>1. NoOverwrite(ti, t) /\ FetchInputs(ti, b, i) /\ ConnectInputs(ti, b, i)
    BY <1>1 DEF ConnectBlockOK
  <2>2. L!Before(b, i) = Queued(b, i)
    BY DEF L!Before, Queued
  <2>3. \A o \in vin[t] : o = <<o[1], o[2]>>
    BY <1>3, TxAssumption
  <2>4. ASSUME NEW o \in vin[t]
        PROVE  o \in L!unspentAfter[q] \cup L!OutputsOf(L!Before(b, i))
    <3>1. o[1] \in Queued(b, i) \cup DOMAIN ti /\ o[2] \in 1..nOut[o[1]]
      BY <2>1, <2>4, Zenon DEF FetchInputs
    <3>2. o[1] \notin Queued(b, i) => ti[o[1]].vSpent[o[2]] = Nil
      BY <2>1, <2>4 DEF ConnectInputs
    <3>3. CASE o[1] \in Queued(b, i)
      BY <2>2, <2>3, <2>4, <3>1, <3>3 DEF L!OutputsOf
    <3>4. CASE o[1] \notin Queued(b, i)
      <4>1. o[1] \in DOMAIN ti /\ o[2] \in {m \in 1..nOut[o[1]] : ti[o[1]].vSpent[m] = Nil}
        BY <3>1, <3>2, <3>4
      <4>2. <<o[1], o[2]>> \in UnspentIn(ti)
        BY <4>1 DEF UnspentIn
      <4> QED
        BY <1>2, <2>3, <4>2, Zenon
    <3> QED
      BY <3>3, <3>4, Zenon
  <2>5. vin[t] \cap L!SpentBy(L!Before(b, i)) = {}
    BY <2>1, <2>2, Zenon DEF ConnectInputs, L!SpentBy
  <2>6. ASSUME NEW n \in 1..nOut[t]
        PROVE  <<t, n>> \notin UnspentIn(ti)
    BY <2>1, <2>6 DEF NoOverwrite, UnspentIn
  <2>7. L!OutputsOf({t}) \cap L!unspentAfter[q] = {}
    BY <1>2, <2>6 DEF L!OutputsOf
  <2> QED
    BY <2>4, <2>5, <2>7
<1>5. b \notin Unconnectable
  BY <1>1 DEF ConnectBlockOK
<1> QED
  BY <1>4, <1>5 DEF L!Follows, q

(* The maturity that ConnectInputs looks up in the index is the one on the *)
(* branch.                                                                 *)
LEMMA ConnectsMature ==
  ASSUME NEW b \in Blocks \ {Genesis}, ValidBranch(b)
  PROVE  L!MatureIn(b)
<1> DEFINE q == hashPrevBlock[b]
           ti == TxIndexOf(q)
<1>1. /\ q \in Blocks /\ ValidBranch(q) /\ ConnectBlockOK(ti, b)
      /\ Connected(q) \subseteq Connected(b) /\ Connected(b) \subseteq Branch[b]
  BY ValidStep, ConnectedStep DEF Connected
<1> SUFFICES ASSUME NEW p \in Branch[b], NEW s \in TxsOf(b), NEW t \in TxsOf(p),
                    t \in CoinBase \cup CoinStake, NEW n \in 1..nOut[t], <<t, n>> \in vin[s]
             PROVE  nHeight[b] - nHeight[p] >= nCoinbaseMaturity
  <2>1. \A p \in Branch[b] : \A o : o \in L!OutputsOf(TxsOf(p) \cap (CoinBase \cup CoinStake)) <=>
            \E t \in TxsOf(p) : /\ t \in CoinBase \cup CoinStake
                               /\ \E n \in 1..nOut[t] : o = <<t, n>>
    BY OutputsOfIn
  <2>2. \A o : o \in L!SpentBy(TxsOf(b)) <=> \E s \in TxsOf(b) : o \in vin[s]
    BY Zenon DEF L!SpentBy
  <2>3. \A p \in Branch[b] :
            L!SpentBy(TxsOf(b)) \cap L!OutputsOf(TxsOf(p) \cap (CoinBase \cup CoinStake)) # {}
                => nHeight[b] - nHeight[p] >= nCoinbaseMaturity
    BY <2>1, <2>2
  <2> QED
    BY <2>3, SameTree DEF L!MatureIn
<1>2. PICK i \in DOMAIN vtx[b] : s = vtx[b][i]
  BY DEF TxsOf
<1> DEFINE o == <<t, n>>
           pos == PosOf(ti, b, i, t)
<1>3. o[1] = t
  OBVIOUS
<1>4. t \in Queued(b, i) \cup DOMAIN ti /\ Mature(pos, b)
  <2>1. FetchInputs(ti, b, i) /\ ConnectInputs(ti, b, i)
    BY <1>1, Zenon DEF ConnectBlockOK
  <2> QED
    BY <1>2, <1>3, <2>1, Zenon DEF FetchInputs, ConnectInputs
<1>5. pos \in Branch[b] /\ nHeight[p] <= nHeight[pos]
  <2>1. CASE t \in Queued(b, i)
    BY <2>1, BranchEnds, HeightGrows, Zenon DEF PosOf
  <2>2. CASE t \notin Queued(b, i)
    <3>1. t \in TxsOfBranch(q) /\ pos = PosIn(q, t)
      BY <1>4, <2>2, IndexDomain, IndexEntry, Zenon DEF PosOf
    <3>2. pos \in Connected(q) /\ t \in TxsOf(pos)
      BY <3>1 DEF PosIn, TxsOfBranch
    <3> HIDE DEF pos
    <3>3. pos \in Connected(b) /\ pos \in Branch[b] /\ pos \in Blocks /\ nHeight[pos] \in Int
      BY <1>1, <3>2, BranchEnds, HeightType, Zenon
    <3>4. CASE p = Genesis
      BY <3>3, <3>4, BranchEnds, HeightGrows, Zenon
    <3>5. CASE p # Genesis
      <4>1. p \in Connected(b)
        BY <3>5 DEF Connected
      <4>2. p = pos
        BY <3>2, <3>3, <4>1, PosUnique, Zenon
      <4> QED
        BY <3>3, <4>2
    <3> QED
      BY <3>3, <3>4, <3>5, Zenon
  <2> QED
    BY <2>1, <2>2, Zenon
<1> HIDE DEF pos
<1>6. nHeight[b] \in Int /\ nHeight[p] \in Int /\ nHeight[pos] \in Int /\ nCoinbaseMaturity \in Nat
  BY <1>5, BranchEnds, HeightType, TxAssumption, Zenon
<1>7. nHeight[b] - nHeight[pos] >= nCoinbaseMaturity
  BY <1>4, <1>5, MatureIs, BranchEnds, Zenon
<1> QED
  BY <1>5, <1>6, <1>7

(* A chain whose blocks connect is valid in the sense of Ledger. *)
LEMMA ValidIsValidChain ==
  ASSUME NEW b \in Blocks, ValidBranch(b)
  PROVE  L!ValidChain(b)
<1>1. ASSUME NEW x \in Branch[b] \ {Genesis}
      PROVE  L!Follows(x) /\ L!MatureIn(x)
  BY <1>1, BranchEnds, ValidAncestor, ConnectsFollows, ConnectsMature
<1> QED
  BY <1>1, SameTree DEF L!ValidChain

(* Every postponed block has connected. *)
NoneTorn == torn = {}

(***************************************************************************)
(* BlockChain implements Ledger as long as no postponed block fails to     *)
(* connect: whatever is indexed, disconnected, connected, aborted, lost in *)
(* a crash or refused by the disk, the database moves from the ledger of   *)
(* one valid chain to that of another in single steps.                     *)
(***************************************************************************)
THEOREM RefinesLedger == Spec /\ []NoneTorn => ImplementsLedger
<1>1. Init => L!Init
  BY DEF Init, L!Init, UnspentIn
<1>2. ASSUME IInv', LedgerInv', NoneTorn'
      PROVE  L!Next
  <2>1. db'.best \in Blocks /\ db'.txindex = TxIndexOf(db'.best) /\ ValidBranch(db'.best)
    BY <1>2 DEF NoneTorn, IInv, TypeOK, DBTypeOK, LedgerInv, ValidBranch, TxIndexOf, Connected, TxsOfBranch
  <2>2. L!ValidChain(db'.best) /\ UnspentIn(db'.txindex) = L!unspentAfter[db'.best]
    BY <2>1, ValidIsValidChain, UnspentInIndex, Zenon
  <2>3. L!Adopt(db'.best)
    BY <2>2 DEF L!Adopt
  <2> QED
    BY <2>1, <2>3, ZenonT(30) DEF L!Next
<1>3. IInv' /\ LedgerInv' /\ NoneTorn' => [L!Next]_<<db.best, UnspentIn(db.txindex)>>
  BY <1>2
<1> QED
  BY <1>1, <1>3, Invariance, LedgerHolds, PTL DEF Spec, ImplementsLedger, L!Spec

(* In particular it does when the process neither restarts nor meets a     *)
(* disk error and there is no sync-checkpoint.                             *)
COROLLARY RefinesLedgerUndisturbed == Spec /\ []Undisturbed => ImplementsLedger
<1>1. PostponedBlocksConnect /\ Undisturbed => NoneTorn
  BY Zenon DEF PostponedBlocksConnect, Undisturbed, NoneTorn
<1> QED
  BY <1>1, PostponedConnect, RefinesLedger, PTL

-----------------------------------------------------------------------------
(*                            The memory pool                              *)

(* CTxMemPool(): an empty pool is indexed. *)
LEMMA EmptyPoolIndexed == PoolIndexed(EmptyPool)
<1>1. InputsOf({}) = {}
  BY DEF InputsOf
<1> QED
  BY <1>1 DEF PoolIndexed, EmptyPool

(* CTxMemPool::addUnchecked, for a transaction that accept let through:    *)
(* none of its inputs is spent by a pooled transaction.                    *)
LEMMA AddKeepsIndexed ==
  ASSUME NEW pool, PoolIndexed(pool), NEW t, vin[t] \cap DOMAIN pool.mapNextTx = {}
  PROVE  PoolIndexed(addUnchecked(pool, t))
<1> DEFINE new == addUnchecked(pool, t)
<1>1. /\ new.mapTx = pool.mapTx \cup {t}
      /\ DOMAIN new.mapNextTx = DOMAIN pool.mapNextTx \cup vin[t]
      /\ \A o \in DOMAIN new.mapNextTx :
            new.mapNextTx[o] = IF o \in vin[t] THEN t ELSE pool.mapNextTx[o]
  BY DEF addUnchecked
<1>2. InputsOf(pool.mapTx \cup {t}) = InputsOf(pool.mapTx) \cup vin[t]
  BY DEF InputsOf
<1>3. \A s \in pool.mapTx : vin[s] \subseteq DOMAIN pool.mapNextTx
  BY DEF PoolIndexed, InputsOf
<1> HIDE DEF new
<1>4. PoolIndexed(new)
  BY <1>1, <1>2, <1>3, Zenon DEF PoolIndexed
<1> QED
  BY <1>4, Zenon DEF new

(* CTxMemPool::remove: the inputs of what leaves the pool, and only those, *)
(* leave mapNextTx.                                                        *)
LEMMA RemoveKeepsIndexed ==
  ASSUME NEW pool, PoolIndexed(pool), NEW T
  PROVE  PoolIndexed(removeAll(pool, T))
<1> DEFINE new == removeAll(pool, T)
<1>1. /\ new.mapTx = pool.mapTx \ T
      /\ DOMAIN new.mapNextTx = DOMAIN pool.mapNextTx \ InputsOf(T \cap pool.mapTx)
      /\ \A o \in DOMAIN new.mapNextTx : new.mapNextTx[o] = pool.mapNextTx[o]
  BY DEF removeAll
<1>2. \A o \in DOMAIN pool.mapNextTx :
         o \in InputsOf(T \cap pool.mapTx) <=> pool.mapNextTx[o] \in T
  BY DEF PoolIndexed, InputsOf
<1>3. DOMAIN new.mapNextTx = InputsOf(pool.mapTx \ T)
  <2>1. ASSUME NEW o \in DOMAIN new.mapNextTx
        PROVE  o \in InputsOf(pool.mapTx \ T)
    <3>1. o \in DOMAIN pool.mapNextTx /\ pool.mapNextTx[o] \in pool.mapTx \ T
      BY <1>1, <1>2 DEF PoolIndexed
    <3>2. o \in vin[pool.mapNextTx[o]]
      BY <3>1, Zenon DEF PoolIndexed
    <3> QED
      BY <3>1, <3>2, Zenon DEF InputsOf
  <2>2. ASSUME NEW o \in InputsOf(pool.mapTx \ T)
        PROVE  o \in DOMAIN new.mapNextTx
    <3>1. PICK s \in pool.mapTx \ T : o \in vin[s]
      BY DEF InputsOf
    <3>2. o \in DOMAIN pool.mapNextTx /\ pool.mapNextTx[o] = s
      BY <3>1 DEF PoolIndexed, InputsOf
    <3> QED
      BY <1>1, <1>2, <3>1, <3>2, Zenon
  <2> QED
    BY <2>1, <2>2, Zenon
<1> HIDE DEF new
<1>4. PoolIndexed(new)
  BY <1>1, <1>2, <1>3, Zenon DEF PoolIndexed
<1> QED
  BY <1>4, Zenon DEF new

(* CTxMemPool::removeConflicts *)
LEMMA RemoveConflictsKeepsIndexed ==
  ASSUME NEW pool, PoolIndexed(pool), NEW t
  PROVE  PoolIndexed(removeConflicts(pool, t))
BY RemoveKeepsIndexed DEF removeConflicts

(* CTxMemPool::accept without a check of the inputs. *)
LEMMA ResurrectKeepsIndexed ==
  ASSUME NEW pool, PoolIndexed(pool), NEW t
  PROVE  PoolIndexed(resurrect(pool, t))
BY AddKeepsIndexed DEF resurrect, Acceptable

(* CTxMemPool: through acceptance, removal, the resurrection and deletion  *)
(* of a reorganisation, and restarts, mapNextTx holds exactly the inputs   *)
(* of the pooled transactions: no two of them spend the same output, and   *)
(* no CInPoint points to a transaction that has left.                      *)
THEOREM PoolStaysIndexed == Spec => []MempoolIndexed
<1>1. Init => MempoolIndexed
  BY EmptyPoolIndexed, Zenon DEF Init, MempoolIndexed
<1>2. ASSUME MempoolIndexed, [Next]_vars
      PROVE  MempoolIndexed'
  <2> USE DEF MempoolIndexed
  <2>1. CASE mempool' = mempool
    BY <1>2, <2>1
  <2>2. CASE Resurrect
    BY <1>2, <2>2, ResurrectKeepsIndexed, Zenon DEF Resurrect
  <2>3. CASE Delete
    BY <1>2, <2>3, RemoveKeepsIndexed, RemoveConflictsKeepsIndexed DEF Delete
  <2>4. CASE SetBestChainInner
    BY <1>2, <2>4, RemoveKeepsIndexed DEF SetBestChainInner
  <2>5. CASE \E t \in Txs : AcceptToMemoryPool(t)
    BY <1>2, <2>5, AddKeepsIndexed, Zenon DEF AcceptToMemoryPool, AcceptOK, Acceptable
  <2>6. CASE Restart
    BY <2>6, RestartEffect, EmptyPoolIndexed
  <2> HIDE DEF MempoolIndexed
  <2> QED
    BY <1>2, <2>1, <2>2, <2>3, <2>4, <2>5, <2>6, Frames
       DEF DisconnectTip, ConnectTip, AbortReorganize
<1> QED
  BY <1>1, <1>2, PTL DEF Spec

(* The transactions of a list. *)
Listed(s) == {s[i] : i \in DOMAIN s}

(* What lists of transactions hold. *)
LEMMA ListedFacts ==
  ASSUME NEW s \in Seq(Txs), NEW b \in Blocks
  PROVE  /\ Listed(<<>>) = {}
         /\ Listed(s \o vtx[b]) = Listed(s) \cup TxsOf(b)
         /\ s # <<>> => Listed(s) = {Head(s)} \cup Listed(Tail(s))
<1>1. vtx[b] \in Seq(Txs)
  BY TxAssumption
<1>2. Listed(<<>>) = {}
  BY DEF Listed
<1>3. Listed(s \o vtx[b]) = Listed(s) \cup TxsOf(b)
  <2> DEFINE u == s \o vtx[b]
             at(j) == Len(s) + j
  <2>1. \A i \in DOMAIN s : i \in DOMAIN u /\ u[i] = s[i]
    BY <1>1
  <2>2. \A j \in DOMAIN vtx[b] : at(j) \in DOMAIN u /\ u[at(j)] = vtx[b][j]
    BY <1>1
  <2>3. \A i \in DOMAIN u : i \in DOMAIN s \/ \E j \in DOMAIN vtx[b] : i = at(j)
    <3> SUFFICES ASSUME NEW i \in DOMAIN u, i \notin DOMAIN s
                 PROVE  \E j \in DOMAIN vtx[b] : i = at(j)
      OBVIOUS
    <3>1. i - Len(s) \in DOMAIN vtx[b] /\ i = at(i - Len(s))
      BY <1>1
    <3> QED
      BY <3>1
  <2> HIDE DEF u, at
  <2>4. Listed(u) = Listed(s) \cup TxsOf(b)
    BY <2>1, <2>2, <2>3 DEF Listed, TxsOf
  <2> QED
    BY <2>4 DEF u
<1>4. ASSUME s # <<>>
      PROVE  Listed(s) = {Head(s)} \cup Listed(Tail(s))
  <2>1. 1 \in DOMAIN s /\ Head(s) = s[1]
    BY <1>4
  <2>2. \A i \in DOMAIN Tail(s) : i + 1 \in DOMAIN s /\ Tail(s)[i] = s[i + 1]
    BY <1>4
  <2>3. \A i \in DOMAIN s : i = 1 \/ (i - 1 \in DOMAIN Tail(s) /\ i = (i - 1) + 1)
    BY <1>4
  <2> QED
    BY <2>1, <2>2, <2>3 DEF Listed
<1> QED
  BY <1>2, <1>3, <1>4

(***************************************************************************)
(* A transaction that is pooled, or is to be, is in no index, unless it is *)
(* still to be deleted: Reorganize resurrects without a look at the index, *)
(* and relies on its two lists.                                            *)
(***************************************************************************)
PoolInv ==
    /\ pc # "mempool" => mempool.mapTx \cap DOMAIN db.txindex = {}
    /\ pc = "mempool" =>
         (mempool.mapTx \cup Listed(vResurrect)) \cap DOMAIN db.txindex
             \subseteq Listed(vDelete)
    /\ pc = "reorganize" =>
         (mempool.mapTx \cup Listed(vResurrect)) \cap DOMAIN batch.txindex
             \subseteq Listed(vDelete)
    /\ pc \notin {"reorganize", "mempool"} => vResurrect = <<>> /\ vDelete = <<>>

(* The steps that move transactions between the pool, the lists and the    *)
(* indexes.                                                                *)
Pooling == \/ SetBestChain \/ DisconnectTip \/ ConnectTip \/ CommitReorganize
           \/ AbortReorganize \/ Resurrect \/ Delete \/ ReorganizeDone
           \/ SetBestChainInner \/ Restart
           \/ \E t \in Txs : AcceptToMemoryPool(t)

(* All other steps leave them where they are. *)
LEMMA PoolingFrame ==
  ASSUME IInv, [Next]_vars, ~ Pooling
  PROVE  /\ UNCHANGED poolVars /\ db'.txindex = db.txindex
         /\ \/ UNCHANGED <<pc, batch>>
            \/ /\ pc' \notin {"reorganize", "mempool"}
               /\ pc \notin {"reorganize", "mempool"}
<1>1. UNCHANGED poolVars /\ db'.txindex = db.txindex
  BY Frames, ZenonT(30) DEF Pooling, AcceptBlock, WriteSyncCheckpoint, IInv, TypeOK, DBTypeOK
<1>2. \/ UNCHANGED <<pc, batch>>
      \/ /\ pc' \notin {"reorganize", "mempool"}
         /\ pc \notin {"reorganize", "mempool"}
  BY ZenonT(30) DEF Pooling, Next, Request, Handler, vars, ProcessOrphanBlock, ProcessBlock,
         ProcessSyncCheckpoint, AcceptBlock, RejectBlock,
         TryOrphan, NextParent, SetBestChainInnerFails, NewBestBlock,
         AddToBlockIndexReturns, NoPendingSyncCheckpoint,
         DropPendingSyncCheckpoint, AcceptPendingSyncCheckpoint,
         SyncCheckpointOnMainChain, SyncCheckpointFails, WriteSyncCheckpoint,
         LoadBlockIndexReturns, AcceptBlockReturns, CheckpointReturns,
         EnforceSyncCheckpoint, IInv, CallInv, CheckpointCallers, Callers, Calling
<1> QED
  BY <1>1, <1>2, Zenon

(* Every step keeps PoolInv. *)
LEMMA PoolStep ==
  ASSUME IInv, PoolInv, [Next]_vars
  PROVE  PoolInv'
<1> USE DEF PoolInv
<1>1. DBTypeOK /\ vResurrect \in Seq(Txs) /\ vDelete \in Seq(Txs)
  BY DEF IInv, TypeOK, PoolTypeOK
<1>2. CASE ~ Pooling
  BY <1>2, PoolingFrame, Zenon DEF Listed
<1>3. CASE SetBestChain
  <2>1. /\ pc = "setbest" /\ pc' \in {"inner", "reorganize"}
        /\ pc' = "reorganize" => batch' = [txindex |-> db.txindex, next |-> db.next]
        /\ UNCHANGED <<poolVars, db>>
    BY <1>3 DEF SetBestChain
  <2>2. pc' = "reorganize" => batch'.txindex = db.txindex
    BY ONLY <2>1
  <2> QED
    BY <1>1, <2>1, <2>2 DEF Listed
<1>4. CASE DisconnectTip
  <2>1. /\ pc = "reorganize" /\ pc' = pc /\ UNCHANGED <<mempool, vDelete, db>>
        /\ vResurrect' = vResurrect \o vtx[sbc.tip] /\ sbc.tip \in Blocks
        /\ batch'.txindex = DisconnectBlock(batch.txindex, sbc.tip)
    BY <1>4, Zenon DEF DisconnectTip, IInv, CallInv
  <2>2. DOMAIN batch'.txindex = DOMAIN batch.txindex \ TxsOf(sbc.tip)
    BY <2>1, Zenon DEF DisconnectBlock
  <2>3. Listed(vResurrect') = Listed(vResurrect) \cup TxsOf(sbc.tip)
    BY <1>1, <2>1, ListedFacts, Zenon
  <2> QED
    BY <2>1, <2>2, <2>3
<1>5. CASE ConnectTip
  <2> DEFINE c == NextBlock(sbc.inter)
  <2>1. /\ pc = "reorganize" /\ pc' = pc /\ UNCHANGED <<mempool, vResurrect, db>>
        /\ vDelete' = vDelete \o vtx[c]
        /\ batch'.txindex = ConnectBlock(batch.txindex, c)
    BY <1>5 DEF ConnectTip
  <2>2. c \in Blocks
    BY <1>5, NextBlockType, BranchEnds, Zenon DEF ConnectTip
  <2> HIDE DEF c
  <2>3. DOMAIN batch'.txindex = DOMAIN batch.txindex \cup TxsOf(c)
    BY <2>1 DEF ConnectBlock
  <2>4. Listed(vDelete') = Listed(vDelete) \cup TxsOf(c)
    BY <1>1, <2>1, <2>2, ListedFacts, Zenon
  <2> QED
    BY <2>1, <2>3, <2>4
<1>6. CASE CommitReorganize
  BY <1>1, <1>6 DEF CommitReorganize, DBTypeOK, Listed
<1>7. CASE AbortReorganize
  BY <1>7, Zenon DEF AbortReorganize
<1>8. CASE Resurrect
  <2>1. /\ pc = "mempool" /\ pc' = pc /\ UNCHANGED <<vDelete, db>>
        /\ vResurrect # <<>> /\ vResurrect' = Tail(vResurrect)
        /\ mempool'.mapTx \subseteq mempool.mapTx \cup {Head(vResurrect)}
    BY <1>8 DEF Resurrect, resurrect, addUnchecked
  <2>2. Listed(vResurrect) = {Head(vResurrect)} \cup Listed(vResurrect')
    BY <1>1, <2>1, ListedFacts, TreeAssumption, Zenon
  <2> QED
    BY <2>1, <2>2, ZenonT(30) DEF Listed
<1>9. CASE Delete
  <2>1. /\ pc = "mempool" /\ pc' = pc /\ UNCHANGED <<vResurrect, db>>
        /\ vDelete # <<>> /\ vDelete' = Tail(vDelete) /\ vResurrect = <<>>
        /\ mempool'.mapTx \subseteq mempool.mapTx \ {Head(vDelete)}
    BY <1>9, Zenon DEF Delete, removeConflicts, removeAll
  <2>2. Listed(vDelete) = {Head(vDelete)} \cup Listed(vDelete')
    BY <1>1, <2>1, ListedFacts, TreeAssumption, Zenon
  <2>3. Listed(vResurrect) = {} /\ Listed(vResurrect') = {}
    <3>1. Listed(<<>>) = {}
      BY DEF Listed
    <3> QED
      BY ONLY <2>1, <3>1, Zenon
  <2> QED
    BY <2>1, <2>2, <2>3
<1>10. CASE ReorganizeDone
  BY <1>10 DEF ReorganizeDone, Listed
<1>11. CASE SetBestChainInner
  <2>1. /\ pc = "inner" /\ pc' = pc /\ UNCHANGED <<vResurrect, vDelete>>
        /\ mempool'.mapTx = mempool.mapTx \ TxsOf(NextBlock(sbc.new))
        /\ db'.txindex = ConnectBlock(db.txindex, NextBlock(sbc.new))
    BY <1>1, <1>11 DEF SetBestChainInner, removeAll, DBTypeOK
  <2>2. DOMAIN db'.txindex = DOMAIN db.txindex \cup TxsOf(NextBlock(sbc.new))
    BY <2>1, Zenon DEF ConnectBlock
  <2> QED
    BY <2>1, <2>2, Zenon
<1>12. CASE Restart
  <2>1. pc' \in {"idle", "setbest"}
    BY <1>12, RestartCalls, Zenon
  <2>2. vResurrect' = <<>> /\ vDelete' = <<>> /\ mempool'.mapTx = {}
    BY <1>12, RestartEffect DEF EmptyPool
  <2> QED
    BY ONLY <2>1, <2>2 DEF PoolInv
<1>13. CASE \E t \in Txs : AcceptToMemoryPool(t)
  <2>1. PICK t \in Txs : AcceptToMemoryPool(t)
    BY <1>13
  <2>2. /\ pc = "idle" /\ UNCHANGED <<pc, db, batch, vResurrect, vDelete>>
        /\ t \notin DOMAIN db.txindex /\ mempool'.mapTx = mempool.mapTx \cup {t}
    BY ONLY <2>1, Zenon DEF AcceptToMemoryPool, AcceptOK, addUnchecked
  <2> QED
    BY ONLY <2>2, PoolInv, Zenon DEF PoolInv
<1> QED
  BY <1>2, <1>3, <1>4, <1>5, <1>6, <1>7, <1>8, <1>9, <1>10, <1>11, <1>12, <1>13, Zenon
     DEF Pooling

(* Reorganize, SetBestChainInner: although a reorganisation puts           *)
(* transactions back into the pool without a look at the index, and an     *)
(* aborted one forgets its lists, no transaction is pooled and indexed     *)
(* when a handler returns.                                                 *)
THEOREM PoolStaysDisjoint == Spec => []PoolDisjoint
<1>1. Init => PoolInv
  BY DEF Init, PoolInv, EmptyPool
<1>2. PoolInv => PoolDisjoint
  BY Zenon DEF PoolInv, PoolDisjoint
<1> QED
  BY <1>1, <1>2, PoolStep, Invariance, PTL DEF Spec
=============================================================================
