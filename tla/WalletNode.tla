----------------------------- MODULE WalletNode ------------------------------
(***************************************************************************)
(* A node with its wallet: the memory pool and the orphan transactions of  *)
(* OrphanTx, the chain, and the wallet that all of them tell of what they  *)
(* do.  The wallet is told under cs_main, before the chain's own changes   *)
(* are committed: an attempt to change the chain that fails has told it    *)
(* already.  The wallet can also be told by a restart, which scans the     *)
(* chain and gives its transactions to the empty memory pool.              *)
(***************************************************************************)
EXTENDS OrphanTx, Wallet

VARIABLES
    mapWallet,
    reaccept,       \* wallet transactions that a restart has still to pool
    astray,         \* history: entries whose block a failed attempt has changed
    stale,          \* history: entries whose flags it has changed
    adopted         \* history: orphans that were accepted

nodeVars == <<tip, mempool, orphanVars, queueVars, elsewhere>>
walletVars == <<mapWallet, reaccept, astray, stale, adopted>>
allVars == <<nodeVars, walletVars>>

InitNode ==
    /\ Init
    /\ mapWallet = <<>>
    /\ reaccept = {}
    /\ astray = {}
    /\ stale = {}
    /\ adopted = {}

Started == reaccept = {}

(* SyncWithWallets for a transaction that is in no block. *)
SyncWithWallets(t) ==
    /\ mapWallet' = AddToWalletIfInvolvingMe(mapWallet, t, Nil, TRUE)
    /\ UNCHANGED <<reaccept, astray, stale>>

-----------------------------------------------------------------------------
(*                        Transactions, and the user                       *)

TxToWallet(t) == Started /\ ReceiveTx(t) /\ SyncWithWallets(t) /\ UNCHANGED adopted

OrphanTxToWallet(t) == Started /\ ReceiveOrphanTx(t) /\ UNCHANGED walletVars

(* When an orphan is accepted it is tx, the transaction of the message,    *)
(* that the wallet is given.                                               *)
TryOrphanTxToWallet ==
    /\ TryOrphanTx
    /\ IF mempool' = mempool
       THEN UNCHANGED walletVars
       ELSE /\ SyncWithWallets(vMsg)
            /\ adopted' = adopted \cup (mempool'.mapTx \ mempool.mapTx)

HandlerToWallet ==
    \/ TryOrphanTxToWallet
    \/ (NextTx \/ TxDone) /\ UNCHANGED walletVars

(* Mutant: the wallet is not told. *)
RawTxToWallet_silent(t) == Started /\ LocalTx(t) /\ UNCHANGED walletVars

(* sendrawtransaction *)
RawTxToWallet(t) == Started /\ LocalTx(t) /\ SyncWithWallets(t) /\ UNCHANGED adopted

(* CreateTransaction and CommitTransaction, which run under one lock: a    *)
(* new transaction that spends available coins is recorded and then given  *)
(* to the memory pool.                                                     *)
CommitTransaction(t) ==
    /\ Started /\ Idle
    /\ t \notin DOMAIN mapWallet \cup CoinBase \cup CoinStake \cup LowFee
    /\ vin[t] \subseteq AvailableCoins(mapWallet, mempool, tip)
    /\ mapWallet' = MarkSpent(AddToWallet(mapWallet, t, Nil,
                                 AddSupportingTransactions(mapWallet, txindex[tip], tip, t)),
                              vin[t])
    /\ IF Accepted(t)
       THEN /\ mempool' = addUnchecked(mempool, t)
            /\ elsewhere' = elsewhere \cup {t}
       ELSE UNCHANGED <<mempool, elsewhere>>
    /\ UNCHANGED <<tip, orphanVars, queueVars, reaccept, astray, stale, adopted>>

(* The repairwallet command. *)
RepairWallet ==
    /\ Started /\ Idle
    /\ mapWallet' = FixSpentCoins(mapWallet, txindex[tip])
    /\ stale' = {}
    /\ UNCHANGED <<nodeVars, reaccept, astray, adopted>>

-----------------------------------------------------------------------------
(*                                 Blocks                                  *)

(* What the wallet is told while the blocks from one tip down, and the     *)
(* given ones up, are disconnected and connected.                          *)
SyncBlocks(w, down, up) ==
    FoldLeft(SyncConnected, FoldLeft(SyncDisconnected, w, down), up)

TxsOfBlocks(s) == UNION {TxsOf(s[i]) : i \in DOMAIN s}

ChainToWallet(b) ==
    /\ mapWallet' = SyncBlocks(mapWallet, BlocksDown(tip, b), BlocksUp(b, tip))
    /\ astray' = astray \ TxsOfBlocks(BlocksUp(b, tip))
    /\ stale' = stale \ TxsOfBlocks(BlocksUp(b, tip))
    /\ UNCHANGED <<reaccept, adopted>>

ExtendChainToWallet(b) == Started /\ ExtendChain(b) /\ ChainToWallet(b)

ReorganizeToWallet(b) == Started /\ Reorganize(b) /\ ChainToWallet(b)

(* SetBestChain fails after j blocks of the old branch have been           *)
(* disconnected and, if those were all, k of the new one connected: the    *)
(* next one does not connect or cannot be read or written, or the commit   *)
(* fails.  The chain is what it was, and the wallet has been told.         *)
SetBestChainFails(b, j, k) ==
    LET down == BlocksDown(tip, b)
        up   == BlocksUp(b, tip)
        w    == SyncBlocks(mapWallet, SubSeq(down, 1, j), SubSeq(up, 1, k))
    IN  /\ Started /\ Idle
        /\ nChainTrust[hashPrevBlock[b]] <= nChainTrust[tip]
        /\ nChainTrust[tip] < nChainTrust[b]
        /\ j \in 0..Len(down)
        /\ k \in 0..(IF j = Len(down) THEN Len(up) ELSE 0)
        /\ \A i \in 1..k : ConnectBlockOK(txindex[hashPrevBlock[up[i]]], up[i])
        /\ mapWallet' = w
        /\ astray' = astray \cup {t \in DOMAIN mapWallet :
                                    w[t].hashBlock # mapWallet[t].hashBlock}
        /\ stale' = stale \cup {t \in DOMAIN mapWallet : w[t].vfSpent # mapWallet[t].vfSpent}
        /\ UNCHANGED <<nodeVars, reaccept, adopted>>

-----------------------------------------------------------------------------
(*                                Restart                                  *)

(* The process stops, at any point, and starts again.  The pool and the    *)
(* orphans are gone.  The chain is scanned from the genesis block          *)
(* (-rescan), or from the wallet's own record of the best block, which is  *)
(* not written during a download; not at all if that is the best block.    *)
(* Then ReacceptWalletTransactions marks what the index has as spent.  It  *)
(* scans for the transactions that spend it, too, and starts again if it   *)
(* finds one that is missing: ChainInWallet says that it does not.         *)
Restart(from) ==
    LET blocks == IF from = tip THEN <<>> ELSE <<from>> \o BlocksUp(tip, from)
        w      == ScanForWalletTransactions(mapWallet, blocks, TRUE)
    IN  /\ from \in Branch[tip]
        /\ mapWallet' = ReacceptSpent(w, txindex[tip])
        /\ reaccept' = ReacceptTxs(w, txindex[tip])
        /\ astray' = astray \ TxsOfBlocks(blocks)
        /\ stale' = (stale \ TxsOfBlocks(blocks)) \cap LeftAlone(w)
        /\ mempool' = EmptyPool
        /\ mapOrphanTransactions' = {}
        /\ mapOrphanTransactionsByPrev' = <<>>
        /\ vWorkQueue' = <<>>
        /\ vEraseQueue' = {}
        /\ todo' = {}
        /\ vMsg' = Nil
        /\ UNCHANGED <<tip, elsewhere, adopted>>

(* One of the wallet's transactions is given to the pool, in the order of  *)
(* mapWallet, which is any order.                                          *)
ReacceptTx ==
    /\ \E t \in reaccept : \E copies \in Supporting(mapWallet, t) :
          LET q == AcceptWalletTransaction(mempool, txindex[tip], tip, copies, t)
          IN  /\ reaccept' = reaccept \ {t}
              /\ mempool' = q
              /\ elsewhere' = elsewhere \cup (q.mapTx \ mempool.mapTx)
    /\ UNCHANGED <<tip, orphanVars, queueVars, mapWallet, astray, stale, adopted>>

-----------------------------------------------------------------------------
NextNode ==
    \/ HandlerToWallet
    \/ \E t \in Txs : \/ TxToWallet(t) \/ OrphanTxToWallet(t) \/ RawTxToWallet(t)
                      \/ CommitTransaction(t)
    \/ \E b \in Blocks \ {Genesis} :
          \/ ExtendChainToWallet(b) \/ ReorganizeToWallet(b)
          \/ \E j, k \in 0..Cardinality(Blocks) : SetBestChainFails(b, j, k)
    \/ \E b \in Blocks : Restart(b)
    \/ RepairWallet
    \/ ReacceptTx

SpecNode == InitNode /\ [][NextNode]_allVars

-----------------------------------------------------------------------------
(*                             Properties                                  *)

(* The types of the variables, those of OrphanTx included. *)
WalletTypeOK ==
    /\ TypeOK
    /\ DOMAIN mapWallet \subseteq Txs
    /\ \A t \in DOMAIN mapWallet :
          /\ mapWallet[t].hashBlock \in Blocks \cup {Nil}
          /\ mapWallet[t].vfSpent \subseteq 1..nOut[t]
          /\ DOMAIN mapWallet[t].vtxPrev \subseteq Txs
    /\ reaccept \cup astray \cup stale \subseteq DOMAIN mapWallet
    /\ adopted \subseteq Txs

(* SyncWithWallets, "make sure all wallets know about the given            *)
(* transaction, in the given block": every transaction of the chain that   *)
(* pays us or spends from us is in the wallet, under the block that holds  *)
(* it, unless a failed attempt to change the chain has moved it.           *)
ChainInWallet ==
    \A t \in DOMAIN txindex[tip] :
        IsMine(t) \/ vin[t] \cap Mine # {} =>
            /\ t \in DOMAIN mapWallet
            /\ t \notin astray => mapWallet[t].hashBlock = txindex[tip][t].pos

(* WalletUpdateSpent, "it's proof the outpoint is spent": no output of     *)
(* ours that the chain has as spent counts as unspent, unless a failed     *)
(* attempt to change the chain has unmarked it and neither a restart nor   *)
(* repairwallet has marked it again.                                       *)
SpentOnChain ==
    \A t \in DOMAIN mapWallet \ stale :
        t \in DOMAIN txindex[tip] =>
            \A o \in OutputsOf(t) \cap Mine :
                txindex[tip][t].vSpent[o[2]] # Nil => o[2] \in mapWallet[t].vfSpent

(* MarkSpent: an output counts as spent only while the wallet shows a      *)
(* transaction that spends it, so that no coin is lost without a trace.    *)
SpentIsShown ==
    \A t \in DOMAIN mapWallet : \A n \in mapWallet[t].vfSpent :
        \E s \in DOMAIN mapWallet : <<t, n>> \in vin[s]

(* SyncWithWallets, again for a transaction in no block: what the pool     *)
(* holds and concerns us is in the wallet, unless it was accepted as an    *)
(* orphan, for which the wallet is given another transaction, or does not  *)
(* pay us and spends only outputs of ours that the wallet missed that way. *)
PoolInWallet ==
    \A t \in mempool.mapTx \ adopted :
        IsMine(t) \/ (\E o \in vin[t] \cap Mine : o[1] \notin adopted) => t \in DOMAIN mapWallet

(* CommitTransaction, "This must not fail. The transaction has already     *)
(* been signed and recorded.": the memory pool refuses what the wallet     *)
(* makes of its available coins only when another pooled transaction       *)
(* spends one of them, or when their flags are stale.                      *)
CommitAccepted ==
    [][\A t \in Txs :
          CommitTransaction(t) => \/ t \in mempool'.mapTx
                                  \/ vin[t] \cap DOMAIN mempool.mapNextTx # {}
                                  \/ \E o \in vin[t] : o[1] \in stale]_allVars
=============================================================================
