------------------------------ MODULE OrphanTx -------------------------------
(***************************************************************************)
(* The "tx" message (main.cpp): a transaction goes to the memory pool, and *)
(* the orphans that waited for it after it; one whose inputs are not known *)
(* is kept as an orphan.  The number of orphans is limited.                *)
(*                                                                         *)
(* The handler runs under cs_main.  It is split into the tries of single   *)
(* orphans, since each of them depends on the ones before; the order       *)
(* within a set of hashes is any order.  The block chain is seen through   *)
(* its last block: BlockChain shows that the transaction index is the one  *)
(* of the best chain.                                                      *)
(***************************************************************************)
EXTENDS Mempool, Loops

CONSTANTS
    MaxOrphans,     \* MAX_ORPHAN_TRANSACTIONS
    Large           \* transactions of more than 5000 bytes

ASSUME OrphanTxAssumption ==
    /\ MaxOrphans \in Nat
    /\ Large \subseteq Txs

VARIABLES
    tip,                            \* the last block of the best chain
    mempool,
    mapOrphanTransactions,          \* the orphans
    mapOrphanTransactionsByPrev,    \* hash -> the orphans that spend from it
    vWorkQueue,                     \* accepted transactions, still to be looked up
    vEraseQueue,                    \* transactions to erase from the orphans
    todo,                           \* orphans of the first of vWorkQueue, not yet tried
    vMsg,                           \* the transaction of the message, or Nil
    elsewhere                       \* history: transactions from a block or the user

orphanVars == <<mapOrphanTransactions, mapOrphanTransactionsByPrev>>
queueVars == <<vWorkQueue, vEraseQueue, todo, vMsg>>
vars == <<tip, mempool, orphanVars, queueVars, elsewhere>>

txindex == [b \in Blocks |-> TxIndexOf(b)]

Idle == vMsg = Nil

Init ==
    /\ tip = Genesis
    /\ mempool = EmptyPool
    /\ mapOrphanTransactions = {}
    /\ mapOrphanTransactionsByPrev = <<>>
    /\ vWorkQueue = <<>>
    /\ vEraseQueue = {}
    /\ todo = {}
    /\ vMsg = Nil
    /\ elsewhere = {}

-----------------------------------------------------------------------------
(*                            The maps of orphans                          *)

PrevsOf(T) == {o[1] : o \in InputsOf(T)}

(* mapOrphanTransactionsByPrev[h], which makes an entry if there is none. *)
ByPrev(m, h) == IF h \in DOMAIN m THEN m[h] ELSE {}

Touched(m, h) == [x \in DOMAIN m \cup {h} |-> ByPrev(m, x)]

(* AddOrphanTx, for a transaction that is not held and not large. *)
WithOrphan(m, t) ==
    [x \in DOMAIN m \cup PrevsOf({t}) |->
        IF x \in PrevsOf({t}) THEN ByPrev(m, x) \cup {t} ELSE m[x]]

(* Mutant: the entries of an erased orphan stay. *)
WithoutOrphans_kept(m, T) == m

(* EraseOrphanTx, for orphans T: an entry goes when its last orphan does. *)
WithoutOrphans(m, T) ==
    [x \in DOMAIN m \ {p \in PrevsOf(T) : ByPrev(m, p) \subseteq T} |-> m[x] \ T]

EraseOrphans(T) ==
    /\ mapOrphanTransactions' = mapOrphanTransactions \ T
    /\ mapOrphanTransactionsByPrev' =
         WithoutOrphans(mapOrphanTransactionsByPrev, T \cap mapOrphanTransactions)

(* LimitOrphanTxSize: random orphans go until the limit is kept. *)
Evictions(T) ==
    {E \in SUBSET T : Cardinality(E) = IF Cardinality(T) > MaxOrphans
                                       THEN Cardinality(T) - MaxOrphans
                                       ELSE 0}

-----------------------------------------------------------------------------
(*                            The "tx" message                             *)

(* CTxMemPool::accept returns false and sets fMissingInputs. *)
MissingInputs(t) ==
    /\ Acceptable(mempool, t)
    /\ t \notin DOMAIN txindex[tip]
    /\ ~ InputsPresent(mempool, txindex[tip], t)

Accepted(t) == AcceptOK(mempool, txindex[tip], tip, t)

(* The transaction is accepted, and its orphans are looked up. *)
ReceiveTx(t) ==
    /\ Idle
    /\ Accepted(t)
    /\ mempool' = addUnchecked(mempool, t)
    /\ vMsg' = t
    /\ vWorkQueue' = <<t>>
    /\ vEraseQueue' = {t}
    /\ todo' = ByPrev(mapOrphanTransactionsByPrev, t)
    /\ mapOrphanTransactionsByPrev' = Touched(mapOrphanTransactionsByPrev, t)
    /\ UNCHANGED <<tip, mapOrphanTransactions, elsewhere>>

(* Mutant: the limit is not enforced. *)
ReceiveOrphanTx_unlimited(t) ==
    /\ Idle
    /\ MissingInputs(t)
    /\ t \notin mapOrphanTransactions \cup Large
    /\ mapOrphanTransactions' = mapOrphanTransactions \cup {t}
    /\ mapOrphanTransactionsByPrev' = WithOrphan(mapOrphanTransactionsByPrev, t)
    /\ UNCHANGED <<tip, mempool, queueVars, elsewhere>>

(* Inputs are missing: AddOrphanTx and LimitOrphanTxSize.  The transaction *)
(* itself may be the one that is evicted.                                  *)
ReceiveOrphanTx(t) ==
    /\ Idle
    /\ MissingInputs(t)
    /\ t \notin mapOrphanTransactions \cup Large
    /\ \E E \in Evictions(mapOrphanTransactions \cup {t}) :
          /\ mapOrphanTransactions' = (mapOrphanTransactions \cup {t}) \ E
          /\ mapOrphanTransactionsByPrev' =
               WithoutOrphans(WithOrphan(mapOrphanTransactionsByPrev, t), E)
    /\ UNCHANGED <<tip, mempool, queueVars, elsewhere>>

(* The loop over the orphans of an accepted transaction: an orphan is      *)
(* accepted, found invalid, or still lacks an input.                       *)
TryOrphanTx ==
    /\ \E t \in todo :
          /\ todo' = todo \ {t}
          /\ IF Accepted(t)
             THEN /\ mempool' = addUnchecked(mempool, t)
                  /\ vWorkQueue' = Append(vWorkQueue, t)
             ELSE UNCHANGED <<mempool, vWorkQueue>>
          /\ vEraseQueue' = IF Accepted(t) \/ ~ MissingInputs(t)
                            THEN vEraseQueue \cup {t}
                            ELSE vEraseQueue
    /\ UNCHANGED <<tip, orphanVars, vMsg, elsewhere>>

(* Mutant: the orphans of an accepted orphan are not looked up. *)
NextTx_shallow ==
    /\ ~ Idle
    /\ todo = {}
    /\ Len(vWorkQueue) > 1
    /\ vWorkQueue' = <<>>
    /\ UNCHANGED <<tip, mempool, orphanVars, vEraseQueue, todo, vMsg, elsewhere>>

(* Mutant: the same transaction is looked up again. *)
NextTx_again ==
    /\ ~ Idle
    /\ todo = {}
    /\ Len(vWorkQueue) > 1
    /\ todo' = ByPrev(mapOrphanTransactionsByPrev, vWorkQueue[1])
    /\ UNCHANGED <<tip, mempool, orphanVars, vWorkQueue, vEraseQueue, vMsg, elsewhere>>

(* On to the next accepted transaction. *)
NextTx ==
    /\ ~ Idle
    /\ todo = {}
    /\ Len(vWorkQueue) > 1
    /\ vWorkQueue' = Tail(vWorkQueue)
    /\ todo' = ByPrev(mapOrphanTransactionsByPrev, vWorkQueue[2])
    /\ mapOrphanTransactionsByPrev' = Touched(mapOrphanTransactionsByPrev, vWorkQueue[2])
    /\ UNCHANGED <<tip, mempool, mapOrphanTransactions, vEraseQueue, vMsg, elsewhere>>

(* The orphans that were accepted or invalid are erased. *)
TxDone ==
    /\ ~ Idle
    /\ todo = {}
    /\ Len(vWorkQueue) <= 1
    /\ EraseOrphans(vEraseQueue)
    /\ vWorkQueue' = <<>>
    /\ vEraseQueue' = {}
    /\ vMsg' = Nil
    /\ UNCHANGED <<tip, mempool, todo, elsewhere>>

-----------------------------------------------------------------------------
(*              What else changes the pool: the user, and blocks           *)

(* sendrawtransaction, and the wallet: the orphans are not tried. *)
LocalTx(t) ==
    /\ Idle
    /\ Accepted(t)
    /\ mempool' = addUnchecked(mempool, t)
    /\ elsewhere' = elsewhere \cup {t}
    /\ UNCHANGED <<tip, orphanVars, queueVars>>

(* SetBestChainInner: the chain grows by a block. *)
ExtendChain(b) ==
    /\ Idle
    /\ hashPrevBlock[b] = tip
    /\ nChainTrust[tip] < nChainTrust[b]
    /\ ConnectBlockOK(txindex[tip], b)
    /\ tip' = b
    /\ mempool' = removeAll(mempool, TxsOf(b))
    /\ elsewhere' = elsewhere \cup TxsOf(b)
    /\ UNCHANGED <<orphanVars, queueVars>>

(* The block at a height of the branch of a, and how many blocks of that   *)
(* branch are not on the branch of b: those after the fork.                *)
BlockAt(a, h) == CHOOSE x \in Branch[a] : nHeight[x] = h

AfterFork(a, b) == Cardinality(Branch[a] \ Branch[b])

(* vDisconnect and vConnect: these blocks, from the last one down or from  *)
(* the first one up.                                                       *)
BlocksDown(a, b) == [i \in 1..AfterFork(a, b) |-> BlockAt(a, nHeight[a] + 1 - i)]

BlocksUp(a, b) ==
    [i \in 1..AfterFork(a, b) |-> BlockAt(a, nHeight[a] - AfterFork(a, b) + i)]

(* vResurrect and vDelete, the part of one block: its transactions come    *)
(* back to the pool unchecked, or they and their rivals leave it.          *)
Resurrected(pool, b) == FoldLeft(resurrect, pool, vtx[b])

Deleted(pool, b) ==
    FoldLeft(LAMBDA q, t : removeConflicts(removeAll(q, {t}), t), pool, vtx[b])

(* The end of Reorganize. *)
PoolAfter(pool, from, to) ==
    FoldLeft(Deleted, FoldLeft(Resurrected, pool, BlocksDown(from, to)), BlocksUp(to, from))

(* Reorganize, in one step, to a branch with no block to postpone. *)
Reorganize(b) ==
    /\ Idle
    /\ b # Genesis /\ hashPrevBlock[b] # tip
    /\ nChainTrust[hashPrevBlock[b]] <= nChainTrust[tip]
    /\ nChainTrust[tip] < nChainTrust[b]
    /\ ValidBranch(b)
    /\ tip' = b
    /\ mempool' = PoolAfter(mempool, tip, b)
    /\ elsewhere' = elsewhere \cup UNION {TxsOf(x) : x \in Branch[b] \ Branch[tip]}
    /\ UNCHANGED <<orphanVars, queueVars>>

-----------------------------------------------------------------------------
Handler == TryOrphanTx \/ NextTx \/ TxDone

Next ==
    \/ Handler
    \/ \E t \in Txs : ReceiveTx(t) \/ ReceiveOrphanTx(t) \/ LocalTx(t)
    \/ \E b \in Blocks \ {Genesis} : ExtendChain(b) \/ Reorganize(b)

Spec == Init /\ [][Next]_vars

-----------------------------------------------------------------------------
(*                             Properties                                  *)

(* The types of the variables. *)
TypeOK ==
    /\ tip \in Blocks
    /\ mempool.mapTx \subseteq Txs
    /\ mapOrphanTransactions \subseteq Txs \ Large
    /\ DOMAIN mapOrphanTransactionsByPrev \subseteq Txs
    /\ vWorkQueue \in Seq(Txs)
    /\ vEraseQueue \subseteq Txs
    /\ vMsg \in Txs \cup {Nil}
    /\ elsewhere \subseteq Txs

(* AddOrphanTx, EraseOrphanTx: an orphan is found under each transaction   *)
(* it spends from, and nothing else is.  The handler follows these entries *)
(* into mapOrphanTransactions without a check.                             *)
OrphanTxMapsAgree ==
    /\ todo \subseteq mapOrphanTransactions
    /\ \A h \in Txs : ByPrev(mapOrphanTransactionsByPrev, h)
                        = {t \in mapOrphanTransactions : h \in PrevsOf({t})}

(* LimitOrphanTxSize: "do not allow mapOrphanTransactions to grow          *)
(* unbounded".                                                             *)
OrphanTxLimit == Cardinality(mapOrphanTransactions) <= MaxOrphans

(* "Recursively process any orphan transactions that depended on this      *)
(* one": an orphan whose inputs have all become known is not left behind,  *)
(* unless one of them came with a block or from the user.                  *)
NoReadyOrphan ==
    Idle => \A t \in mapOrphanTransactions :
                InputsPresent(mempool, txindex[tip], t) => PrevsOf({t}) \cap elsewhere # {}

(* DoS_tests: once there are no orphans, "mapOrphanTransactionsByPrev" is  *)
(* empty as well.                                                          *)
NoOrphansNoEntries ==
    Idle /\ mapOrphanTransactions = {} => DOMAIN mapOrphanTransactionsByPrev = {}
=============================================================================
