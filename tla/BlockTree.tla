------------------------------ MODULE BlockTree ------------------------------
(***************************************************************************)
(* The blocks and transactions of the network, as data.                    *)
(*                                                                         *)
(* A block is identified by its hash and a transaction by its txid, so the *)
(* contents of both never change and are constants here: the block a block *)
(* builds on, its proof-of-work or proof-of-stake trust, its transactions, *)
(* and for a transaction the outputs it spends and how many it creates.    *)
(* What a node has received, indexed, connected or pooled is state, and    *)
(* belongs to the modules that extend this one.                            *)
(*                                                                         *)
(* Checks whose outcome is a function of the bytes of one block (and of    *)
(* the branch it names as its past) are abstracted to sets of blocks that  *)
(* fail them: Unacceptable for CBlock::AcceptBlock, Unconnectable for      *)
(* CBlock::ConnectBlock, LowWork for the minimum-work test of ProcessBlock,*)
(* LowFee for the fee and standardness tests of CTxMemPool::accept.        *)
(***************************************************************************)
EXTENDS Integers, Sequences, FiniteSets

CONSTANTS
    Blocks,             \* block hashes
    Genesis,            \* hashGenesisBlock
    hashPrevBlock,      \* [Blocks \ {Genesis} -> Blocks]
    blockTrust,         \* [Blocks -> Nat], CBlockIndex::GetBlockTrust
    Txs,                \* txids
    CoinBase,           \* the txids for which CTransaction::IsCoinBase holds
    CoinStake,          \* the txids for which CTransaction::IsCoinStake holds
    vtx,                \* [Blocks -> Seq(Txs)]
    vin,                \* [Txs -> SUBSET (Txs \X (Nat \ {0}))]: outpoints spent
    nOut,               \* [Txs -> Nat \ {0}]: vout.size()
    proofOfStake,       \* [Blocks -> <<kernel outpoint, time>>, or Nil]
    Unacceptable,       \* blocks that fail a context check of AcceptBlock
    Unconnectable,      \* blocks that fail a value, fee or script check
    LowWork,            \* <<block, sync-checkpoint>>: too little work since it
    LowFee,             \* transactions a mempool refuses for fee or inputs
    nCoinbaseMaturity,  \* depth at which a coinbase or coinstake is spendable
    Nil                 \* null pointer, null hash, null disk position

ASSUME TreeAssumption ==
    /\ Genesis \in Blocks
    /\ hashPrevBlock \in [Blocks \ {Genesis} -> Blocks]
    /\ blockTrust \in [Blocks -> Nat]
    /\ Nil \notin Blocks
    /\ Unacceptable \subseteq Blocks
    /\ Unconnectable \subseteq Blocks
    /\ LowWork \subseteq Blocks \X Blocks

ASSUME TxAssumption ==
    /\ CoinBase \subseteq Txs
    /\ CoinStake \subseteq Txs
    /\ LowFee \subseteq Txs
    /\ CoinBase \cap CoinStake = {}
    /\ vtx \in [Blocks -> Seq(Txs)]
    /\ vin \in [Txs -> SUBSET (Txs \X (Nat \ {0}))]
    /\ nOut \in [Txs -> Nat \ {0}]
    /\ Nil \notin Txs
    /\ nCoinbaseMaturity \in Nat

OutPoints == Txs \X (Nat \ {0})

(* The transactions of a block. *)
TxsOf(b) == {vtx[b][i] : i \in DOMAIN vtx[b]}

(* A set of blocks that contains the parent of each of its members. *)
ParentClosed(S) == \A b \in S \ {Genesis} : hashPrevBlock[b] \in S

(***************************************************************************)
(* The branch that ends in a block: the block, its parent, and so on down  *)
(* to the genesis block (the pprev pointers of CBlockIndex).  It is the    *)
(* least parent-closed set with the block in it.                           *)
(***************************************************************************)
Branch == [b \in Blocks |->
             {a \in Blocks : \A S \in SUBSET Blocks :
                                b \in S /\ ParentClosed(S) => a \in S}]

(* Every block descends from the genesis block, and no block from itself.  *)
ASSUME RootedAssumption ==
    \A b \in Blocks : /\ Genesis \in Branch[b]
                      /\ b # Genesis => b \notin Branch[hashPrevBlock[b]]

(* A branch is finite: the height of a block is a number. *)
ASSUME HeightAssumption == \A b \in Blocks : IsFiniteSet(Branch[b])

nHeight == [b \in Blocks |-> Cardinality(Branch[b]) - 1]

(* CBlockIndex::nChainTrust: the trust of the parent plus the block's own. *)
nChainTrust[b \in Blocks] ==
    IF b = Genesis THEN blockTrust[b]
                   ELSE nChainTrust[hashPrevBlock[b]] + blockTrust[b]

(* The recursion is well founded: trust is a number and adds up along a    *)
(* branch.                                                                 *)
ASSUME TrustAssumption ==
    /\ nChainTrust \in [Blocks -> Nat]
    /\ \A b \in Blocks \ {Genesis} :
          nChainTrust[b] = nChainTrust[hashPrevBlock[b]] + blockTrust[b]

(* hashPrevBlock is partial; Parent(Genesis) is the null pprev pointer. *)
Parent(b) == IF b = Genesis THEN Nil ELSE hashPrevBlock[b]

(* The child of ancestor a on the branch that ends in b. *)
ChildToward(a, b) == CHOOSE c \in Branch[b] : Parent(c) = a

(* A coinbase starts with the height of its block, so a branch holds it    *)
(* at most once: AcceptBlock, "block height mismatch in coinbase".         *)
SameHeight(t) == \A a, b \in Blocks : t \in TxsOf(a) \cap TxsOf(b) => nHeight[a] = nHeight[b]

(* CBlock::CheckBlock: a block has one coinbase, which comes first, and no *)
(* transaction twice.                                                      *)
CheckBlock(b) ==
    /\ vtx[b] # <<>>
    /\ vtx[b][1] \in CoinBase
    /\ \A i, j \in DOMAIN vtx[b] : i # j => vtx[b][i] # vtx[b][j]
    /\ \A i \in DOMAIN vtx[b] : vtx[b][i] \in CoinBase => i = 1

(* CTransaction::CheckTransaction, IsCoinBase: only a coinbase spends nothing. *)
CheckTransaction(t) == vin[t] = {} <=> t \in CoinBase

(* What gets as far as these modules has passed these checks. *)
ASSUME CheckedAssumption ==
    /\ \A t \in CoinBase : SameHeight(t)
    /\ \A b \in Blocks \ {Genesis} : CheckBlock(b)
    /\ \A t \in Txs : CheckTransaction(t)
=============================================================================
