------------------------------- MODULE TxIndex -------------------------------
(***************************************************************************)
(* The transaction index of the block-chain database (CTxIndex in main.h): *)
(* for each transaction of the main chain, the position of its block and,  *)
(* per output, the transaction that spends it.  The operators are the      *)
(* functions that check a block against an index and that move an index    *)
(* across a block in either direction.                                     *)
(*                                                                         *)
(* A disk position is abstracted to the block or transaction found there.  *)
(***************************************************************************)
EXTENDS BlockTree

(* An index: for each of its transactions CTxIndex(pos, nOutputs). *)
IsTxIndex(ti) ==
    /\ DOMAIN ti \subseteq Txs
    /\ \A t \in DOMAIN ti :
          ti[t] \in [pos : Blocks, vSpent : [1..nOut[t] -> Txs \cup {Nil}]]

(* The transaction of block b that spends outpoint o, or Nil. *)
SpenderIn(b, o) ==
    IF \E s \in TxsOf(b) : o \in vin[s]
    THEN CHOOSE s \in TxsOf(b) : o \in vin[s]
    ELSE Nil

(* Transactions that precede position i of block b (mapQueuedChanges). *)
Queued(b, i) == {vtx[b][j] : j \in 1..(i - 1)}

(***************************************************************************)
(* CTransaction::FetchInputs with fBlock: each previous transaction is     *)
(* earlier in the block or in the index, and has the output.               *)
(***************************************************************************)
FetchInputs(ti, b, i) ==
    \A o \in vin[vtx[b][i]] :
        /\ o[1] \in Queued(b, i) \cup DOMAIN ti
        /\ o[2] \in 1..nOut[o[1]]

(* The block that holds the transaction an input names. *)
PosOf(ti, b, i, t) == IF t \in Queued(b, i) THEN b ELSE ti[t].pos

(* A coinbase or coinstake is spendable nCoinbaseMaturity blocks later. *)
Mature(p, b) == ~ (p \in Branch[b] /\ nHeight[b] - nHeight[p] < nCoinbaseMaturity)

(***************************************************************************)
(* CTransaction::ConnectInputs with fBlock: inputs are mature, and spent   *)
(* neither in the index nor earlier in the block.                          *)
(***************************************************************************)
ConnectInputs(ti, b, i) ==
    \A o \in vin[vtx[b][i]] :
        /\ o[1] \in CoinBase \cup CoinStake => Mature(PosOf(ti, b, i, o[1]), b)
        /\ \A t \in Queued(b, i) : o \notin vin[t]
        /\ o[1] \notin Queued(b, i) => ti[o[1]].vSpent[o[2]] = Nil

(* No transaction replaces one that still has an unspent output (BIP30). *)
NoOverwrite(ti, t) ==
    t \in DOMAIN ti => \A n \in 1..nOut[t] : ti[t].vSpent[n] # Nil

(***************************************************************************)
(* CBlock::ConnectBlock.  ConnectBlockOK is its result, ConnectBlock the   *)
(* index that the queued changes leave when the result is true.            *)
(***************************************************************************)
ConnectBlockOK(ti, b) ==
    /\ b \notin Unconnectable
    /\ \A i \in DOMAIN vtx[b] :
          /\ NoOverwrite(ti, vtx[b][i])
          /\ FetchInputs(ti, b, i)
          /\ ConnectInputs(ti, b, i)

(* Mutant: one vSpent entry too few for each new transaction. *)
ConnectBlock_short(ti, b) ==
    [t \in DOMAIN ti \cup TxsOf(b) |->
        IF t \in TxsOf(b)
        THEN [pos |-> b, vSpent |-> [n \in 1..(nOut[t] - 1) |-> SpenderIn(b, <<t, n>>)]]
        ELSE ti[t]]

(* Mutant: the outputs that the block spends stay unspent. *)
ConnectBlock_unspent(ti, b) ==
    [t \in DOMAIN ti \cup TxsOf(b) |->
        IF t \in TxsOf(b)
        THEN [pos |-> b, vSpent |-> [n \in 1..nOut[t] |-> Nil]]
        ELSE ti[t]]

ConnectBlock(ti, b) ==
    [t \in DOMAIN ti \cup TxsOf(b) |->
        [pos    |-> IF t \in TxsOf(b) THEN b ELSE ti[t].pos,
         vSpent |-> [n \in 1..nOut[t] |->
                       IF SpenderIn(b, <<t, n>>) = Nil /\ t \notin TxsOf(b)
                       THEN ti[t].vSpent[n]
                       ELSE SpenderIn(b, <<t, n>>)]]]

(***************************************************************************)
(* CBlock::DisconnectBlock, which runs CTransaction::DisconnectInputs over *)
(* the block backwards.  It fails when a previous transaction is not       *)
(* indexed; otherwise the inputs become unspent and the block's own        *)
(* transactions leave the index.                                           *)
(***************************************************************************)
DisconnectBlockOK(ti, b) ==
    \A t \in TxsOf(b) : \A o \in vin[t] :
        o[1] \in DOMAIN ti /\ o[2] \in 1..nOut[o[1]]

(* Mutant: the outputs that the block spent stay spent. *)
DisconnectBlock_spent(ti, b) == [t \in DOMAIN ti \ TxsOf(b) |-> ti[t]]

DisconnectBlock(ti, b) ==
    [t \in DOMAIN ti \ TxsOf(b) |->
        [pos    |-> ti[t].pos,
         vSpent |-> [n \in 1..nOut[t] |->
                       IF SpenderIn(b, <<t, n>>) = Nil
                       THEN ti[t].vSpent[n]
                       ELSE Nil]]]

-----------------------------------------------------------------------------
(***************************************************************************)
(* What the index should hold when the main chain ends in block b: exactly *)
(* the transactions of the branch, each at its block, each output marked   *)
(* with the transaction of the branch that spends it.  The genesis block   *)
(* is never connected, so its transactions are in no index.                *)
(***************************************************************************)
Connected(b) == Branch[b] \ {Genesis}

TxsOfBranch(b) == UNION {TxsOf(x) : x \in Connected(b)}

TxIndexOf(b) ==
    [t \in TxsOfBranch(b) |->
        [pos    |-> CHOOSE x \in Connected(b) : t \in TxsOf(x),
         vSpent |-> [n \in 1..nOut[t] |->
                       IF \E x \in Connected(b) : SpenderIn(x, <<t, n>>) # Nil
                       THEN SpenderIn(CHOOSE x \in Connected(b) :
                                        SpenderIn(x, <<t, n>>) # Nil, <<t, n>>)
                       ELSE Nil]]]

(* Each block of the branch connects to the index its parent leaves. *)
ValidBranch(b) ==
    \A x \in Connected(b) : ConnectBlockOK(TxIndexOf(hashPrevBlock[x]), x)
=============================================================================
