------------------------------- MODULE Ledger --------------------------------
(***************************************************************************)
(* What the block-chain database promises to everything that reads it (the *)
(* wallet, the miner, the memory pool): it is always the ledger of one     *)
(* valid chain.  A chain is adopted as a whole, in one step, and the       *)
(* outputs that may be spent are those its blocks, applied in order,       *)
(* leave.  How reorganisations work, what is written when, and where a     *)
(* process may stop, does not show.                                        *)
(***************************************************************************)
EXTENDS BlockTree

VARIABLES tip,      \* the last block of the adopted chain
          unspent   \* the outputs that may be spent

OutputsOf(T) == UNION {{<<t, n>> : n \in 1..nOut[t]} : t \in T}

SpentBy(T) == UNION {vin[t] : t \in T}

(* The outputs that are left when the blocks of a chain are applied in     *)
(* order.  The outputs of the genesis block are never spendable.           *)
unspentAfter[b \in Blocks] ==
    IF b = Genesis THEN {}
    ELSE (unspentAfter[hashPrevBlock[b]] \cup OutputsOf(TxsOf(b))) \ SpentBy(TxsOf(b))

(* The transactions of a block before one of them. *)
Before(b, i) == {vtx[b][j] : j \in 1..(i - 1)}

(* A block may follow its parent: each transaction spends outputs that     *)
(* are there and that no transaction before it spends, and none takes the  *)
(* place of a transaction with outputs left.                               *)
Follows(b) ==
    /\ b \notin Unconnectable
    /\ \A i \in DOMAIN vtx[b] :
          /\ vin[vtx[b][i]] \subseteq unspentAfter[hashPrevBlock[b]]
                                        \cup OutputsOf(Before(b, i))
          /\ vin[vtx[b][i]] \cap SpentBy(Before(b, i)) = {}
          /\ OutputsOf({vtx[b][i]}) \cap unspentAfter[hashPrevBlock[b]] = {}

(* A coinbase or coinstake is spent only nCoinbaseMaturity blocks later. *)
MatureIn(b) ==
    \A p \in Branch[b] :
        SpentBy(TxsOf(b)) \cap OutputsOf(TxsOf(p) \cap (CoinBase \cup CoinStake)) # {}
            => nHeight[b] - nHeight[p] >= nCoinbaseMaturity

ValidChain(b) == \A x \in Branch[b] \ {Genesis} : Follows(x) /\ MatureIn(x)

Init == tip = Genesis /\ unspent = {}

Adopt(b) ==
    /\ ValidChain(b)
    /\ tip' = b
    /\ unspent' = unspentAfter[b]

Next == \E b \in Blocks : Adopt(b)

Spec == Init /\ [][Next]_<<tip, unspent>>
=============================================================================
