------------------------------- MODULE Wallet --------------------------------
(***************************************************************************)
(* CWallet and CWalletTx (wallet.cpp, wallet.h): the transactions that     *)
(* concern the user, and for each of their outputs a flag that says that   *)
(* it is spent.  A wallet is a function; each operation is an operator     *)
(* that returns the wallet it leaves.                                      *)
(*                                                                         *)
(* An entry holds the block the transaction was last seen in, the outputs  *)
(* marked spent and, for a transaction the wallet has made, copies of the  *)
(* transactions it builds on, with their blocks.  Every change of an entry *)
(* is written to wallet.dat at once, so memory and file are not told       *)
(* apart.  Names, accounts, times, keys and the caches of amounts are left *)
(* out.                                                                    *)
(***************************************************************************)
EXTENDS Mempool, Loops

CONSTANTS
    Mine,               \* outpoints that are ours and worth nMinimumInputValue
    MaturityMargin,     \* what GetBlocksToMaturity adds to nCoinbaseMaturity (10)
    COPY_DEPTH

(* The output of the genesis block is empty (LoadBlockIndex). *)
ASSUME WalletAssumption ==
    /\ Mine \subseteq OutPoints
    /\ \A o \in Mine : o[2] <= nOut[o[1]] /\ o[1] \notin TxsOf(Genesis)
    /\ MaturityMargin \in Nat \ {0}
    /\ COPY_DEPTH \in Nat

IsMine(t) == \E n \in 1..nOut[t] : <<t, n>> \in Mine

(* GetDebit: an input is ours when the wallet has its transaction. *)
IsFromMe(w, t) == \E o \in vin[t] \cap Mine : o[1] \in DOMAIN w

-----------------------------------------------------------------------------
(*                            Spent flags                                  *)

(* Mutant: the output before the one that is spent. *)
MarkSpent_before(w, O) ==
    [t \in DOMAIN w |->
        [w[t] EXCEPT !.vfSpent = @ \cup {n - 1 : n \in {m \in 1..nOut[t] : <<t, m>> \in O}}]]

(* MarkSpent and MarkUnspent, for outpoints O. *)
MarkSpent(w, O) ==
    [t \in DOMAIN w |-> [w[t] EXCEPT !.vfSpent = @ \cup {n \in 1..nOut[t] : <<t, n>> \in O}]]

MarkUnspent(w, O) ==
    [t \in DOMAIN w |-> [w[t] EXCEPT !.vfSpent = @ \ {n \in 1..nOut[t] : <<t, n>> \in O}]]

OutputsOf(t) == {t} \X (1..nOut[t])

(* Mutant: the inputs of a transaction in a block are not marked. *)
WalletUpdateSpent_block(w, t, fBlock) ==
    IF fBlock THEN MarkUnspent(w, OutputsOf(t) \cap Mine) ELSE MarkSpent(w, vin[t] \cap Mine)

(* WalletUpdateSpent: the inputs are spent; the outputs of a transaction   *)
(* in a block are not, whatever was known of them.                         *)
WalletUpdateSpent(w, t, fBlock) ==
    LET marked == MarkSpent(w, vin[t] \cap Mine)
    IN  IF fBlock THEN MarkUnspent(marked, OutputsOf(t) \cap Mine) ELSE marked

(* DisableTransaction: only a coinstake that leaves the chain gives its    *)
(* inputs back.                                                            *)
DisableTransaction(w, t) ==
    IF t \in CoinStake /\ IsFromMe(w, t) THEN MarkUnspent(w, vin[t] \cap Mine) ELSE w

-----------------------------------------------------------------------------
(*                        Adding transactions                              *)

(* Mutant: an entry keeps its first block. *)
AddToWallet_first(w, t, hashBlock, vtxPrev) ==
    LET new == [hashBlock |-> hashBlock, vfSpent |-> {}, vtxPrev |-> vtxPrev]
    IN  WalletUpdateSpent([x \in DOMAIN w \cup {t} |-> IF x \in DOMAIN w THEN w[x] ELSE new],
                          t, hashBlock # Nil)

(* AddToWallet: a new entry, or the block of an old one. *)
AddToWallet(w, t, hashBlock, vtxPrev) ==
    LET new    == [hashBlock |-> hashBlock, vfSpent |-> {}, vtxPrev |-> vtxPrev]
        merged == [w[t] EXCEPT !.hashBlock = IF hashBlock = Nil THEN @ ELSE hashBlock]
        entry  == IF t \in DOMAIN w THEN merged ELSE new
    IN  WalletUpdateSpent([x \in DOMAIN w \cup {t} |-> IF x = t THEN entry ELSE w[x]],
                          t, hashBlock # Nil)

(* Mutant: a transaction that pays us nothing is left out. *)
AddToWalletIfInvolvingMe_paid(w, t, hashBlock, fUpdate) ==
    IF t \in DOMAIN w \/ IsMine(t)
    THEN IF t \in DOMAIN w /\ ~ fUpdate THEN w ELSE AddToWallet(w, t, hashBlock, <<>>)
    ELSE WalletUpdateSpent(w, t, FALSE)

AddToWalletIfInvolvingMe(w, t, hashBlock, fUpdate) ==
    IF t \in DOMAIN w \/ IsMine(t) \/ IsFromMe(w, t)
    THEN IF t \in DOMAIN w /\ ~ fUpdate THEN w ELSE AddToWallet(w, t, hashBlock, <<>>)
    ELSE WalletUpdateSpent(w, t, FALSE)

(* SyncWithWallets for the transactions of a block that is connected, or   *)
(* disconnected.                                                           *)
SyncConnected(w, b) ==
    FoldLeft(LAMBDA v, t : AddToWalletIfInvolvingMe(v, t, b, TRUE), w, vtx[b])

SyncDisconnected(w, b) == FoldLeft(DisableTransaction, w, vtx[b])

(* ScanForWalletTransactions, over blocks in the order of the chain. *)
ScanForWalletTransactions(w, blocks, fUpdate) ==
    FoldLeft(LAMBDA v, b : FoldLeft(LAMBDA u, t : AddToWalletIfInvolvingMe(u, t, b, fUpdate),
                                    v, vtx[b]),
             w, blocks)

-----------------------------------------------------------------------------
(*                       Against the transaction index                     *)

(* The wallet's outpoints that index ti has as spent, or as unspent. *)
SpentIn(ti, T) ==
    {o \in Mine : /\ o[1] \in T \cap DOMAIN ti
                  /\ ti[o[1]].vSpent[o[2]] # Nil}

UnspentIn(ti, T) ==
    {o \in Mine : /\ o[1] \in T \cap DOMAIN ti
                  /\ ti[o[1]].vSpent[o[2]] = Nil}

(* FixSpentCoins, not fCheckOnly *)
FixSpentCoins(w, ti) ==
    MarkUnspent(MarkSpent(w, SpentIn(ti, DOMAIN w)), UnspentIn(ti, DOMAIN w))

(* ReacceptWalletTransactions leaves alone a coinbase whose first output,  *)
(* and a coinstake whose second one, is spent.                             *)
LeftAlone(w) ==
    {t \in DOMAIN w : \/ t \in CoinBase /\ 1 \in w[t].vfSpent
                      \/ t \in CoinStake /\ 2 \in w[t].vfSpent}

(* The flags it sets. *)
ReacceptSpent(w, ti) == MarkSpent(w, SpentIn(ti, DOMAIN w \ LeftAlone(w)))

(* The transactions it gives to the memory pool. *)
ReacceptTxs(w, ti) == DOMAIN w \ (DOMAIN ti \cup CoinBase \cup CoinStake)

-----------------------------------------------------------------------------
(*                           Coins to spend                                *)

(* CMerkleTx::GetDepthInMainChain, for a copy of t with its hashBlock. *)
GetDepthInMainChain(pool, best, t, hashBlock) ==
    IF hashBlock # Nil /\ hashBlock \in Branch[best]
    THEN nHeight[best] - nHeight[hashBlock] + 1
    ELSE IF t \in pool.mapTx THEN 0 ELSE -1

(* CWalletTx::IsTrusted: confirmed, or pooled, ours, and built on copies   *)
(* of transactions that are confirmed, or pooled and ours.                 *)
IsTrusted(w, pool, best, t) ==
    LET copies == [x \in DOMAIN w[t].vtxPrev \cup {t} |->
                      IF x = t THEN w[t].hashBlock ELSE w[t].vtxPrev[x]]
        Depth(x) == GetDepthInMainChain(pool, best, x, copies[x])
    IN  \E S \in SUBSET DOMAIN copies :
            /\ t \in S
            /\ \A x \in S : \/ Depth(x) >= 1
                            \/ /\ Depth(x) = 0
                               /\ IsFromMe(w, x)
                               /\ {o[1] : o \in vin[x]} \subseteq S

GetBlocksToMaturity(t, depth) ==
    IF t \in CoinBase \cup CoinStake THEN nCoinbaseMaturity + MaturityMargin - depth ELSE 0

(* Mutant: a coinbase or coinstake need not be mature. *)
AvailableCoins_immature(w, pool, best) ==
    {o \in Mine :
        /\ o[1] \in DOMAIN w
        /\ IsTrusted(w, pool, best, o[1])
        /\ o[2] \notin w[o[1]].vfSpent}

(* AvailableCoins, fOnlyConfirmed *)
AvailableCoins(w, pool, best) ==
    {o \in Mine :
        /\ o[1] \in DOMAIN w
        /\ IsTrusted(w, pool, best, o[1])
        /\ GetBlocksToMaturity(o[1], GetDepthInMainChain(pool, best, o[1], w[o[1]].hashBlock)) <= 0
        /\ o[2] \notin w[o[1]].vfSpent}

(* AddSupportingTransactions: the inputs of t and, while they are less     *)
(* than COPY_DEPTH deep, theirs, as far as the wallet or the disk has      *)
(* them.  A copy is given the block the index has for it.                  *)
AddSupportingTransactions(w, ti, best, t) ==
    LET found == {x \in Txs : \/ x \in DOMAIN w \cup DOMAIN ti
                              \/ \E y \in DOMAIN w : x \in DOMAIN w[y].vtxPrev}
        Deep(x) == x \in DOMAIN ti /\ nHeight[best] - nHeight[ti[x].pos] + 1 >= COPY_DEPTH
        Prevs(x) == {o[1] : o \in vin[x]} \cap found
        copied == {x \in found : \A T \in SUBSET found :
                       /\ Prevs(t) \subseteq T
                       /\ \A y \in T : ~ Deep(y) => Prevs(y) \subseteq T
                       => x \in T}
        Kept(x) == CHOOSE y \in DOMAIN w : x \in DOMAIN w[y].vtxPrev
    IN  [x \in copied |->
            CASE x \in DOMAIN ti -> ti[x].pos
              [] x \in DOMAIN w \ DOMAIN ti -> w[x].hashBlock
              [] OTHER -> w[Kept(x)].vtxPrev[x]]

(* The copies of an entry in the orders that vtxPrev may have: those that  *)
(* are farther from t come first.                                          *)
Supporting(w, t) ==
    LET T == DOMAIN w[t].vtxPrev
        level[i \in 0..Cardinality(T)] ==
            IF i = 0 THEN {t} ELSE {o[1] : o \in InputsOf(level[i - 1])} \cap T
        Hops(x) == CHOOSE i \in 1..Cardinality(T) :
                       x \in level[i] /\ \A j \in 1..(i - 1) : x \notin level[j]
    IN  {s \in UNION {[1..n -> T] : n \in 0..Cardinality(T)} :
            /\ Range(s) = T
            /\ \A i, j \in DOMAIN s : i < j => Hops(s[i]) >= Hops(s[j])}

(* AcceptWalletTransaction: the pool is given the copies and then t. *)
AcceptWalletTransaction(pool, ti, best, copies, t) ==
    FoldLeft(LAMBDA q, x : IF AcceptOK(q, ti, best, x) THEN addUnchecked(q, x) ELSE q,
             pool, Append(copies, t))
=============================================================================
