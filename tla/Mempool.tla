------------------------------- MODULE Mempool -------------------------------
(***************************************************************************)
(* CTxMemPool (main.h, main.cpp): the transactions not yet in a block, and *)
(* for each outpoint they spend, a pointer to the pooled transaction that  *)
(* spends it.  A pool is a record; each operation is an operator that      *)
(* returns the pool it leaves.                                             *)
(***************************************************************************)
EXTENDS TxIndex

EmptyPool == [mapTx |-> {}, mapNextTx |-> <<>>]

(* Outpoints spent by a set of transactions. *)
InputsOf(T) == UNION {vin[t] : t \in T}

(* CTxMemPool::addUnchecked *)
addUnchecked(pool, t) ==
    [mapTx     |-> pool.mapTx \cup {t},
     mapNextTx |-> [o \in DOMAIN pool.mapNextTx \cup vin[t] |->
                      IF o \in vin[t] THEN t ELSE pool.mapNextTx[o]]]

(* Mutants of removeAll: mapNextTx is not cleaned up, or nothing is. *)
removeAll_dangling(pool, T) == [pool EXCEPT !.mapTx = @ \ T]

removeAll_nothing(pool, T) == pool

(* CTxMemPool::remove without recursion, for each transaction of a set: a  *)
(* transaction that is not pooled is skipped.                              *)
removeAll(pool, T) ==
    [mapTx     |-> pool.mapTx \ T,
     mapNextTx |-> [o \in DOMAIN pool.mapNextTx \ InputsOf(T \cap pool.mapTx) |->
                      pool.mapNextTx[o]]]

(* The pooled transactions found by following mapNextTx from the outputs   *)
(* of the transactions of D lie in D.                                      *)
SpendersClosed(pool, D) ==
    \A o \in DOMAIN pool.mapNextTx :
        o[1] \in D /\ o[2] \in 1..nOut[o[1]] => pool.mapNextTx[o] \in D

(* What the recursion of CTxMemPool::remove reaches from transactions T. *)
Dependents(pool, T) ==
    {d \in Txs : \A D \in SUBSET (pool.mapTx \cup T) :
                     T \subseteq D /\ SpendersClosed(pool, D) => d \in D}

(* Pooled transactions other than t that spend an input of t. *)
ConflictsOf(pool, t) ==
    {pool.mapNextTx[o] : o \in vin[t] \cap DOMAIN pool.mapNextTx} \ {t}

(* CTxMemPool::removeConflicts *)
removeConflicts(pool, t) ==
    removeAll(pool, Dependents(pool, ConflictsOf(pool, t)))

(***************************************************************************)
(* CTxMemPool::accept.  Acceptable are the tests made of every             *)
(* transaction; InputsPresent and InputsAcceptable those made only with    *)
(* fCheckInputs, against the index ti of the main chain that ends in best. *)
(* A transaction whose inputs are not all present may be an orphan.        *)
(***************************************************************************)
Acceptable(pool, t) ==
    /\ t \notin CoinBase \cup CoinStake
    /\ t \notin pool.mapTx
    /\ vin[t] \cap DOMAIN pool.mapNextTx = {}

InputsPresent(pool, ti, t) ==
    \A o \in vin[t] : o[1] \in DOMAIN ti \cup pool.mapTx

InputsAcceptable(pool, ti, best, t) ==
    /\ t \notin LowFee
    /\ \A o \in vin[t] :
          /\ o[2] \in 1..nOut[o[1]]
          /\ o[1] \in DOMAIN ti =>
               /\ o[1] \in CoinBase \cup CoinStake => Mature(ti[o[1]].pos, best)
               /\ ti[o[1]].vSpent[o[2]] = Nil

AcceptOK(pool, ti, best, t) ==
    /\ Acceptable(pool, t)
    /\ t \notin DOMAIN ti
    /\ InputsPresent(pool, ti, t)
    /\ InputsAcceptable(pool, ti, best, t)

(* accept with fCheckInputs = false: what a reorganisation calls for the   *)
(* transactions of the blocks it disconnected.                             *)
resurrect(pool, t) == IF Acceptable(pool, t) THEN addUnchecked(pool, t) ELSE pool

-----------------------------------------------------------------------------
(* mapNextTx holds exactly the inputs of the pooled transactions, each with *)
(* the transaction that spends it.                                          *)
PoolIndexed(pool) ==
    /\ DOMAIN pool.mapNextTx = InputsOf(pool.mapTx)
    /\ \A o \in DOMAIN pool.mapNextTx :
          /\ pool.mapNextTx[o] \in pool.mapTx
          /\ o \in vin[pool.mapNextTx[o]]
          /\ \A t \in pool.mapTx : o \in vin[t] => t = pool.mapNextTx[o]
=============================================================================
