-------------------------------- MODULE Miner --------------------------------
(***************************************************************************)
(* The thread that makes blocks (miner.cpp): CreateNewBlock collects       *)
(* pooled transactions into a block on top of the best chain, work or a    *)
(* stake is found for it, and CheckWork or CheckStake gives it to          *)
(* ProcessBlock, unless the best chain has moved on.                       *)
(*                                                                         *)
(* The thread reads pindexBest without a lock.  It holds cs_main while it  *)
(* collects transactions, and again when the block is handed in; between   *)
(* the three, and between any two blocks, the node goes on.                *)
(*                                                                         *)
(* A block under construction is a function from its transactions to their *)
(* places in it.  Its coinbase and coinstake, and the search for work or   *)
(* stake, are left out.  The priority queue is a set: priority and fee     *)
(* depend on amounts, sizes and ages, so the next transaction is any one.  *)
(***************************************************************************)
EXTENDS OrphanTx

VARIABLES
    thread,             \* "idle", "create", "collect" or "found"
    pindexPrev,         \* the block to build on, or Nil
    vecPriority,        \* the transactions that may be next
    setDependsOn,       \* transaction -> the pooled ones it waits for (vOrphan)
    freed,              \* transactions whose COrphan is gone from vOrphan only
    template,           \* the block's transactions, with their places
    nBlockTx

queue == <<vecPriority, setDependsOn, freed>>
minerVars == <<thread, pindexPrev, queue, template, nBlockTx>>
systemVars == <<vars, minerVars>>

InitMiner ==
    /\ Init
    /\ thread = "idle"
    /\ pindexPrev = Nil
    /\ vecPriority = {}
    /\ setDependsOn = <<>>
    /\ freed = {}
    /\ template = <<>>
    /\ nBlockTx = 0

Unlocked == Idle /\ thread # "collect"

-----------------------------------------------------------------------------
(*                           CreateNewBlock                                *)

(* The best block is read before the lock is taken. *)
ReadBest ==
    /\ thread = "idle"
    /\ thread' = "create"
    /\ pindexPrev' = tip
    /\ UNCHANGED <<vars, queue, template, nBlockTx>>

(* The input is on disk, in a transaction of the chain. *)
OnDisk(o) == o[1] \in DOMAIN txindex[tip] /\ o[2] \in 1..nOut[o[1]]

(* The pooled transactions that t spends from. *)
Deps(t) == {o[1] : o \in {i \in vin[t] : ~ OnDisk(i)}}

Pooled == mempool.mapTx \ (CoinBase \cup CoinStake)

Candidates == {t \in Pooled : Deps(t) \subseteq mempool.mapTx}

(* The loop over the pool.  A transaction that lacks an input is passed    *)
(* over and its COrphan, if it has one, taken off vOrphan, while           *)
(* mapDependers may still point to it.                                     *)
CollectTxs ==
    /\ thread = "create"
    /\ Idle
    /\ thread' = "collect"
    /\ vecPriority' = {t \in Candidates : Deps(t) = {}}
    /\ setDependsOn' = [t \in {c \in Candidates : Deps(c) # {}} |-> Deps(t)]
    /\ freed' = {t \in Pooled \ Candidates : Deps(t) \cap mempool.mapTx # {}}
    /\ UNCHANGED <<vars, pindexPrev, template, nBlockTx>>

(* FetchInputs and ConnectInputs with fMiner, against mapTestPool: the     *)
(* index as the transactions of the block leave it.                        *)
Fetched(t) ==
    \A o \in vin[t] : /\ o[1] \in DOMAIN template \cup DOMAIN txindex[tip]
                      /\ o[2] \in 1..nOut[o[1]]

Connects(t) ==
    \A o \in vin[t] :
        /\ \A u \in DOMAIN template : o \notin vin[u]
        /\ o[1] \notin DOMAIN template => txindex[tip][o[1]].vSpent[o[2]] = Nil
        /\ o[1] \in CoinBase \cup CoinStake => Mature(txindex[tip][o[1]].pos, pindexPrev)

(* Mutant: the first transaction that comes is enough. *)
Ready_first(t) == {x \in DOMAIN setDependsOn : t \in setDependsOn[x]}

(* The waiting transactions of which t was the last one missing. *)
Ready(t) == {x \in DOMAIN setDependsOn : setDependsOn[x] = {t}}

(* A transaction is added, and those that waited for it alone come into    *)
(* the queue.  What becomes of the ones whose COrphan is gone is           *)
(* undefined: any of them may come into the queue.                         *)
AddTx(t) ==
    /\ thread = "collect"
    /\ t \in vecPriority
    /\ Fetched(t) /\ Connects(t)
    /\ nBlockTx' = nBlockTx + 1
    /\ template' = [x \in DOMAIN template \cup {t} |->
                      IF x = t THEN nBlockTx + 1 ELSE template[x]]
    /\ \E F \in SUBSET {x \in freed : t \in Deps(x)} :
          vecPriority' = (vecPriority \ {t}) \cup Ready(t) \cup F
    /\ setDependsOn' = [x \in DOMAIN setDependsOn \ Ready(t) |-> setDependsOn[x] \ {t}]
    /\ UNCHANGED <<vars, thread, pindexPrev, freed>>

(* A transaction is left out: it does not connect, or a limit on size,     *)
(* signature operations, time or fee is against it.                        *)
SkipTx(t) ==
    /\ thread = "collect"
    /\ t \in vecPriority
    /\ vecPriority' = vecPriority \ {t}
    /\ UNCHANGED <<vars, thread, pindexPrev, setDependsOn, freed, template, nBlockTx>>

CreateNewBlockReturns ==
    /\ thread = "collect"
    /\ vecPriority = {}
    /\ thread' = "found"
    /\ setDependsOn' = <<>>
    /\ freed' = {}
    /\ UNCHANGED <<vars, pindexPrev, vecPriority, template, nBlockTx>>

-----------------------------------------------------------------------------
(*                        The block is handed in                           *)

NewBlock ==
    /\ thread' = "idle"
    /\ pindexPrev' = Nil
    /\ template' = <<>>
    /\ nBlockTx' = 0
    /\ UNCHANGED queue

(* No work or stake is found. *)
NotFound == thread = "found" /\ NewBlock /\ UNCHANGED vars

(* ProcessBlock: the chain grows by the block, if it is one of the model's *)
(* blocks; if not, or if it is refused, the chain stays as it is.          *)
ProcessBlock ==
    \/ \E b \in Blocks \ {Genesis} :
          /\ TxsOf(b) \ (CoinBase \cup CoinStake) = DOMAIN template
          /\ ExtendChain(b)
    \/ Idle /\ UNCHANGED vars

(* Mutant: a block on a block that is no longer the best is handed in. *)
CheckWork_stale ==
    /\ thread = "found"
    /\ ProcessBlock
    /\ NewBlock

(* CheckWork, CheckStake: the block goes to ProcessBlock, unless it is     *)
(* stale.                                                                  *)
CheckWork ==
    /\ thread = "found"
    /\ pindexPrev = tip
    /\ ProcessBlock
    /\ NewBlock

StaleBlock ==
    /\ thread = "found"
    /\ Idle
    /\ pindexPrev # tip
    /\ NewBlock
    /\ UNCHANGED vars

-----------------------------------------------------------------------------
Collecting == (\E t \in Txs : AddTx(t) \/ SkipTx(t)) \/ CreateNewBlockReturns

HandlerStep == thread # "collect" /\ Handler /\ UNCHANGED minerVars

NextMiner ==
    \/ thread # "collect" /\ Next /\ UNCHANGED minerVars
    \/ ReadBest \/ CollectTxs \/ Collecting
    \/ NotFound \/ CheckWork \/ StaleBlock

SpecMiner == InitMiner /\ [][NextMiner]_systemVars

(* Whoever holds cs_main waits for nobody. *)
FairSpecMiner == SpecMiner /\ WF_systemVars(HandlerStep) /\ WF_systemVars(Collecting)

-----------------------------------------------------------------------------
(*                             Properties                                  *)

(* The transactions of the block before t. *)
Before(t) == {u \in DOMAIN template : template[u] < template[t]}

(* What ConnectBlock checks of each transaction of a block on top of tip:  *)
(* it replaces none, its inputs are earlier in the block or in the index,  *)
(* unspent in both, and mature.                                            *)
BlockConnects ==
    \A t \in DOMAIN template :
        /\ NoOverwrite(txindex[tip], t)
        /\ \A o \in vin[t] :
              /\ o[1] \in Before(t) \cup DOMAIN txindex[tip]
              /\ o[2] \in 1..nOut[o[1]]
              /\ \A u \in Before(t) : o \notin vin[u]
              /\ o[1] \notin Before(t) =>
                   /\ txindex[tip][o[1]].vSpent[o[2]] = Nil
                   /\ o[1] \in CoinBase \cup CoinStake =>
                        nHeight[tip] + 1 - nHeight[txindex[tip][o[1]].pos] >= nCoinbaseMaturity

(* CheckWork, "generated block is stale": every block that passes this     *)
(* test connects, although the best block was read without a lock, the     *)
(* transactions were collected later, and pool and chain may have changed  *)
(* many times before, between and since.                                   *)
SubmittedConnects == [][CheckWork => BlockConnects]_systemVars

(* CreateNewBlock, "Connecting shouldn't fail due to dependency on other   *)
(* memory pool transactions because we're already processing them in order *)
(* of dependency": no transaction is queued before what it spends is in    *)
(* the block or on disk, and none waits for what is in the block.          *)
DependenciesFirst ==
    thread = "collect" =>
        /\ \A t \in vecPriority \ freed : Fetched(t)
        /\ \A t \in DOMAIN setDependsOn : ~ Fetched(t)

(* The handler of a message and CreateNewBlock give cs_main back: their    *)
(* work queues, which grow while they are walked, come to an end.          *)
LockIsFreed == ~ Unlocked ~> Unlocked
=============================================================================
