---------------------------- MODULE MCBlockChain ----------------------------
(***************************************************************************)
(* A small network for BlockChain.  Two branches grow from block p, which  *)
(* follows the genesis block, and one of them forks again:                 *)
(*                                                                         *)
(*     g --- p --- a2 --- a3                                               *)
(*            \--- b2 --- b3 --- b4                                        *)
(*                         \--- d4                                         *)
(*                                                                         *)
(* Transactions t1 and t2 spend the same output of p's coinbase: t1 is in  *)
(* a3 and t2 in b3, together with t4, which spends t2.  t3 spends t1 and   *)
(* is in no block.  Where a configuration says so, d4 breaks a rule that   *)
(* only ConnectBlock checks.                                               *)
(***************************************************************************)
EXTENDS ChainLedger

CONSTANTS g, p, a2, a3, b2, b3, b4, d4,
          cp, ca2, ca3, cb2, cb3, cb4, cd4, t1, t2, t3, t4

MCBlocks == {g, p, a2, a3, b2, b3, b4, d4}
MCCoinBase == {cp, ca2, ca3, cb2, cb3, cb4, cd4}
MCTxs == MCCoinBase \cup {t1, t2, t3, t4}

MChashPrevBlock == [b \in MCBlocks \ {g} |->
    CASE b = p -> g
      [] b \in {a2, b2} -> p
      [] b = a3 -> a2
      [] b = b3 -> b2
      [] b \in {b4, d4} -> b3]

MCvtx == [b \in MCBlocks |->
    CASE b = g -> <<>>
      [] b = p -> <<cp>>
      [] b = a2 -> <<ca2>>
      [] b = a3 -> <<ca3, t1>>
      [] b = b2 -> <<cb2>>
      [] b = b3 -> <<cb3, t2, t4>>
      [] b = b4 -> <<cb4>>
      [] b = d4 -> <<cd4>>]

MCvin == [t \in MCTxs |->
    CASE t \in {t1, t2} -> {<<cp, 1>>}
      [] t = t3 -> {<<t1, 1>>}
      [] t = t4 -> {<<t2, 1>>}
      [] OTHER -> {}]

MCnOut == [t \in MCTxs |-> 1]
MCblockTrust == [b \in MCBlocks |-> 1]
NoStake == [b \in MCBlocks |-> Nil]
=============================================================================
