---------------------------- MODULE MCWalletNode -----------------------------
(***************************************************************************)
(* A network for WalletNode: block p after the genesis block, and on top   *)
(* of it blocks a, a2, a3 and a rival b that outweighs the first two of    *)
(* them but not the third.  Coinbase c of p has two outputs, both ours.    *)
(*                                                                         *)
(*     t1 spends the first and has change;  r and s spend the change       *)
(*     k, a coinstake, and v spend the second                              *)
(*                                                                         *)
(* Block a2 holds k, t1 and r, b holds t1.                                 *)
(***************************************************************************)
EXTENDS WalletNode

CONSTANTS g, p, a, a2, a3, b, cb0, c, ca, ca2, ca3, cb, k, r, s, t1, v

MCBlocks == {g, p, a, a2, a3, b}

MCPrev == [n \in MCBlocks \ {g} |-> CASE n = p -> g
                                      [] n \in {a, b} -> p
                                      [] n = a2 -> a
                                      [] n = a3 -> a2]

MCCoinBase == {cb0, c, ca, ca2, ca3, cb}

MCTxs == MCCoinBase \cup {k, r, s, t1, v}

MCvtx == [n \in MCBlocks |-> CASE n = g -> <<cb0>>
                               [] n = p -> <<c>>
                               [] n = a -> <<ca>>
                               [] n = a2 -> <<ca2, k, t1, r>>
                               [] n = a3 -> <<ca3>>
                               [] n = b -> <<cb, t1>>]

MCvin == [t \in MCTxs |-> CASE t = t1 -> {<<c, 1>>}
                            [] t \in {k, v} -> {<<c, 2>>}
                            [] t \in {r, s} -> {<<t1, 1>>}
                            [] OTHER -> {}]

MCnOut == [t \in MCTxs |-> IF t \in {c, k} THEN 2 ELSE 1]

MCMine == {<<c, 1>>, <<c, 2>>, <<t1, 1>>, <<k, 2>>}

MCTrust == [n \in MCBlocks |-> CASE n = b -> 3 [] n = a3 -> 2 [] OTHER -> 1]

MCStake == [n \in MCBlocks |-> Nil]

(* States that differ only in what no step depends on are not told apart:  *)
(* the history of OrphanTx, and the map of orphans by previous hash, which *)
(* OrphanTxMapsAgree shows to follow from the orphans up to empty entries. *)
MCView == <<tip, mempool, mapOrphanTransactions, queueVars, walletVars>>
=============================================================================
