----------------------------- MODULE MCOrphanTx -----------------------------
(***************************************************************************)
(* A network for OrphanTx: block p after the genesis block, and two blocks *)
(* a and b with b2 after it on top of p.  Coinbase c has three outputs.    *)
(*                                                                         *)
(*     t1, t2 and x spend one output of c each; x spends the one of t2 too *)
(*     t3 spends t1 and t2;  t4 spends t3 and the coinbase of a            *)
(*     t5 spends t3 and pays no fee;  t6 spends t1 and is large            *)
(*                                                                         *)
(* Block a holds t1, block b holds x.                                      *)
(***************************************************************************)
EXTENDS Miner

CONSTANTS g, p, a, b, b2, cb0, c, ca, cb, cb2, t1, t2, t3, t4, t5, t6, x

MCBlocks == {g, p, a, b, b2}

MCPrev == [n \in MCBlocks \ {g} |-> CASE n = p -> g
                                      [] n \in {a, b} -> p
                                      [] n = b2 -> b]

MCTxs == {cb0, c, ca, cb, cb2, t1, t2, t3, t4, t5, t6, x}

MCCoinBase == {cb0, c, ca, cb, cb2}

MCvtx == [n \in MCBlocks |-> CASE n = g -> <<cb0>>
                               [] n = p -> <<c>>
                               [] n = a -> <<ca, t1>>
                               [] n = b -> <<cb, x>>
                               [] n = b2 -> <<cb2>>]

MCvin == [t \in MCTxs |-> CASE t = t1 -> {<<c, 1>>}
                            [] t = t2 -> {<<c, 2>>}
                            [] t = x -> {<<c, 2>>, <<c, 3>>}
                            [] t = t3 -> {<<t1, 1>>, <<t2, 1>>}
                            [] t = t4 -> {<<t3, 1>>, <<ca, 1>>}
                            [] t = t5 -> {<<t3, 2>>}
                            [] t = t6 -> {<<t1, 2>>}
                            [] OTHER -> {}]

MCnOut == [t \in MCTxs |-> CASE t = c -> 3 [] t \in {t1, t3} -> 2 [] OTHER -> 1]

MCTrust == [n \in MCBlocks |-> 1]

MCStake == [n \in MCBlocks |-> Nil]
=============================================================================
