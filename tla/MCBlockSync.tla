----------------------------- MODULE MCBlockSync ------------------------------
(***************************************************************************)
(* Two nodes for BlockSync.  The network has a chain of blocks b1 to b6 on *)
(* the genesis block g, a rival a1 of the first of them, and c6, a rival   *)
(* of the last one, that is not found yet.                                 *)
(***************************************************************************)
EXTENDS BlockSync

CONSTANTS n1, n2, g, a1, b1, b2, b3, b4, b5, b6, c6, kernel

MCNodes == {n1, n2}

MCDials == {<<n1, n2>>}

MCBlocks == {g, a1, b1, b2, b3, b4, b5, b6, c6}

MCPrev == [x \in MCBlocks \ {g} |-> CASE x \in {a1, b1} -> g
                                      [] x = b2 -> b1
                                      [] x = b3 -> b2
                                      [] x = b4 -> b3
                                      [] x = b5 -> b4
                                      [] x \in {b6, c6} -> b5]

MCHeight == [x \in MCBlocks |-> CASE x = g -> 0
                                  [] x \in {a1, b1} -> 1
                                  [] x = b2 -> 2
                                  [] x = b3 -> 3
                                  [] x = b4 -> 4
                                  [] x = b5 -> 5
                                  [] OTHER -> 6]

MCTrust == [x \in MCBlocks |-> 1]

(* A coinbase per height is all the transactions. *)
MCTxs == 0..6

MCvtx == [x \in MCBlocks |-> <<MCHeight[x]>>]

MCvin == [t \in MCTxs |-> {}]

MCnOut == [t \in MCTxs |-> 1]

(* Blocks b3 and b4 are proof-of-stake, those after them proof-of-work. *)
MCStake == [x \in MCBlocks |-> IF x \in {b3, b4} THEN <<kernel, MCHeight[x]>> ELSE Nil]

MCOld == {g, a1, b1, b2}

(* The first node has its own block, the second one all of the chain but  *)
(* c6, a rival of its last block.                                          *)
MCHeld == [n \in MCNodes |-> IF n = n1 THEN {g, a1} ELSE MCBlocks \ {a1, c6}]
=============================================================================
