---------------------------- MODULE MCCheckpoints ---------------------------
(***************************************************************************)
(* A network for the synchronized checkpoints of BlockChain:               *)
(*                                                                         *)
(*     g --- p --- q2 --- q3                                               *)
(*            \--- r2 --- r3 --- r4                                        *)
(*                                                                         *)
(* Blocks q2 and r2 are proof-of-stake blocks with the same proof: their   *)
(* coinstakes sq and sr spend the coinbase of p.  Block r3 stakes an       *)
(* output that exists only on its own branch.  The checkpoint master may   *)
(* sign q3, r2 and r3, p is the hardened checkpoint, and r4 does not       *)
(* connect.                                                                *)
(***************************************************************************)
EXTENDS BlockChain

CONSTANTS g, p, q2, q3, r2, r3, r4, cp, cq2, cq3, cr2, cr3, cr4, sq, sr, sr3

MCBlocks == {g, p, q2, q3, r2, r3, r4}
MCCoinBase == {cp, cq2, cq3, cr2, cr3, cr4}
MCCoinStake == {sq, sr, sr3}
MCTxs == MCCoinBase \cup MCCoinStake

MChashPrevBlock == [b \in MCBlocks \ {g} |->
    CASE b = p -> g
      [] b \in {q2, r2} -> p
      [] b = q3 -> q2
      [] b = r3 -> r2
      [] b = r4 -> r3]

MCvtx == [b \in MCBlocks |->
    CASE b = g -> <<>>
      [] b = p -> <<cp>>
      [] b = q2 -> <<cq2, sq>>
      [] b = q3 -> <<cq3>>
      [] b = r2 -> <<cr2, sr>>
      [] b = r3 -> <<cr3, sr3>>
      [] b = r4 -> <<cr4>>]

MCvin == [t \in MCTxs |->
    CASE t \in {sq, sr} -> {<<cp, 1>>}
      [] t = sr3 -> {<<sr, 1>>}
      [] OTHER -> {}]

MCproofOfStake == [b \in MCBlocks |->
    CASE b \in {q2, r2} -> <<<<cp, 1>>, 2>>
      [] b = r3 -> <<<<sr, 1>>, 3>>
      [] OTHER -> Nil]

MCnOut == [t \in MCTxs |-> 1]
MCblockTrust == [b \in MCBlocks |-> 1]
MCLowWork == {<<r4, p>>}
MCSyncCheckpoints == {q3, r2, r3}
=============================================================================
