----------------------------- MODULE ChainLedger -----------------------------
(***************************************************************************)
(* BlockChain implements Ledger: the database of a node, seen through its  *)
(* best block and the unspent outputs of its transaction index.            *)
(***************************************************************************)
EXTENDS BlockChain

(* The outputs an index calls unspent: CTxIndex::vSpent is null. *)
UnspentIn(ti) ==
    UNION {{<<t, n>> : n \in {m \in 1..nOut[t] : ti[t].vSpent[m] = Nil}} : t \in DOMAIN ti}

L == INSTANCE Ledger WITH tip <- db.best, unspent <- UnspentIn(db.txindex)

(* Every commit of Reorganize and SetBestChainInner adopts, as a whole, a  *)
(* valid chain, and nothing else changes what the database shows; a crash  *)
(* shows nothing.                                                          *)
ImplementsLedger == L!Spec
=============================================================================
