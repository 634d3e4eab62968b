-------------------------- MODULE WalletNode_proofs --------------------------
(***************************************************************************)
(* Proofs about the wallet beside the chain: what the chain holds for us   *)
(* is in the wallet under its block, what the chain has spent of it is     *)
(* marked, nothing is marked without a transaction that spends it, what is *)
(* pooled and concerns us is in the wallet, and the pool takes what the    *)
(* wallet makes of its coins.                                              *)
(***************************************************************************)
EXTENDS Wallet_proofs

-----------------------------------------------------------------------------
(*                          The inductive invariant                        *)

(* The copies in X are of transactions, those that concern us in D. *)
Copied(X, D) == <<>> \in X /\ \A P \in X : \A x \in DOMAIN P : x \in Txs /\ (Concerns(x) => x \in D)

(* The wallet knows its chain, and has an entry for what it has copied. *)
Sane == \E X : Copied(X, DOMAIN mapWallet) /\ mapWallet \in Keeping(X, DOMAIN mapWallet)

KnowsChain == Knows(mapWallet, TxsOfBranch(tip), astray, stale, tip)

WalletInv ==
    /\ ChainInv
    /\ vMsg \in Txs \cup {Nil}
    /\ Idle => todo = {}
    /\ Sane
    /\ KnowsChain

LEMMA KeepingMore ==
  ASSUME NEW X, NEW D, NEW Y, X \subseteq Y, NEW w \in Keeping(X, D)
  PROVE  w \in Keeping(Y, D)
<1>1. Entries(X) \subseteq Entries(Y)
  BY DEF Entries
<1>2. w \in Wallets(X) /\ D \subseteq DOMAIN w /\ Shown(w) /\ Seen(w)
  BY DEF Keeping
<1>3. w \in Wallets(Y)
  BY <1>1, <1>2, WalletsIn
<1> QED
  BY <1>2, <1>3 DEF Keeping

LEMMA KeepingSelf ==
  ASSUME NEW X, NEW D, NEW w \in Keeping(X, D)
  PROVE  w \in Keeping(X, DOMAIN w)
BY DEF Keeping

(* No entry leaves the wallet, so that its copies keep theirs. *)
Grows == DOMAIN mapWallet \subseteq DOMAIN mapWallet'

LEMMA GrowsSane ==
  ASSUME NEW X, Copied(X, DOMAIN mapWallet), mapWallet' \in Keeping(X, DOMAIN mapWallet)
  PROVE  Sane' /\ Grows
<1>1. PICK D, E, w : D = DOMAIN mapWallet /\ E = DOMAIN mapWallet' /\ w = mapWallet'
  OBVIOUS
<1>2. w \in Keeping(X, D) /\ Copied(X, D) /\ E = DOMAIN w
  BY <1>1
<1>3. D \subseteq E /\ w \in Keeping(X, E)
  BY <1>2 DEF Keeping
<1>4. Copied(X, E)
  BY <1>2, <1>3 DEF Copied
<1> QED
  BY <1>1, <1>3, <1>4 DEF Sane, Grows

LEMMA WalletInit == InitNode => WalletInv
<1> SUFFICES ASSUME InitNode PROVE WalletInv
  OBVIOUS
<1> DEFINE X == {<<>>}
<1>1. ChainInv
  BY NodeInit DEF InitNode
<1>2. DOMAIN mapWallet = {} /\ mapWallet \in [{} -> Entries(X)]
  BY DEF InitNode
<1>3. mapWallet \in Wallets(X)
  BY <1>2 DEF Wallets
<1>4. mapWallet \in Keeping(X, DOMAIN mapWallet)
  BY <1>2, <1>3 DEF Keeping, Shown, Seen
<1>5. TxsOfBranch(tip) = {}
  BY ValidGenesis DEF InitNode, Init, TxsOfBranch
<1>6. KnowsChain
  BY <1>5 DEF KnowsChain, Knows
<1> QED
  BY <1>1, <1>4, <1>6 DEF WalletInv, Sane, Copied, InitNode, Init

(* The index has an output as spent exactly if the chain spends it. *)
LEMMA SpentInIndex ==
  ASSUME NEW b \in Blocks, NEW t \in TxsOfBranch(b), NEW n \in 1..nOut[t]
  PROVE  txindex[b][t].vSpent[n] # Nil <=> \E s \in TxsOfBranch(b) : <<t, n>> \in vin[s]
<1>1. txindex[b] = TxIndexOf(b) /\ TxIndexOf(b)[t].vSpent[n] = Spender(b, <<t, n>>)
  BY TipIndex, IndexEntry
<1>2. Spender(b, <<t, n>>) # Nil <=> \E x \in Connected(b) : SpenderIn(x, <<t, n>>) # Nil
  BY SpenderOnBranch
<1>3. \A x \in Connected(b) :
         SpenderIn(x, <<t, n>>) # Nil <=> \E s \in TxsOf(x) : <<t, n>> \in vin[s]
  BY ConnectedType, SpenderFound
<1>4. (\E s \in TxsOfBranch(b) : <<t, n>> \in vin[s]) <=>
         \E x \in Connected(b) : \E s \in TxsOf(x) : <<t, n>> \in vin[s]
  BY DEF TxsOfBranch
<1> QED
  BY <1>1, <1>2, <1>3, <1>4

(* A transaction in no block, heard of or made here. *)
LEMMA SyncStep ==
  ASSUME WalletInv, NEW t \in Txs, SyncWithWallets(t), tip' = tip
  PROVE  Sane' /\ Grows /\ KnowsChain'
<1>1. PICK X : /\ <<>> \in X /\ Copied(X, DOMAIN mapWallet)
               /\ mapWallet \in Keeping(X, DOMAIN mapWallet)
  BY DEF WalletInv, Sane, Copied
<1>2. /\ mapWallet' \in Wallets(X) /\ Told(mapWallet, mapWallet', t, Nil)
      /\ astray' = astray /\ stale' = stale
  BY <1>1, ToldAdd, Zenon DEF SyncWithWallets, Keeping
<1>3. mapWallet' \in Keeping(X, DOMAIN mapWallet)
  BY <1>1, <1>2, ToldKeeping
<1>4. Knows(mapWallet', TxsOfBranch(tip), astray, stale, tip)
  BY <1>2, ToldKnows DEF WalletInv, KnowsChain
<1> QED
  BY <1>1, <1>2, <1>3, <1>4, GrowsSane DEF KnowsChain

(* Available coins are ours, so what spends them concerns us. *)
LEMMA CommitConcerns ==
  ASSUME NEW t \in Txs, CommitTransaction(t)
  PROVE  /\ vin[t] \subseteq Mine /\ Concerns(t)
         /\ \A o \in vin[t] : o[1] \in DOMAIN mapWallet
<1>1. vin[t] \subseteq Mine /\ \A o \in vin[t] : o[1] \in DOMAIN mapWallet
  BY DEF CommitTransaction, AvailableCoins
<1>2. vin[t] # {}
  BY CheckedAssumption, Zenon DEF CheckTransaction, CommitTransaction
<1> QED
  BY <1>1, <1>2 DEF Concerns

(* AddToWallet and MarkSpent, as CommitTransaction calls them. *)
LEMMA CommitTold ==
  ASSUME NEW X, NEW w \in Wallets(X), NEW t \in Txs, Concerns(t), NEW P \in X
  PROVE  LET m == MarkSpent(AddToWallet(w, t, Nil, P), vin[t])
         IN  m \in Wallets(X) /\ Told(w, m, t, Nil)
<1> DEFINE v == AddToWallet(w, t, Nil, P)
           m == MarkSpent(v, vin[t])
<1>1. PICK h \in Blocks \cup {Nil} : h = Nil
  OBVIOUS
<1>2. v \in Wallets(X) /\ Told(w, v, t, Nil)
  <2>1. t \in DOMAIN w \/ Concerns(t)
    OBVIOUS
  <2>2. AddToWallet(w, t, h, P) \in Wallets(X) /\ Told(w, AddToWallet(w, t, h, P), t, h)
    BY <2>1, AddToWalletIs, Zenon
  <2> QED
    BY <1>1, <2>2, Zenon
<1> HIDE DEF v
<1>3. /\ m \in Wallets(X) /\ DOMAIN m = DOMAIN v
      /\ \A x \in DOMAIN v :
            /\ m[x].hashBlock = v[x].hashBlock
            /\ m[x].vfSpent = v[x].vfSpent \cup {n \in 1..nOut[x] : <<x, n>> \in vin[t]}
  BY <1>2, MarkSpentIs
<1> HIDE DEF m
<1>4. Told(w, m, t, Nil)
  BY <1>2, <1>3, Zenon DEF Told
<1> QED
  BY <1>3, <1>4, Zenon DEF m, v

(* AddSupportingTransactions copies from the wallet, from its copies and   *)
(* from the chain, which the wallet knows.                                 *)
LEMMA SupportingCopied ==
  ASSUME NEW X, NEW w, w \in Keeping(X, DOMAIN w), Copied(X, DOMAIN w), NEW b \in Blocks, NEW t,
         NEW A, NEW S, Knows(w, TxsOfBranch(b), A, S, b)
  PROVE  \A x \in DOMAIN AddSupportingTransactions(w, txindex[b], b, t) :
            x \in Txs /\ (Concerns(x) => x \in DOMAIN w)
<1> DEFINE P == AddSupportingTransactions(w, txindex[b], b, t)
<1>1. \A x \in DOMAIN P : /\ x \in Txs
                         /\ \/ x \in DOMAIN w \cup DOMAIN txindex[b]
                            \/ \E y \in DOMAIN w : x \in DOMAIN w[y].vtxPrev
  BY DEF AddSupportingTransactions
<1>2. \A x \in DOMAIN txindex[b] : Concerns(x) => x \in DOMAIN w
  BY TipIndex DEF Knows
<1>3. w \in [DOMAIN w -> Entries(X)]
  BY WalletsIn DEF Keeping
<1>4. \A y \in DOMAIN w : w[y].vtxPrev \in X
  BY <1>3 DEF Entries
<1> HIDE DEF P
<1>5. \A y \in DOMAIN w : \A x \in DOMAIN w[y].vtxPrev : Concerns(x) => x \in DOMAIN w
  BY <1>4 DEF Copied
<1>6. \A x \in DOMAIN P : x \in Txs /\ (Concerns(x) => x \in DOMAIN w)
  BY <1>1, <1>2, <1>5
<1> QED
  BY <1>6 DEF P

LEMMA CommitStep ==
  ASSUME WalletInv, NEW t \in Txs, CommitTransaction(t)
  PROVE  Sane' /\ Grows /\ KnowsChain'
<1>1. PICK X : /\ <<>> \in X /\ Copied(X, DOMAIN mapWallet)
               /\ mapWallet \in Keeping(X, DOMAIN mapWallet)
  BY DEF WalletInv, Sane, Copied
<1>2. PICK P : /\ P = AddSupportingTransactions(mapWallet, txindex[tip], tip, t)
               /\ mapWallet' = MarkSpent(AddToWallet(mapWallet, t, Nil, P), vin[t])
  BY DEF CommitTransaction
<1> DEFINE Y == X \cup {P}
<1>3. <<>> \in Y /\ P \in Y /\ X \subseteq Y /\ Copied(Y, DOMAIN mapWallet)
  <2>1. tip \in Blocks /\ mapWallet \in Keeping(X, DOMAIN mapWallet)
    BY <1>1 DEF WalletInv, ChainInv
  <2>2. \A x \in DOMAIN P : x \in Txs /\ (Concerns(x) => x \in DOMAIN mapWallet)
    BY <1>1, <1>2, <2>1, SupportingCopied, Zenon DEF WalletInv, KnowsChain
  <2> QED
    BY <1>1, <2>2 DEF Copied
<1>4. tip' = tip /\ astray' = astray /\ stale' = stale
  BY Zenon DEF CommitTransaction
<1>5. Concerns(t)
  BY CommitConcerns, Zenon
<1> HIDE DEF Y
<1>6. mapWallet \in Keeping(Y, DOMAIN mapWallet)
  BY <1>1, <1>3, KeepingMore
<1>7. mapWallet \in Wallets(Y)
  BY <1>6 DEF Keeping
<1>8. mapWallet' \in Wallets(Y) /\ Told(mapWallet, mapWallet', t, Nil)
  BY <1>2, <1>3, <1>5, <1>7, CommitTold
<1>9. mapWallet' \in Keeping(Y, DOMAIN mapWallet)
  BY <1>6, <1>8, ToldKeeping
<1>10. Knows(mapWallet', TxsOfBranch(tip), astray, stale, tip)
  BY <1>8, ToldKnows DEF WalletInv, KnowsChain
<1> QED
  BY <1>3, <1>4, <1>9, <1>10, GrowsSane DEF KnowsChain

(* The chain moves, and the wallet with it. *)
LEMMA ChainStep ==
  ASSUME WalletInv, NEW b \in Blocks \ {Genesis}, ExtendChain(b) \/ Reorganize(b), ChainToWallet(b)
  PROVE  Sane' /\ Grows /\ KnowsChain'
<1>1. PICK X : /\ <<>> \in X /\ Copied(X, DOMAIN mapWallet)
               /\ mapWallet \in Keeping(X, DOMAIN mapWallet)
  BY DEF WalletInv, Sane, Copied
<1>2. tip' = b
  BY DEF ExtendChain, Reorganize
<1>3. tip \in Blocks /\ ValidBranch(tip) /\ b \in Blocks /\ ValidBranch(b)
  BY <1>2, TipMoves DEF WalletInv, ChainInv, ValidBranch
<1>4. /\ mapWallet' \in Keeping(X, DOMAIN mapWallet)
      /\ Knows(mapWallet', TxsOfBranch(b), astray', stale', b)
  BY <1>1, <1>3, MoveKnows DEF WalletInv, KnowsChain, ChainToWallet
<1> QED
  BY <1>1, <1>2, <1>4, GrowsSane, Zenon DEF KnowsChain

LEMMA FirstBlocks ==
  ASSUME NEW s, NEW n \in Nat, s \in [1..n -> Blocks], NEW j \in 0..n
  PROVE  Len(s) = n /\ BlockSeq(SubSeq(s, 1, j), j)
<1>1. s \in Seq(Blocks) /\ Len(s) = n
  OBVIOUS
<1>2. Len(SubSeq(s, 1, j)) = j /\ SubSeq(s, 1, j) \in Seq(Blocks)
  BY <1>1
<1>3. DOMAIN SubSeq(s, 1, j) = 1..j
  BY <1>2
<1> QED
  BY <1>1, <1>2, <1>3 DEF BlockSeq

LEMMA AfterForkSeq ==
  ASSUME NEW a \in Blocks, NEW b \in Blocks
  PROVE  /\ AfterFork(a, b) \in Nat
         /\ BlocksDown(a, b) \in [1..AfterFork(a, b) -> Blocks]
         /\ BlocksUp(a, b) \in [1..AfterFork(a, b) -> Blocks]
<1>1. /\ AfterFork(a, b) \in Nat
      /\ \A i \in 1..AfterFork(a, b) : /\ BlocksDown(a, b)[i] \in Blocks
                                       /\ BlocksUp(a, b)[i] \in Blocks
  BY BlocksAfterFork, ConnectedType
<1> QED
  BY <1>1 DEF BlocksDown, BlocksUp

(* The chain does not move, but the wallet has been told of part of it. *)
LEMMA FailStep ==
  ASSUME WalletInv, NEW b \in Blocks \ {Genesis}, NEW j, NEW k, SetBestChainFails(b, j, k)
  PROVE  Sane' /\ Grows /\ KnowsChain'
<1> DEFINE down == BlocksDown(tip, b)
           up == BlocksUp(b, tip)
           n == AfterFork(tip, b)
           m == AfterFork(b, tip)
<1>1. PICK X : /\ <<>> \in X /\ Copied(X, DOMAIN mapWallet)
               /\ mapWallet \in Keeping(X, DOMAIN mapWallet)
  BY DEF WalletInv, Sane, Copied
<1>2. tip \in Blocks /\ tip' = tip
  BY DEF WalletInv, ChainInv, SetBestChainFails, nodeVars
<1>3. /\ n \in Nat /\ down \in [1..n -> Blocks]
      /\ m \in Nat /\ up \in [1..m -> Blocks]
  BY <1>2, AfterForkSeq
<1>4. /\ j \in 0..Len(down) /\ k \in 0..(IF j = Len(down) THEN Len(up) ELSE 0)
      /\ mapWallet' = SyncBlocks(mapWallet, SubSeq(down, 1, j), SubSeq(up, 1, k))
      /\ \A t \in DOMAIN mapWallet :
            /\ t \notin astray' => /\ t \notin astray
                                   /\ mapWallet'[t].hashBlock = mapWallet[t].hashBlock
            /\ t \notin stale' => t \notin stale /\ mapWallet'[t].vfSpent = mapWallet[t].vfSpent
  BY Zenon DEF SetBestChainFails
<1> HIDE DEF down, up, n, m
<1>5. Len(down) = n /\ Len(up) = m
  <2>1. 0 \in 0..n /\ 0 \in 0..m
    BY <1>3
  <2> QED
    BY <1>3, <2>1, FirstBlocks
<1>6. j \in 0..n /\ k \in 0..m /\ j \in Nat /\ k \in Nat
  BY <1>3, <1>4, <1>5
<1>7. BlockSeq(SubSeq(down, 1, j), j) /\ BlockSeq(SubSeq(up, 1, k), k)
  BY <1>3, <1>6, FirstBlocks
<1>8. mapWallet' \in Keeping(X, DOMAIN mapWallet)
  BY <1>1, <1>4, <1>6, <1>7, SyncKeeping, Zenon
<1>9. DOMAIN mapWallet \subseteq DOMAIN mapWallet'
  BY <1>8 DEF Keeping
<1>10. ASSUME NEW t \in TxsOfBranch(tip), Concerns(t)
       PROVE  t \in DOMAIN mapWallet /\ (t \notin astray => mapWallet[t].hashBlock \in Connected(tip))
  BY <1>10 DEF WalletInv, KnowsChain, Knows
<1>11. ASSUME NEW t \in (TxsOfBranch(tip) \cap DOMAIN mapWallet') \ stale',
              NEW o \in OutputsOf(t) \cap Mine, \E s \in TxsOfBranch(tip) : o \in vin[s]
       PROVE  o[2] \in mapWallet'[t].vfSpent
  <2>1. Concerns(t)
    BY MineIsMine DEF Concerns, OutputsOf
  <2>2. t \in DOMAIN mapWallet
    BY <1>10, <2>1, Zenon
  <2>3. t \notin stale /\ mapWallet'[t].vfSpent = mapWallet[t].vfSpent
    BY <1>4, <2>2
  <2> QED
    BY <1>11, <2>2, <2>3, Zenon DEF WalletInv, KnowsChain, Knows
<1>12. Knows(mapWallet', TxsOfBranch(tip), astray', stale', tip)
  BY <1>4, <1>9, <1>10, <1>11, Zenon DEF Knows
<1> QED
  BY <1>1, <1>2, <1>8, <1>12, GrowsSane, Zenon DEF KnowsChain

(* What the index has as spent of ours, and as unspent. *)
LEMMA SpentInIs ==
  ASSUME NEW b \in Blocks, NEW T, NEW o \in Mine
  PROVE  /\ o \in SpentIn(txindex[b], T) <=>
              o[1] \in T \cap TxsOfBranch(b) /\ \E s \in TxsOfBranch(b) : o \in vin[s]
         /\ o \in UnspentIn(txindex[b], T) <=>
              o[1] \in T \cap TxsOfBranch(b) /\ ~ \E s \in TxsOfBranch(b) : o \in vin[s]
<1>1. o = <<o[1], o[2]>> /\ o[2] \in 1..nOut[o[1]]
  BY MineIsMine
<1>2. DOMAIN txindex[b] = TxsOfBranch(b)
  BY TipIndex, Zenon DEF TxIndexOf
<1>3. o[1] \in TxsOfBranch(b) =>
         (txindex[b][o[1]].vSpent[o[2]] # Nil <=> \E s \in TxsOfBranch(b) : o \in vin[s])
  BY <1>1, SpentInIndex
<1> QED
  BY <1>2, <1>3 DEF SpentIn, UnspentIn

(* Marking what the index has as spent: the wallet shows what spends it,   *)
(* since that concerns us and is on the chain.  Of the stale entries only  *)
(* those that are left alone stay so.                                      *)
LEMMA MarkKnows ==
  ASSUME NEW X, NEW w, w \in Keeping(X, DOMAIN w), NEW b \in Blocks, NEW A, NEW S, NEW L,
         Knows(w, TxsOfBranch(b), A, S, b)
  PROVE  LET m == MarkSpent(w, SpentIn(txindex[b], DOMAIN w \ L))
         IN  m \in Keeping(X, DOMAIN w) /\ Knows(m, TxsOfBranch(b), A, S \cap L, b)
<1> DEFINE O == SpentIn(txindex[b], DOMAIN w \ L)
           m == MarkSpent(w, O)
           P == TxsOfBranch(b)
<1>1. w \in Wallets(X) /\ Shown(w) /\ Seen(w)
  BY DEF Keeping
<1>2. /\ m \in Wallets(X) /\ DOMAIN m = DOMAIN w
      /\ \A x \in DOMAIN w :
            /\ m[x].hashBlock = w[x].hashBlock
            /\ m[x].vfSpent = w[x].vfSpent \cup {n \in 1..nOut[x] : <<x, n>> \in O}
  BY <1>1, MarkSpentIs
<1>3. O \subseteq Mine
  BY DEF SpentIn
<1>4. \A o \in Mine : o \in O <=> o[1] \in (DOMAIN w \ L) \cap P /\ \E s \in P : o \in vin[s]
  BY SpentInIs, Zenon
<1> HIDE DEF O, m, P
<1>5. \A s \in P : vin[s] \cap Mine # {} => s \in DOMAIN w
  BY DEF Knows, Concerns, P
<1>6. Shown(m)
  <2> SUFFICES ASSUME NEW x \in DOMAIN m, NEW n \in m[x].vfSpent
               PROVE  n \in 1..nOut[x] /\ \E s \in DOMAIN m : <<x, n>> \in vin[s]
    BY DEF Shown
  <2>1. CASE n \in w[x].vfSpent
    BY <1>1, <1>2, <2>1, Zenon DEF Shown
  <2>2. CASE <<x, n>> \in O /\ n \in 1..nOut[x]
    BY <1>2, <1>3, <1>4, <1>5, <2>2, Zenon
  <2> QED
    BY <1>2, <2>1, <2>2
<1>7. Seen(m)
  BY <1>1, <1>2 DEF Seen
<1>8. ASSUME NEW t \in (P \cap DOMAIN m) \ (S \cap L), NEW o \in OutputsOf(t) \cap Mine,
             NEW s \in P, o \in vin[s]
      PROVE  o[2] \in m[t].vfSpent
  <2>1. o = <<t, o[2]>> /\ o[1] = t /\ o[2] \in 1..nOut[t]
    BY DEF OutputsOf
  <2>2. CASE t \notin S
    BY <1>2, <1>8, <2>2, Zenon DEF Knows, P
  <2>3. CASE t \notin L
    <3>1. o \in O
      BY <1>2, <1>4, <1>8, <2>1, <2>3, Zenon
    <3> QED
      BY <1>2, <2>1, <3>1
  <2> QED
    BY <2>2, <2>3
<1>9. Knows(m, P, A, S \cap L, b)
  <2>1. \A t \in P : Concerns(t) => t \in DOMAIN m /\ (t \notin A => m[t].hashBlock \in Connected(b))
    BY <1>2, Zenon DEF Knows, P
  <2> QED
    BY <1>8, <2>1 DEF Knows
<1> QED
  BY <1>2, <1>6, <1>7, <1>9, Zenon DEF Keeping, m, O, P

LEMMA UnmarkKnows ==
  ASSUME NEW X, NEW w, w \in Keeping(X, DOMAIN w), NEW b \in Blocks, NEW A, NEW S, NEW T,
         Knows(w, TxsOfBranch(b), A, S, b)
  PROVE  LET m == MarkUnspent(w, UnspentIn(txindex[b], T))
         IN  m \in Keeping(X, DOMAIN w) /\ Knows(m, TxsOfBranch(b), A, S, b)
<1> DEFINE O == UnspentIn(txindex[b], T)
           m == MarkUnspent(w, O)
           P == TxsOfBranch(b)
<1>1. w \in Wallets(X) /\ Shown(w) /\ Seen(w)
  BY DEF Keeping
<1>2. /\ m \in Wallets(X) /\ DOMAIN m = DOMAIN w
      /\ \A x \in DOMAIN w :
            /\ m[x].hashBlock = w[x].hashBlock
            /\ m[x].vfSpent = w[x].vfSpent \ {n \in 1..nOut[x] : <<x, n>> \in O}
  BY <1>1, MarkUnspentIs
<1>3. \A o \in Mine : (\E s \in P : o \in vin[s]) => o \notin O
  BY SpentInIs, Zenon
<1> HIDE DEF O, m, P
<1>4. Shown(m) /\ Seen(m)
  BY <1>1, <1>2 DEF Shown, Seen
<1>5. ASSUME NEW t \in (P \cap DOMAIN m) \ S, NEW o \in OutputsOf(t) \cap Mine,
             NEW s \in P, o \in vin[s]
      PROVE  o[2] \in m[t].vfSpent
  <2>1. o = <<t, o[2]>> /\ o \notin O
    BY <1>3, <1>5 DEF OutputsOf
  <2>2. o[2] \in w[t].vfSpent
    BY <1>2, <1>5, Zenon DEF Knows, P
  <2> QED
    BY <1>2, <2>1, <2>2, Zenon
<1>6. \A t \in P : Concerns(t) => t \in DOMAIN m /\ (t \notin A => m[t].hashBlock \in Connected(b))
  BY <1>2 DEF Knows, P
<1>7. Knows(m, P, A, S, b)
  BY <1>5, <1>6 DEF Knows
<1> QED
  BY <1>2, <1>4, <1>7, ZenonT(30) DEF Keeping, m, O, P

LEMMA RepairStep ==
  ASSUME WalletInv, RepairWallet
  PROVE  Sane' /\ Grows /\ KnowsChain'
<1>1. PICK X : /\ <<>> \in X /\ Copied(X, DOMAIN mapWallet)
               /\ mapWallet \in Keeping(X, DOMAIN mapWallet)
  BY DEF WalletInv, Sane, Copied
<1>2. PICK m : m = MarkSpent(mapWallet, SpentIn(txindex[tip], DOMAIN mapWallet \ {}))
  OBVIOUS
<1>3. tip \in Blocks /\ tip' = tip /\ astray' = astray /\ stale' = {}
  BY DEF WalletInv, ChainInv, RepairWallet, nodeVars
<1>4. m \in Keeping(X, DOMAIN mapWallet) /\ Knows(m, TxsOfBranch(tip), astray, stale \cap {}, tip)
  BY <1>1, <1>2, <1>3, MarkKnows, Zenon DEF WalletInv, KnowsChain
<1>5. DOMAIN mapWallet \ {} = DOMAIN mapWallet /\ stale \cap {} = {}
  OBVIOUS
<1>6. mapWallet' = MarkUnspent(m, UnspentIn(txindex[tip], DOMAIN mapWallet))
  BY <1>2, <1>5, Zenon DEF RepairWallet, FixSpentCoins
<1>7. m \in Keeping(X, DOMAIN m) /\ DOMAIN mapWallet \subseteq DOMAIN m
  BY <1>4 DEF Keeping
<1>8. mapWallet' \in Keeping(X, DOMAIN m) /\ Knows(mapWallet', TxsOfBranch(tip), astray, {}, tip)
  BY <1>3, <1>4, <1>5, <1>6, <1>7, UnmarkKnows, Zenon
<1>9. mapWallet' \in Keeping(X, DOMAIN mapWallet)
  BY <1>7, <1>8 DEF Keeping
<1> QED
  BY <1>1, <1>3, <1>8, <1>9, GrowsSane, Zenon DEF KnowsChain

LEMMA RestartStep ==
  ASSUME WalletInv, NEW from \in Blocks, Restart(from)
  PROVE  Sane' /\ Grows /\ KnowsChain'
<1> DEFINE s == Scanned(tip, from)
<1>1. PICK X : /\ <<>> \in X /\ Copied(X, DOMAIN mapWallet)
               /\ mapWallet \in Keeping(X, DOMAIN mapWallet)
  BY DEF WalletInv, Sane, Copied
<1>2. PICK v : v = ConnectAll(mapWallet, s)
  OBVIOUS
<1>3. tip \in Blocks /\ ValidBranch(tip) /\ tip' = tip /\ from \in Branch[tip]
  BY DEF WalletInv, ChainInv, ValidBranch, Restart
<1>4. /\ mapWallet' = ReacceptSpent(v, txindex[tip])
      /\ astray' = astray \ TxsOfBlocks(s)
      /\ stale' = (stale \ TxsOfBlocks(s)) \cap LeftAlone(v)
  BY <1>2, ScanIsConnect, Zenon DEF Restart, Scanned
<1>5. v \in Keeping(X, DOMAIN mapWallet) /\ Knows(v, TxsOfBranch(tip), astray', stale \ TxsOfBlocks(s), tip)
  BY <1>1, <1>2, <1>3, <1>4, ScanKnows, Zenon DEF WalletInv, KnowsChain
<1>6. v \in Keeping(X, DOMAIN v)
  BY <1>5, KeepingSelf, Zenon
<1> HIDE DEF s
<1>7. PICK S, L : S = stale \ TxsOfBlocks(s) /\ L = LeftAlone(v)
  BY Zenon
<1>8. /\ mapWallet' \in Keeping(X, DOMAIN v)
      /\ Knows(mapWallet', TxsOfBranch(tip), astray', stale', tip)
  <2>1. mapWallet' = MarkSpent(v, SpentIn(txindex[tip], DOMAIN v \ L)) /\ stale' = S \cap L
    BY <1>4, <1>7 DEF ReacceptSpent
  <2>2. Knows(v, TxsOfBranch(tip), astray', S, tip)
    BY <1>5, <1>7, Zenon
  <2> QED
    BY <1>3, <1>6, <2>1, <2>2, MarkKnows, Zenon
<1>9. mapWallet' \in Keeping(X, DOMAIN mapWallet)
  BY <1>5, <1>8, Zenon DEF Keeping
<1> QED
  BY <1>1, <1>3, <1>8, <1>9, GrowsSane, Zenon DEF KnowsChain

(* A step that leaves the wallet, and the chain, as they are. *)
LEMMA QuietStep ==
  ASSUME WalletInv, UNCHANGED <<tip, mapWallet, astray, stale>>
  PROVE  Sane' /\ Grows /\ KnowsChain'
BY DEF WalletInv, Sane, Grows, KnowsChain, Knows

(* The node's own steps keep the chain valid; the message is a transaction *)
(* while the handler runs, so that it is one the wallet is given.          *)
LEMMA MessageStep ==
  ASSUME WalletInv, [NextNode]_allVars
  PROVE  ChainInv' /\ vMsg' \in Txs \cup {Nil} /\ (Idle' => todo' = {})
<1> USE DEF Idle
<1>1. ASSUME HandlerToWallet
      PROVE  tip' = tip /\ vMsg' \in Txs \cup {Nil} /\ (Idle' => todo' = {})
  <2>1. CASE TryOrphanTx
    BY <2>1 DEF WalletInv, TryOrphanTx
  <2>2. CASE NextTx
    BY <2>2 DEF WalletInv, NextTx
  <2>3. CASE TxDone
    BY <2>3 DEF WalletInv, TxDone
  <2> QED
    BY <1>1, <2>1, <2>2, <2>3, Zenon DEF HandlerToWallet, TryOrphanTxToWallet
<1>2. ASSUME NEW t \in Txs, ReceiveTx(t)
      PROVE  tip' = tip /\ vMsg' \in Txs \cup {Nil} /\ (Idle' => todo' = {})
  BY <1>2, TxAssumption DEF ReceiveTx
<1>3. ASSUME NEW b \in Blocks, Restart(b)
      PROVE  tip' = tip /\ vMsg' \in Txs \cup {Nil} /\ (Idle' => todo' = {})
  BY <1>3, Zenon DEF Restart
<1>4. ASSUME NEW b \in Blocks \ {Genesis}, ExtendChain(b) \/ Reorganize(b)
      PROVE  ChainInv' /\ UNCHANGED queueVars
  BY <1>4, TipMoves DEF WalletInv, ExtendChain, Reorganize
<1>5. ASSUME \/ \E t \in Txs : ReceiveOrphanTx(t) \/ LocalTx(t) \/ CommitTransaction(t)
             \/ \E b \in Blocks \ {Genesis} : \E j, k \in 0..Cardinality(Blocks) :
                   SetBestChainFails(b, j, k)
             \/ RepairWallet \/ ReacceptTx \/ UNCHANGED allVars
      PROVE  UNCHANGED <<tip, queueVars>>
  BY <1>5, Zenon DEF ReceiveOrphanTx, LocalTx, CommitTransaction, SetBestChainFails, RepairWallet,
              ReacceptTx, allVars, nodeVars
<1>6. UNCHANGED tip => ChainInv'
  BY DEF WalletInv, ChainInv, ValidBranch
<1>7. UNCHANGED queueVars => vMsg' \in Txs \cup {Nil} /\ (Idle' => todo' = {})
  BY DEF WalletInv, queueVars
<1> QED
  BY <1>1, <1>2, <1>3, <1>4, <1>5, <1>6, <1>7, Zenon
     DEF NextNode, TxToWallet, OrphanTxToWallet, RawTxToWallet, ExtendChainToWallet, ReorganizeToWallet

LEMMA WalletStep == WalletInv /\ [NextNode]_allVars => WalletInv' /\ Grows
<1> SUFFICES ASSUME WalletInv, [NextNode]_allVars PROVE Sane' /\ Grows /\ KnowsChain'
  BY MessageStep DEF WalletInv
<1>1. CASE HandlerToWallet
  <2>1. CASE TryOrphanTxToWallet
    <3>1. tip' = tip
      BY <2>1 DEF TryOrphanTxToWallet, TryOrphanTx
    <3>2. CASE mempool' = mempool
      BY <2>1, <3>1, <3>2, QuietStep DEF TryOrphanTxToWallet, walletVars
    <3>3. CASE mempool' # mempool
      <4>1. todo # {}
        BY <2>1 DEF TryOrphanTxToWallet, TryOrphanTx
      <4>2. vMsg \in Txs
        BY <4>1 DEF WalletInv, Idle
      <4> QED
        BY <2>1, <3>1, <3>3, <4>2, SyncStep, Zenon DEF TryOrphanTxToWallet
    <3> QED
      BY <3>2, <3>3
  <2>2. CASE (NextTx \/ TxDone) /\ UNCHANGED walletVars
    BY <2>2, QuietStep DEF NextTx, TxDone, walletVars
  <2> QED
    BY <1>1, <2>1, <2>2 DEF HandlerToWallet
<1>2. ASSUME NEW t \in Txs, TxToWallet(t) \/ RawTxToWallet(t) PROVE Sane' /\ Grows /\ KnowsChain'
  <2>1. tip' = tip /\ SyncWithWallets(t)
    BY <1>2 DEF TxToWallet, RawTxToWallet, ReceiveTx, LocalTx
  <2> QED
    BY <2>1, SyncStep
<1>3. ASSUME NEW t \in Txs, OrphanTxToWallet(t) PROVE Sane' /\ Grows /\ KnowsChain'
  BY <1>3, QuietStep DEF OrphanTxToWallet, ReceiveOrphanTx, walletVars
<1>4. ASSUME NEW t \in Txs, CommitTransaction(t) PROVE Sane' /\ Grows /\ KnowsChain'
  BY <1>4, CommitStep
<1>5. ASSUME NEW b \in Blocks \ {Genesis}, ExtendChainToWallet(b) \/ ReorganizeToWallet(b)
      PROVE  Sane' /\ Grows /\ KnowsChain'
  BY <1>5, ChainStep DEF ExtendChainToWallet, ReorganizeToWallet
<1>6. ASSUME NEW b \in Blocks \ {Genesis}, NEW j, NEW k, SetBestChainFails(b, j, k)
      PROVE  Sane' /\ Grows /\ KnowsChain'
  BY <1>6, FailStep, Zenon
<1>7. ASSUME NEW b \in Blocks, Restart(b) PROVE Sane' /\ Grows /\ KnowsChain'
  BY <1>7, RestartStep
<1>8. CASE RepairWallet
  BY <1>8, RepairStep
<1>9. CASE ReacceptTx
  BY <1>9, QuietStep, Zenon DEF ReacceptTx
<1>10. CASE UNCHANGED allVars
  BY <1>10, QuietStep DEF allVars, nodeVars, walletVars
<1> QED
  BY <1>1, <1>2, <1>3, <1>4, <1>5, <1>6, <1>7, <1>8, <1>9, <1>10, Zenon DEF NextNode

-----------------------------------------------------------------------------
(*                                Theorems                                 *)

LEMMA WalletInvariance == SpecNode => []WalletInv
BY WalletInit, WalletStep, PTL DEF SpecNode

(* An entry under a block of the chain is under the block the index names. *)
LEMMA SeenAtPos ==
  ASSUME WalletInv, NEW t \in DOMAIN mapWallet, mapWallet[t].hashBlock \in Connected(tip)
  PROVE  /\ t \in TxsOfBranch(tip)
         /\ mapWallet[t].hashBlock = txindex[tip][t].pos
<1>1. tip \in Blocks /\ ValidBranch(tip)
  BY DEF WalletInv, ChainInv, ValidBranch
<1>2. PICK h : h = mapWallet[t].hashBlock
  OBVIOUS
<1>3. h \in Connected(tip) /\ t \in TxsOf(h)
  <2>1. h # Nil
    BY <1>1, <1>2, ConnectedType, TreeAssumption, Zenon
  <2>2. Seen(mapWallet)
    BY DEF WalletInv, Sane, Keeping
  <2> QED
    BY <1>2, <2>1, <2>2, Zenon DEF Seen
<1>4. t \in TxsOfBranch(tip)
  BY <1>3 DEF TxsOfBranch
<1>5. txindex[tip][t].pos = PosIn(tip, t)
  BY <1>1, <1>4, TipIndex, IndexEntry, Zenon
<1>6. PosIn(tip, t) \in Connected(tip) /\ t \in TxsOf(PosIn(tip, t))
  BY <1>4 DEF PosIn, TxsOfBranch
<1>7. h = PosIn(tip, t)
  BY <1>1, <1>3, <1>6, PosUnique, Zenon
<1> QED
  BY <1>2, <1>4, <1>5, <1>7, Zenon

(* SyncWithWallets: the wallet has every transaction of the chain that     *)
(* concerns us, under its block, through reorganisations, failed ones and  *)
(* restarts.                                                               *)
THEOREM ChainStaysInWallet == SpecNode => []ChainInWallet
<1>1. ASSUME WalletInv PROVE ChainInWallet
  <2> SUFFICES ASSUME NEW t \in DOMAIN txindex[tip], IsMine(t) \/ vin[t] \cap Mine # {}
               PROVE  /\ t \in DOMAIN mapWallet
                      /\ t \notin astray => mapWallet[t].hashBlock = txindex[tip][t].pos
    BY Zenon DEF ChainInWallet
  <2>1. t \in TxsOfBranch(tip) /\ Concerns(t)
    BY <1>1, TipIndex DEF WalletInv, ChainInv, Concerns
  <2>2. t \in DOMAIN mapWallet /\ (t \notin astray => mapWallet[t].hashBlock \in Connected(tip))
    BY <1>1, <2>1, Zenon DEF WalletInv, KnowsChain, Knows
  <2> QED
    BY <1>1, <2>2, SeenAtPos
<1> QED
  BY <1>1, WalletInvariance, PTL

(* WalletUpdateSpent: what the chain has spent of ours is marked, but for  *)
(* what a failed attempt to change the chain has unmarked.                 *)
THEOREM SpentOnChainIsMarked == SpecNode => []SpentOnChain
<1>1. ASSUME WalletInv PROVE SpentOnChain
  <2> SUFFICES ASSUME NEW t \in DOMAIN mapWallet \ stale, t \in DOMAIN txindex[tip],
                      NEW o \in OutputsOf(t) \cap Mine, txindex[tip][t].vSpent[o[2]] # Nil
               PROVE  o[2] \in mapWallet[t].vfSpent
    BY DEF SpentOnChain
  <2>1. tip \in Blocks /\ t \in TxsOfBranch(tip)
    BY <1>1, TipIndex, Zenon DEF WalletInv, ChainInv
  <2>2. o = <<t, o[2]>> /\ o[2] \in 1..nOut[t]
    BY DEF OutputsOf
  <2>3. \E s \in TxsOfBranch(tip) : o \in vin[s]
    BY <2>1, <2>2, SpentInIndex
  <2> QED
    BY <1>1, <2>1, <2>3, Zenon DEF WalletInv, KnowsChain, Knows
<1> QED
  BY <1>1, WalletInvariance, PTL

(* MarkSpent: no coin counts as spent without a transaction in the wallet  *)
(* that spends it.                                                         *)
THEOREM SpentIsAlwaysShown == SpecNode => []SpentIsShown
<1>1. WalletInv => SpentIsShown
  BY DEF WalletInv, Sane, Keeping, Shown, SpentIsShown
<1> QED
  BY <1>1, WalletInvariance, PTL

(* A coin the wallet may spend is pooled or on the chain and, on the       *)
(* chain, mature.                                                          *)
LEMMA AvailableIs ==
  ASSUME WalletInv, NEW o \in AvailableCoins(mapWallet, mempool, tip)
  PROVE  /\ o \in Mine /\ o[1] \in DOMAIN mapWallet /\ o[2] \notin mapWallet[o[1]].vfSpent
         /\ o[1] \in TxsOfBranch(tip) \cup mempool.mapTx
         /\ o[1] \in TxsOfBranch(tip) /\ o[1] \in CoinBase \cup CoinStake =>
              Mature(txindex[tip][o[1]].pos, tip)
<1> DEFINE t == o[1]
           h == mapWallet[t].hashBlock
           depth == GetDepthInMainChain(mempool, tip, t, h)
<1>1. /\ o \in Mine /\ t \in DOMAIN mapWallet /\ o[2] \notin mapWallet[t].vfSpent
      /\ IsTrusted(mapWallet, mempool, tip, t) /\ GetBlocksToMaturity(t, depth) <= 0
  BY Zenon DEF AvailableCoins
<1>2. tip \in Blocks
  BY DEF WalletInv, ChainInv
<1>3. depth >= 1 \/ depth = 0
  BY <1>1, Zenon DEF IsTrusted
<1>4. h # Nil /\ h \in Branch[tip] => h \in Connected(tip)
  <2>1. Seen(mapWallet)
    BY Zenon DEF WalletInv, Sane, Keeping
  <2>2. t \notin TxsOf(Genesis)
    BY <1>1, WalletAssumption
  <2> QED
    BY <1>1, <2>1, <2>2, Zenon DEF Seen, Connected
<1>5. CASE h # Nil /\ h \in Branch[tip]
  <2>1. t \in TxsOfBranch(tip) /\ h = txindex[tip][t].pos
    BY <1>1, <1>4, <1>5, SeenAtPos, Zenon
  <2>2. depth = nHeight[tip] - nHeight[h] + 1
    BY <1>5 DEF GetDepthInMainChain
  <2>3. nHeight[tip] \in Int /\ nHeight[h] \in Int
    BY <1>2, <1>5, HeightType, BranchEnds, Zenon
  <2>4. t \in CoinBase \cup CoinStake => Mature(h, tip)
    <3> SUFFICES ASSUME t \in CoinBase \cup CoinStake PROVE Mature(h, tip)
      OBVIOUS
    <3>1. nCoinbaseMaturity + MaturityMargin - depth <= 0
      BY <1>1, Zenon DEF GetBlocksToMaturity
    <3>2. nHeight[tip] - nHeight[h] >= nCoinbaseMaturity
      BY <2>2, <2>3, <3>1, TxAssumption, WalletAssumption
    <3> QED
      BY <1>2, <1>5, <3>2, MatureIs, BranchEnds, Zenon
  <2> QED
    BY <1>1, <2>1, <2>4, Zenon
<1>6. CASE ~ (h # Nil /\ h \in Branch[tip])
  <2>1. t \in mempool.mapTx /\ depth = 0
    <3>1. depth = IF t \in mempool.mapTx THEN 0 ELSE -1
      BY <1>6, Zenon DEF GetDepthInMainChain
    <3> HIDE DEF depth
    <3> QED
      BY <1>3, <3>1
  <2>2. t \notin CoinBase \cup CoinStake
    BY <1>1, <2>1, TxAssumption, WalletAssumption DEF GetBlocksToMaturity
  <2> QED
    BY <1>1, <2>1, <2>2, ZenonT(30)
<1> QED
  BY <1>5, <1>6, Zenon

(* CommitTransaction leaves its transaction in the pool if it was there or *)
(* is accepted.                                                            *)
LEMMA CommittedPool ==
  ASSUME NEW t \in Txs, CommitTransaction(t), t \in mempool.mapTx \/ Accepted(t)
  PROVE  t \in mempool'.mapTx
BY DEF CommitTransaction, addUnchecked

(* CommitTransaction: the pool takes what the wallet makes of its coins,   *)
(* unless a pooled transaction spends one of them, or its flag is stale.   *)
THEOREM CommitIsAccepted == SpecNode => CommitAccepted
<1>1. ASSUME WalletInv, NEW t \in Txs, CommitTransaction(t),
             vin[t] \cap DOMAIN mempool.mapNextTx = {}, \A o \in vin[t] : o[1] \notin stale
      PROVE  t \in mempool'.mapTx
  <2>1. tip \in Blocks /\ DOMAIN txindex[tip] = TxsOfBranch(tip)
    BY <1>1, TipIndex DEF WalletInv, ChainInv
  <2>2. /\ t \notin DOMAIN mapWallet \cup CoinBase \cup CoinStake \cup LowFee
        /\ vin[t] \subseteq AvailableCoins(mapWallet, mempool, tip)
    BY <1>1, Zenon DEF CommitTransaction
  <2>3. t \notin TxsOfBranch(tip)
    BY <1>1, <2>2, CommitConcerns, Zenon DEF WalletInv, KnowsChain, Knows
  <2>4. ASSUME NEW o \in vin[t]
        PROVE  /\ o[1] \in DOMAIN txindex[tip] \cup mempool.mapTx
               /\ o[2] \in 1..nOut[o[1]]
               /\ o[1] \in DOMAIN txindex[tip] =>
                    /\ o[1] \in CoinBase \cup CoinStake => Mature(txindex[tip][o[1]].pos, tip)
                    /\ txindex[tip][o[1]].vSpent[o[2]] = Nil
    <3>1. /\ o \in Mine /\ o[1] \in DOMAIN mapWallet /\ o[2] \notin mapWallet[o[1]].vfSpent
          /\ o[1] \in TxsOfBranch(tip) \cup mempool.mapTx
          /\ o[1] \in TxsOfBranch(tip) /\ o[1] \in CoinBase \cup CoinStake =>
               Mature(txindex[tip][o[1]].pos, tip)
      BY <1>1, <2>2, AvailableIs, Zenon
    <3>2. o = <<o[1], o[2]>> /\ o[2] \in 1..nOut[o[1]]
      BY <3>1, MineIsMine
    <3>3. o[1] \in TxsOfBranch(tip) => txindex[tip][o[1]].vSpent[o[2]] = Nil
      <4> SUFFICES ASSUME o[1] \in TxsOfBranch(tip), txindex[tip][o[1]].vSpent[o[2]] # Nil
                   PROVE  FALSE
        OBVIOUS
      <4>1. \E s \in TxsOfBranch(tip) : o \in vin[s]
        BY <2>1, <3>2, SpentInIndex, Zenon
      <4>2. o \in OutputsOf(o[1]) \cap Mine
        BY <3>1, <3>2, Zenon DEF OutputsOf
      <4> QED
        BY <1>1, <3>1, <4>1, <4>2, Zenon DEF WalletInv, KnowsChain, Knows
    <3> QED
      BY <2>1, <3>1, <3>2, <3>3, Zenon
  <2>5. CASE t \in mempool.mapTx
    BY <1>1, <2>5, CommittedPool, Zenon
  <2>6. CASE t \notin mempool.mapTx
    <3>1. Accepted(t)
      BY <1>1, <2>1, <2>2, <2>3, <2>4, <2>6, Zenon
         DEF Accepted, AcceptOK, Acceptable, InputsPresent, InputsAcceptable
    <3> QED
      BY <1>1, <3>1, CommittedPool, Zenon
  <2> QED
    BY <2>5, <2>6, Zenon
<1>2. WalletInv => \A t \in Txs :
         CommitTransaction(t) => \/ t \in mempool'.mapTx
                                 \/ vin[t] \cap DOMAIN mempool.mapNextTx # {}
                                 \/ \E o \in vin[t] : o[1] \in stale
  BY <1>1
<1> QED
  BY <1>2, WalletInvariance, PTL DEF CommitAccepted

-----------------------------------------------------------------------------
(*                          The wallet and the pool                        *)

(* AcceptWalletTransaction gives the pool one transaction after the other. *)
GivePool(q, x, ti, best) == IF AcceptOK(q, ti, best, x) THEN addUnchecked(q, x) ELSE q

AcceptAll(base, s, ti, best) == FoldLeft(LAMBDA q, x : GivePool(q, x, ti, best), base, s)

AcceptAllWithin(V, n, s, ti, best) ==
    DOMAIN s = 1..n /\ \A v \in V : \A i \in 1..n : GivePool(v, s[i], ti, best) \in V

LEMMA AcceptAllKeep ==
  ASSUME NEW V, NEW base \in V, NEW n \in Nat, NEW s, NEW ti, NEW best,
         AcceptAllWithin(V, n, s, ti, best)
  PROVE  AcceptAll(base, s, ti, best) \in V
<1> USE DEF AcceptAllWithin
<1> DEFINE F == [i \in 1..n |-> [v \in V |-> GivePool(v, s[i], ti, best)]]
           G(it) == [d \in SUBSET DOMAIN s |->
                       IF d = {} THEN base ELSE GivePool(it[d \ {Max(d)}], s[Max(d)], ti, best)]
           fold == CHOOSE it : it = G(it)
<1>1. AcceptAll(base, s, ti, best) = fold[DOMAIN s]
  BY DEF AcceptAll, FoldLeft, MapThenFoldSet
<1>2. F \in [1..n -> [V -> V]]
  OBVIOUS
<1>3. \A d \in SUBSET (1..n) : d # {} => Max(d) \in 1..n
  <2>1. \A d \in SUBSET (1..n) : d \in SUBSET (1..(n + 1))
    OBVIOUS
  <2> QED
    BY <2>1, MaxSeg, Zenon
<1>4. \A it : \A d \in SUBSET (1..n) : d # {} /\ it[d \ {Max(d)}] \in V =>
          F[Max(d)][it[d \ {Max(d)}]] = GivePool(it[d \ {Max(d)}], s[Max(d)], ti, best)
  BY <1>3
<1>5. PICK it \in [SUBSET (1..n) -> V] : Folding(n, base, F, it)
  BY <1>2, FoldExists, Zenon
<1>6. it = G(it)
  <2>1. \A d \in SUBSET (1..n) : it[d \ {Max(d)}] \in V
    BY <1>5, Zenon
  <2> HIDE DEF F
  <2> QED
    BY <1>4, <1>5, <2>1, Zenon DEF Folding
<1>7. \A f : /\ G(f)[{}] = base
             /\ \A d \in SUBSET (1..n) : d # {} =>
                    G(f)[d] = GivePool(f[d \ {Max(d)}], s[Max(d)], ti, best)
  OBVIOUS
<1> HIDE DEF G
<1>8. fold = G(fold)
  BY <1>6
<1> HIDE DEF fold, F
<1>9. fold[{}] = base
  <2>1. G(fold)[{}] = base
    BY <1>7
  <2> QED
    BY <1>8, <2>1, Zenon
<1>10. ASSUME NEW d \in SUBSET (1..n), d # {}, fold[d \ {Max(d)}] \in V
       PROVE  fold[d] = F[Max(d)][fold[d \ {Max(d)}]]
  <2>1. G(fold)[d] = GivePool(fold[d \ {Max(d)}], s[Max(d)], ti, best)
    BY <1>7, <1>10, Zenon
  <2>2. F[Max(d)][fold[d \ {Max(d)}]] = GivePool(fold[d \ {Max(d)}], s[Max(d)], ti, best)
    BY <1>4, <1>10, Zenon
  <2>3. fold[d] = G(fold)[d]
    BY <1>8
  <2> QED
    BY <2>1, <2>2, <2>3, Zenon
<1>11. PICK g \in [0..n -> V] : /\ g[0] = base
                                /\ g[n] = fold[1..n]
                                /\ \A k \in 1..n : g[k] = F[k][g[k - 1]]
  <2>1. FoldsTo(n, base, F, V, fold)
    BY <1>9, <1>10 DEF FoldsTo
  <2>2. Traced(n, base, F, V, fold)
    BY <1>2, <2>1, FoldTrace, ZenonT(30)
  <2> QED
    BY <2>2, Zenon DEF Traced
<1> QED
  BY <1>1, <1>11

(* The copies of an entry, and then the entry's transaction. *)
LEMMA GivenCopies ==
  ASSUME NEW w, NEW t \in Txs, NEW copies \in Supporting(w, t), NEW T, t \in T,
         DOMAIN w[t].vtxPrev \subseteq T, T \in SUBSET Txs, NEW pool \in PoolOf(T), NEW ti, NEW best
  PROVE  AcceptWalletTransaction(pool, ti, best, copies, t) \in PoolOf(T)
<1> DEFINE C == DOMAIN w[t].vtxPrev
           s == Append(copies, t)
           V == PoolOf(T)
<1>1. copies \in UNION {[1..n -> C] : n \in 0..Cardinality(C)}
  BY Zenon DEF Supporting
<1>2. PICK m \in Nat : copies \in [1..m -> C]
  <2> HIDE DEF C
  <2> QED
    BY <1>1
<1>3. copies \in Seq(T) /\ Len(copies) = m
  <2>1. copies \in [1..m -> T]
    BY <1>2
  <2> QED
    BY <2>1, VectorOf, Zenon
<1>4. DOMAIN s = 1..(m + 1) /\ \A i \in 1..(m + 1) : s[i] \in T
  BY <1>3, PutLast
<1> HIDE DEF s
<1>5. \A v \in V : \A i \in 1..(m + 1) : GivePool(v, s[i], ti, best) \in V
  BY <1>4, PoolAdd, Zenon DEF GivePool
<1>6. pool \in V /\ m + 1 \in Nat
  OBVIOUS
<1> HIDE DEF V
<1>7. AcceptAllWithin(V, m + 1, s, ti, best)
  BY <1>4, <1>5, Zenon DEF AcceptAllWithin
<1>8. AcceptAll(pool, s, ti, best) \in V
  BY <1>6, <1>7, AcceptAllKeep, Zenon
<1>9. AcceptWalletTransaction(pool, ti, best, copies, t) = AcceptAll(pool, s, ti, best)
  BY DEF AcceptWalletTransaction, AcceptAll, GivePool, s, FoldLeft, MapThenFoldSet
<1> QED
  BY <1>8, <1>9, ZenonT(30) DEF V

(* What may be pooled: all but what concerns us and is not in the wallet,  *)
(* unless it was adopted, or spends of ours only what was.                 *)
InWallet ==
    {t \in Txs : \/ t \in adopted \cup DOMAIN mapWallet
                 \/ ~ (IsMine(t) \/ \E o \in vin[t] \cap Mine : o[1] \notin adopted)}

(* The pool and what a restart has still to give it; the copies of an      *)
(* entry, too, are in the wallet if they concern us.                       *)
PoolKept == reaccept \subseteq DOMAIN mapWallet /\ mempool \in PoolOf(InWallet)

(* The handler's loop tries transactions, and orphans are small. *)
NodeTyped ==
    /\ OrphanInv
    /\ mapOrphanTransactions \cap Large = {}
    /\ elsewhere \cup adopted \subseteq Txs
    /\ astray \cup stale \subseteq DOMAIN mapWallet

LEMMA PoolMore ==
  ASSUME NEW T, NEW R \in SUBSET T, NEW pool \in PoolOf(R)
  PROVE  pool \in PoolOf(T)
BY DEF PoolOf

LEMMA MoreInWallet ==
  ASSUME Grows, adopted \subseteq adopted'
  PROVE  InWallet \subseteq InWallet'
BY DEF InWallet, Grows

(* What the pool accepts and concerns us is seen to do so: the wallet has  *)
(* the transactions of ours that it spends from.                           *)
LEMMA AcceptedConcerns ==
  ASSUME WalletInv, PoolKept, NEW t \in Txs, Accepted(t),
         NEW o \in vin[t] \cap Mine, o[1] \notin adopted
  PROVE  IsFromMe(mapWallet, t)
<1>1. tip \in Blocks /\ IsMine(o[1]) /\ o[1] \in Txs
  BY MineIsMine DEF WalletInv, ChainInv
<1>2. o[1] \in DOMAIN txindex[tip] \cup mempool.mapTx
  BY DEF Accepted, AcceptOK, InputsPresent
<1>3. CASE o[1] \in DOMAIN txindex[tip]
  <2>1. o[1] \in TxsOfBranch(tip)
    BY <1>1, <1>3, TipIndex, Zenon
  <2>2. o[1] \in DOMAIN mapWallet
    BY <1>1, <2>1, Zenon DEF WalletInv, KnowsChain, Knows, Concerns
  <2> QED
    BY <2>2 DEF IsFromMe
<1>4. CASE o[1] \in mempool.mapTx
  <2>1. o[1] \in InWallet
    BY <1>4 DEF PoolKept, PoolOf
  <2>2. o[1] \in DOMAIN mapWallet
    BY <1>1, <2>1 DEF InWallet
  <2> QED
    BY <2>2 DEF IsFromMe
<1> QED
  BY <1>2, <1>3, <1>4, Zenon

(* SyncWithWallets puts it in the wallet. *)
LEMMA SyncTold ==
  ASSUME WalletInv, NEW t \in Txs, SyncWithWallets(t), IsMine(t) \/ IsFromMe(mapWallet, t)
  PROVE  t \in DOMAIN mapWallet'
<1>1. mapWallet' = AddToWallet(mapWallet, t, Nil, <<>>)
  BY Zenon DEF SyncWithWallets, AddToWalletIfInvolvingMe
<1> QED
  BY <1>1 DEF AddToWallet, WalletUpdateSpent, MarkSpent, MarkUnspent

(* Only a transaction that is adopted can be pooled unknown to the wallet. *)
LEMMA PooledStep ==
  ASSUME WalletInv, PoolKept, NEW t \in Txs, Accepted(t), mempool' = addUnchecked(mempool, t),
         Grows, adopted \subseteq adopted', reaccept' = reaccept,
         t \in adopted' \cup DOMAIN mapWallet' \/ SyncWithWallets(t)
  PROVE  PoolKept'
<1>1. t \in InWallet'
  <2>1. ASSUME SyncWithWallets(t), IsMine(t) \/ \E o \in vin[t] \cap Mine : o[1] \notin adopted'
        PROVE  t \in DOMAIN mapWallet'
    BY <2>1, AcceptedConcerns, SyncTold, Zenon
  <2> QED
    BY <2>1, Zenon DEF InWallet
<1>2. PICK T : T = InWallet'
  OBVIOUS
<1>3. T \in SUBSET Txs /\ t \in T /\ mempool \in PoolOf(T)
  <2>1. InWallet \in SUBSET T /\ T \in SUBSET Txs
    BY <1>2, MoreInWallet DEF InWallet
  <2> QED
    BY <1>1, <1>2, <2>1, PoolMore, ZenonT(30) DEF PoolKept
<1>4. mempool' \in PoolOf(T)
  BY <1>3, PoolAdd, Zenon
<1> QED
  BY <1>2, <1>4, Zenon DEF PoolKept, Grows

(* Steps that pool nothing. *)
LEMMA UnpooledStep ==
  ASSUME PoolKept, Grows, adopted \subseteq adopted', reaccept' \subseteq reaccept,
         mempool' = mempool
  PROVE  PoolKept'
<1>1. PICK T : T = InWallet'
  OBVIOUS
<1>2. InWallet \in SUBSET T
  BY <1>1, MoreInWallet
<1>3. mempool' \in PoolOf(T)
  BY <1>2, PoolMore DEF PoolKept
<1> QED
  BY <1>1, <1>3 DEF PoolKept, Grows

(* What the chain resurrects was on the chain, which the wallet knows. *)
LEMMA ChainPoolStep ==
  ASSUME WalletInv, PoolKept, NEW b \in Blocks \ {Genesis}, ExtendChain(b) \/ Reorganize(b),
         Grows, adopted' = adopted, reaccept' = reaccept
  PROVE  PoolKept'
<1>1. PICK T : T = InWallet'
  OBVIOUS
<1>2. T \in SUBSET Txs /\ mempool \in PoolOf(T)
  <2>1. InWallet \in SUBSET T /\ T \in SUBSET Txs
    BY <1>1, MoreInWallet, Zenon DEF InWallet
  <2> QED
    BY <2>1, PoolMore DEF PoolKept
<1>3. TxsOfBranch(tip) \subseteq T
  <2> SUFFICES ASSUME NEW x \in TxsOfBranch(tip) PROVE x \in T
    OBVIOUS
  <2>1. x \in Txs
    BY TxsType, ConnectedType, Zenon DEF TxsOfBranch, WalletInv, ChainInv
  <2>2. Concerns(x) => x \in DOMAIN mapWallet'
    BY DEF WalletInv, KnowsChain, Knows, Grows
  <2> QED
    BY <1>1, <2>1, <2>2, Zenon DEF InWallet, Concerns
<1>4. mempool' \in PoolOf(T)
  <2>1. CASE ExtendChain(b)
    BY <1>2, <2>1, PoolRemove, Zenon DEF ExtendChain
  <2>2. CASE Reorganize(b)
    BY <1>2, <1>3, <2>2, ReorganizedPool, Zenon DEF Reorganize, WalletInv, ChainInv
  <2> QED
    BY <2>1, <2>2
<1> QED
  BY <1>1, <1>4 DEF PoolKept, Grows

(* What a restart gives to the pool comes from the wallet. *)
LEMMA RestartPoolStep ==
  ASSUME NEW from \in Blocks, Restart(from)
  PROVE  PoolKept'
<1>1. PICK w : mapWallet' = ReacceptSpent(w, txindex[tip]) /\ reaccept' = ReacceptTxs(w, txindex[tip])
  BY Zenon DEF Restart
<1>2. reaccept' \subseteq DOMAIN mapWallet'
  BY <1>1 DEF ReacceptSpent, ReacceptTxs, MarkSpent
<1>3. PICK T : T = InWallet'
  BY Zenon
<1>4. mempool' \in PoolOf(T)
  BY EmptyPoolOf DEF Restart
<1> QED
  BY <1>2, <1>3, <1>4, Zenon DEF PoolKept

LEMMA ReacceptStep ==
  ASSUME WalletInv, PoolKept, ReacceptTx
  PROVE  PoolKept'
<1>1. PICK t, copies :
        /\ t \in reaccept /\ copies \in Supporting(mapWallet, t)
        /\ reaccept' = reaccept \ {t}
        /\ mempool' = AcceptWalletTransaction(mempool, txindex[tip], tip, copies, t)
  BY Zenon DEF ReacceptTx
<1>2. mapWallet' = mapWallet /\ adopted' = adopted
  BY DEF ReacceptTx
<1>3. PICK X : Copied(X, DOMAIN mapWallet) /\ mapWallet \in Wallets(X)
  BY DEF WalletInv, Sane, Keeping
<1>4. t \in DOMAIN mapWallet /\ t \in Txs /\ mapWallet[t].vtxPrev \in X
  BY <1>1, <1>3, WalletsIn, Zenon DEF PoolKept, Entries
<1>5. PICK T : T = InWallet
  OBVIOUS
<1>6. T \in SUBSET Txs /\ t \in T /\ mempool \in PoolOf(T)
  BY <1>4, <1>5, Zenon DEF InWallet, PoolKept
<1>7. DOMAIN mapWallet[t].vtxPrev \subseteq T
  <2> SUFFICES ASSUME NEW x \in DOMAIN mapWallet[t].vtxPrev PROVE x \in T
    OBVIOUS
  <2>1. x \in Txs /\ (Concerns(x) => x \in DOMAIN mapWallet)
    BY <1>3, <1>4, Zenon DEF Copied
  <2> QED
    BY <1>5, <2>1 DEF InWallet, Concerns
<1>8. mempool' \in PoolOf(T)
  BY <1>1, <1>4, <1>6, <1>7, GivenCopies, Zenon
<1>9. InWallet' = T
  BY <1>2, <1>5 DEF InWallet
<1> QED
  BY <1>1, <1>2, <1>8, <1>9, Zenon DEF PoolKept

(* An orphan that is accepted is adopted. *)
LEMMA AdoptedStep ==
  ASSUME WalletInv, PoolKept, NodeTyped, TryOrphanTxToWallet, Grows
  PROVE  PoolKept'
<1>1. PICK t \in todo : mempool' = IF Accepted(t) THEN addUnchecked(mempool, t) ELSE mempool
  BY DEF TryOrphanTxToWallet, TryOrphanTx
<1>2. t \in Txs
  BY <1>1 DEF NodeTyped, OrphanInv, LoopInv, MapsInv
<1>3. CASE mempool' = mempool
  BY <1>3, UnpooledStep, Zenon DEF TryOrphanTxToWallet, walletVars
<1>4. CASE mempool' # mempool
  <2>1. Accepted(t) /\ mempool' = addUnchecked(mempool, t)
    BY <1>1, <1>4
  <2>2. reaccept' = reaccept /\ adopted' = adopted \cup (mempool'.mapTx \ mempool.mapTx)
    BY <1>4, Zenon DEF TryOrphanTxToWallet, SyncWithWallets
  <2>3. t \in adopted'
    BY <2>1, <2>2 DEF Accepted, AcceptOK, Acceptable, addUnchecked
  <2> QED
    BY <1>2, <2>1, <2>2, <2>3, PooledStep, Zenon
<1> QED
  BY <1>3, <1>4, Zenon

LEMMA CommitPoolStep ==
  ASSUME WalletInv, PoolKept, NEW t \in Txs, CommitTransaction(t), Grows
  PROVE  PoolKept'
<1>1. t \in DOMAIN mapWallet'
  BY Zenon DEF CommitTransaction, AddToWallet, WalletUpdateSpent, MarkSpent, MarkUnspent
<1>2. adopted' = adopted /\ reaccept' = reaccept
  BY Zenon DEF CommitTransaction
<1>3. CASE Accepted(t)
  BY <1>1, <1>2, <1>3, PooledStep, Zenon DEF CommitTransaction
<1>4. CASE ~ Accepted(t)
  BY <1>2, <1>4, UnpooledStep, Zenon DEF CommitTransaction
<1> QED
  BY <1>3, <1>4

LEMMA PoolKeptStep ==
  ASSUME WalletInv, PoolKept, NodeTyped, [NextNode]_allVars, Grows
  PROVE  PoolKept'
<1>1. CASE HandlerToWallet
  <2>1. ASSUME (NextTx \/ TxDone) /\ UNCHANGED walletVars PROVE PoolKept'
    BY <2>1, UnpooledStep DEF NextTx, TxDone, walletVars
  <2> QED
    BY <1>1, <2>1, AdoptedStep, Zenon DEF HandlerToWallet
<1>2. ASSUME NEW t \in Txs, TxToWallet(t) \/ RawTxToWallet(t) PROVE PoolKept'
  <2>1. /\ Accepted(t) /\ mempool' = addUnchecked(mempool, t)
        /\ SyncWithWallets(t) /\ adopted' = adopted /\ reaccept' = reaccept
    BY <1>2, Zenon DEF TxToWallet, RawTxToWallet, ReceiveTx, LocalTx, SyncWithWallets
  <2> QED
    BY <2>1, PooledStep
<1>3. ASSUME NEW t \in Txs, OrphanTxToWallet(t) PROVE PoolKept'
  BY <1>3, UnpooledStep DEF OrphanTxToWallet, ReceiveOrphanTx, walletVars
<1>4. ASSUME NEW t \in Txs, CommitTransaction(t) PROVE PoolKept'
  BY <1>4, CommitPoolStep, Zenon
<1>5. ASSUME NEW b \in Blocks \ {Genesis}, ExtendChainToWallet(b) \/ ReorganizeToWallet(b)
      PROVE  PoolKept'
  BY <1>5, ChainPoolStep DEF ExtendChainToWallet, ReorganizeToWallet, ChainToWallet
<1>6. ASSUME NEW b, NEW j, NEW k, SetBestChainFails(b, j, k) PROVE PoolKept'
  BY <1>6, UnpooledStep, Zenon DEF SetBestChainFails, nodeVars
<1>7. ASSUME NEW b \in Blocks, Restart(b) PROVE PoolKept'
  BY <1>7, RestartPoolStep, Zenon
<1>8. CASE RepairWallet
  BY <1>8, UnpooledStep DEF RepairWallet, nodeVars
<1>9. CASE ReacceptTx
  BY <1>9, ReacceptStep, Zenon
<1>10. CASE UNCHANGED allVars
  BY <1>10, UnpooledStep, Zenon DEF allVars, nodeVars, walletVars
<1> QED
  BY <1>1, <1>2, <1>3, <1>4, <1>5, <1>6, <1>7, <1>8, <1>9, <1>10, Zenon DEF NextNode

(* The steps of OrphanTx are those of the node, but for the user's         *)
(* transactions and a restart.                                             *)
LEMMA OrphanKept ==
  ASSUME OrphanInv, [NextNode]_allVars
  PROVE  OrphanInv'
<1>1. ASSUME Next PROVE OrphanInv'
  BY <1>1, OrphanStep, Zenon
<1>2. ASSUME UNCHANGED <<orphanVars, queueVars>> PROVE OrphanInv'
  BY <1>2 DEF orphanVars, queueVars, OrphanInv, MapsInv, LoopInv, Idle
<1>3. ASSUME HandlerToWallet PROVE Next
  BY <1>3, Zenon DEF HandlerToWallet, TryOrphanTxToWallet, Next, Handler
<1>4. ASSUME NEW t \in Txs, TxToWallet(t) \/ OrphanTxToWallet(t) \/ RawTxToWallet(t) PROVE Next
  BY <1>4 DEF TxToWallet, OrphanTxToWallet, RawTxToWallet, Next
<1>5. ASSUME NEW b \in Blocks \ {Genesis}, ExtendChainToWallet(b) \/ ReorganizeToWallet(b) PROVE Next
  BY <1>5 DEF ExtendChainToWallet, ReorganizeToWallet, Next
<1>6. ASSUME NEW b \in Blocks, Restart(b) PROVE OrphanInv'
  <2>1. /\ mapOrphanTransactions' = {} /\ mapOrphanTransactionsByPrev' = <<>>
        /\ vWorkQueue' = <<>> /\ vEraseQueue' = {} /\ todo' = {}
    BY <1>6 DEF Restart
  <2>2. Cardinality({}) = 0 /\ IsFiniteSet({}) /\ MaxOrphans >= 0
    BY FS_EmptySet, OrphanTxAssumption
  <2>3. DOMAIN <<>> = {} /\ Agrees(<<>>, {})
    BY DEF Agrees, ByPrev, Spending
  <2>4. MapsInv'
    BY <2>1, <2>2, <2>3, OrphanTxAssumption, Zenon DEF MapsInv
  <2>5. LoopInv'
    BY <2>1 DEF LoopInv
  <2> QED
    BY <2>4, <2>5, Zenon DEF OrphanInv
<1>7. ASSUME \/ \E t \in Txs : CommitTransaction(t)
             \/ \E b \in Blocks \ {Genesis} : \E j, k \in 0..Cardinality(Blocks) :
                   SetBestChainFails(b, j, k)
             \/ RepairWallet \/ ReacceptTx \/ UNCHANGED allVars
      PROVE  UNCHANGED <<orphanVars, queueVars>>
  BY <1>7, Zenon DEF CommitTransaction, SetBestChainFails, RepairWallet, ReacceptTx, allVars, nodeVars
<1> QED
  BY <1>1, <1>2, <1>3, <1>4, <1>5, <1>6, <1>7, Zenon DEF NextNode

(* AddOrphanTx takes no large transaction. *)
LEMMA SmallKept ==
  ASSUME NodeTyped, [NextNode]_allVars
  PROVE  mapOrphanTransactions' \cap Large = {}
<1>1. ASSUME mapOrphanTransactions' \subseteq mapOrphanTransactions
      PROVE  mapOrphanTransactions' \cap Large = {}
  BY <1>1 DEF NodeTyped
<1>2. ASSUME HandlerToWallet PROVE mapOrphanTransactions' \subseteq mapOrphanTransactions
  BY <1>2, Zenon DEF HandlerToWallet, TryOrphanTxToWallet, TryOrphanTx, NextTx, TxDone, EraseOrphans, orphanVars
<1>3. ASSUME NEW t \in Txs, OrphanTxToWallet(t) PROVE mapOrphanTransactions' \cap Large = {}
  <2>1. /\ t \notin Large
        /\ \E E : mapOrphanTransactions' = (mapOrphanTransactions \cup {t}) \ E
    BY <1>3 DEF OrphanTxToWallet, ReceiveOrphanTx
  <2> QED
    BY <2>1 DEF NodeTyped
<1>4. ASSUME \E t \in Txs : TxToWallet(t) \/ RawTxToWallet(t) \/ CommitTransaction(t)
      PROVE  mapOrphanTransactions' = mapOrphanTransactions
  BY <1>4, Zenon DEF TxToWallet, RawTxToWallet, CommitTransaction, ReceiveTx, LocalTx, orphanVars
<1>5. ASSUME \E b \in Blocks \ {Genesis} :
                \/ ExtendChainToWallet(b) \/ ReorganizeToWallet(b)
                \/ \E j, k \in 0..Cardinality(Blocks) : SetBestChainFails(b, j, k)
      PROVE  mapOrphanTransactions' = mapOrphanTransactions
  BY <1>5 DEF ExtendChainToWallet, ReorganizeToWallet, SetBestChainFails, ExtendChain, Reorganize,
              nodeVars, orphanVars
<1>6. ASSUME \E b \in Blocks : Restart(b) PROVE mapOrphanTransactions' = {}
  BY <1>6, Zenon DEF Restart
<1>7. ASSUME RepairWallet \/ ReacceptTx \/ UNCHANGED allVars
      PROVE  mapOrphanTransactions' = mapOrphanTransactions
  BY <1>7, Zenon DEF RepairWallet, ReacceptTx, allVars, nodeVars, orphanVars
<1> QED
  BY <1>1, <1>2, <1>3, <1>4, <1>5, <1>6, <1>7, Zenon DEF NextNode

(* The histories hold transactions. *)
LEMMA HistoryKept ==
  ASSUME WalletInv, NodeTyped, PoolKept', [NextNode]_allVars
  PROVE  elsewhere' \cup adopted' \subseteq Txs
<1>1. mempool'.mapTx \subseteq Txs
  BY Zenon DEF PoolKept, PoolOf, InWallet
<1>2. elsewhere \subseteq Txs /\ adopted \subseteq Txs
  BY DEF NodeTyped
<1>3. ASSUME HandlerToWallet PROVE elsewhere' = elsewhere /\ adopted' \subseteq adopted \cup mempool'.mapTx
  BY <1>3, Zenon DEF HandlerToWallet, TryOrphanTxToWallet, TryOrphanTx, NextTx, TxDone, walletVars
<1>4. ASSUME NEW t \in Txs,
             TxToWallet(t) \/ OrphanTxToWallet(t) \/ RawTxToWallet(t) \/ CommitTransaction(t)
      PROVE  elsewhere' \subseteq elsewhere \cup {t} /\ adopted' = adopted
  BY <1>4, Zenon DEF TxToWallet, OrphanTxToWallet, RawTxToWallet, CommitTransaction, ReceiveTx,
              ReceiveOrphanTx, LocalTx, walletVars
<1>5. ASSUME NEW b \in Blocks \ {Genesis}, ExtendChainToWallet(b) \/ ReorganizeToWallet(b)
      PROVE  elsewhere' \subseteq Txs /\ adopted' = adopted
  <2>1. \A x \in Blocks : TxsOf(x) \subseteq Txs
    BY TxsType
  <2>2. Branch[b] \subseteq Blocks
    BY BranchEnds, Zenon
  <2>3. adopted' = adopted
    BY <1>5 DEF ExtendChainToWallet, ReorganizeToWallet, ChainToWallet
  <2>4. CASE ExtendChainToWallet(b)
    BY <1>2, <2>1, <2>3, <2>4, Zenon DEF ExtendChainToWallet, ExtendChain
  <2>5. CASE ReorganizeToWallet(b)
    <3>1. elsewhere' = elsewhere \cup UNION {TxsOf(x) : x \in Branch[b] \ Branch[tip]}
      BY <2>5, Zenon DEF ReorganizeToWallet, Reorganize
    <3> QED
      BY <1>2, <2>1, <2>2, <2>3, <3>1, Zenon
  <2> QED
    BY <1>5, <2>4, <2>5, Zenon
<1>6. ASSUME ReacceptTx PROVE elsewhere' \subseteq elsewhere \cup mempool'.mapTx /\ adopted' = adopted
  BY <1>6, Zenon DEF ReacceptTx
<1>7. ASSUME \/ \E b \in Blocks \ {Genesis} : \E j, k \in 0..Cardinality(Blocks) :
                   SetBestChainFails(b, j, k)
             \/ \E b \in Blocks : Restart(b)
             \/ RepairWallet \/ UNCHANGED allVars
      PROVE  elsewhere' = elsewhere /\ adopted' = adopted
  BY <1>7, Zenon DEF SetBestChainFails, Restart, RepairWallet, allVars, nodeVars, walletVars
<1> QED
  BY <1>1, <1>2, <1>3, <1>4, <1>5, <1>6, <1>7, Zenon DEF NextNode

(* What a failed attempt to change the chain leaves astray or stale is an  *)
(* entry of the wallet.                                                    *)
LEMMA AstrayKept ==
  ASSUME NodeTyped, [NextNode]_allVars, Grows
  PROVE  astray' \cup stale' \subseteq DOMAIN mapWallet'
<1>1. ASSUME HandlerToWallet PROVE astray' = astray /\ stale' = stale
  BY <1>1, Zenon DEF HandlerToWallet, TryOrphanTxToWallet, SyncWithWallets, walletVars
<1>2. ASSUME NEW t \in Txs,
             TxToWallet(t) \/ OrphanTxToWallet(t) \/ RawTxToWallet(t) \/ CommitTransaction(t)
      PROVE  astray' = astray /\ stale' = stale
  BY <1>2, Zenon DEF TxToWallet, OrphanTxToWallet, RawTxToWallet, CommitTransaction, SyncWithWallets, walletVars
<1>3. ASSUME NEW b \in Blocks \ {Genesis}, ExtendChainToWallet(b) \/ ReorganizeToWallet(b)
      PROVE  astray' \subseteq astray /\ stale' \subseteq stale
  BY <1>3 DEF ExtendChainToWallet, ReorganizeToWallet, ChainToWallet
<1>4. ASSUME NEW b, NEW j, NEW k, SetBestChainFails(b, j, k)
      PROVE  astray' \subseteq astray \cup DOMAIN mapWallet /\ stale' \subseteq stale \cup DOMAIN mapWallet
  BY <1>4, Zenon DEF SetBestChainFails
<1>5. ASSUME NEW b \in Blocks, Restart(b) PROVE astray' \subseteq astray /\ stale' \subseteq stale
  BY <1>5, Zenon DEF Restart
<1>6. ASSUME RepairWallet \/ ReacceptTx \/ UNCHANGED allVars
      PROVE  astray' = astray /\ stale' \subseteq stale
  BY <1>6, Zenon DEF RepairWallet, ReacceptTx, allVars, walletVars
<1>7. astray' \subseteq astray \cup DOMAIN mapWallet /\ stale' \subseteq stale \cup DOMAIN mapWallet
  BY <1>1, <1>2, <1>3, <1>4, <1>5, <1>6, Zenon DEF NextNode
<1> QED
  BY <1>7 DEF NodeTyped, Grows

-----------------------------------------------------------------------------
(*                        More theorems: the pool, the types               *)

(* Each part rests on the others: an orphan's types make what is adopted a *)
(* transaction, the chain and the pool make the wallet recognise what is   *)
(* pooled, and the wallet's copies make what a restart pools known.        *)
NodeInv == WalletInv /\ PoolKept /\ NodeTyped

LEMMA NodeInvInit == InitNode => NodeInv
<1> SUFFICES ASSUME InitNode PROVE NodeInv
  OBVIOUS
<1>1. WalletInv /\ OrphanInv
  BY WalletInit, OrphanInit, Zenon DEF InitNode
<1>2. mempool \in PoolOf(InWallet)
  BY EmptyPoolOf DEF InitNode, Init
<1> QED
  BY <1>1, <1>2 DEF NodeInv, PoolKept, NodeTyped, InitNode, Init

LEMMA NodeInvNext == NodeInv /\ [NextNode]_allVars => NodeInv'
<1> SUFFICES ASSUME NodeInv, [NextNode]_allVars PROVE NodeInv'
  OBVIOUS
<1>1. WalletInv' /\ Grows
  BY WalletStep DEF NodeInv
<1>2. PoolKept'
  BY <1>1, PoolKeptStep, Zenon DEF NodeInv
<1>3. NodeTyped'
  BY <1>1, <1>2, OrphanKept, SmallKept, HistoryKept, AstrayKept, Zenon DEF NodeInv, NodeTyped
<1> QED
  BY <1>1, <1>2, <1>3, Zenon DEF NodeInv

LEMMA NodeInvariance == SpecNode => []NodeInv
BY NodeInvInit, NodeInvNext, PTL DEF SpecNode

(* SyncWithWallets: the wallet has what the pool holds and concerns us,    *)
(* but for adopted orphans and what spends only from those, after every    *)
(* reorganisation that brings transactions back to the pool and after      *)
(* every restart that pools the wallet's own.                              *)
THEOREM PoolStaysInWallet == SpecNode => []PoolInWallet
<1>1. NodeInv => PoolInWallet
  BY Zenon DEF NodeInv, PoolKept, PoolOf, InWallet, PoolInWallet
<1> QED
  BY <1>1, NodeInvariance, PTL

(* The types: a flag is set only for an output that the transaction has,   *)
(* every copy and every transaction still to be pooled is a transaction,   *)
(* and what is astray or stale is an entry.                                *)
THEOREM WalletStaysTyped == SpecNode => []WalletTypeOK
<1>1. ASSUME NodeInv PROVE WalletTypeOK
  <2>1. PICK X : Copied(X, DOMAIN mapWallet) /\ mapWallet \in Keeping(X, DOMAIN mapWallet)
    BY <1>1 DEF NodeInv, WalletInv, Sane
  <2>2. /\ DOMAIN mapWallet \subseteq Txs
        /\ \A t \in DOMAIN mapWallet : mapWallet[t] \in Entries(X)
    BY <2>1, WalletsIn, Zenon DEF Keeping
  <2>3. ASSUME NEW t \in DOMAIN mapWallet
        PROVE  /\ mapWallet[t].hashBlock \in Blocks \cup {Nil}
               /\ mapWallet[t].vfSpent \subseteq 1..nOut[t]
               /\ DOMAIN mapWallet[t].vtxPrev \subseteq Txs
    <3>1. mapWallet[t].hashBlock \in Blocks \cup {Nil} /\ mapWallet[t].vtxPrev \in X
      BY <2>2 DEF Entries
    <3>2. mapWallet[t].vfSpent \subseteq 1..nOut[t]
      BY <2>1, Zenon DEF Keeping, Shown
    <3> QED
      BY <2>1, <3>1, <3>2, Zenon DEF Copied
  <2>4. mempool.mapTx \subseteq Txs /\ reaccept \subseteq DOMAIN mapWallet
    BY <1>1, Zenon DEF NodeInv, PoolKept, PoolOf, InWallet
  <2>5. TypeOK
    BY <1>1, <2>4 DEF NodeInv, WalletInv, ChainInv, NodeTyped, OrphanInv, MapsInv, LoopInv, TypeOK
  <2> QED
    BY <1>1, <2>2, <2>3, <2>4, <2>5, Zenon DEF NodeInv, NodeTyped, WalletTypeOK
<1> QED
  BY <1>1, NodeInvariance, PTL
=============================================================================
