---------------------------- MODULE Wallet_proofs ----------------------------
(***************************************************************************)
(* What the operations of the wallet do to what it knows of a chain.       *)
(*                                                                         *)
(* The wallet learns of a chain transaction by transaction.  The invariant *)
(* speaks of a set P of transactions, the part of a chain that the wallet  *)
(* has been told of, and is carried from one transaction to the next along *)
(* the folds of SyncBlocks and ScanForWalletTransactions.                  *)
(***************************************************************************)
EXTENDS WalletNode, OrphanTx_proofs

-----------------------------------------------------------------------------
(*                                  Vectors                                *)

(* A function on the first n numbers is a vector of size n. *)
LEMMA VectorOf ==
  ASSUME NEW V, NEW n \in Nat, NEW f \in [1..n -> V]
  PROVE  f \in Seq(V) /\ Len(f) = n
OBVIOUS

LEMMA EmptyVector == DOMAIN <<>> = {}
OBVIOUS

(* The elements of a vector after one is put at its front or its end. *)
LEMMA PutFirst ==
  ASSUME NEW V, NEW x \in V, NEW s \in Seq(V), NEW n \in Nat, Len(s) = n
  PROVE  /\ DOMAIN (<<x>> \o s) = 1..(n + 1)
         /\ (<<x>> \o s)[1] = x
         /\ \A i \in 1..(n + 1) : i # 1 => /\ (<<x>> \o s)[i] = s[i - 1]
                                         /\ i - 1 \in 1..n /\ i - 1 \in 1..(n + 1)
<1>1. <<x>> \in Seq(V) /\ Len(<<x>>) = 1 /\ <<x>>[1] = x
  OBVIOUS
<1> QED
  BY <1>1

LEMMA PutLast ==
  ASSUME NEW V, NEW x \in V, NEW s \in Seq(V), NEW n \in Nat, Len(s) = n
  PROVE  /\ DOMAIN Append(s, x) = 1..(n + 1)
         /\ \A i \in 1..(n + 1) : Append(s, x)[i] \in V
OBVIOUS

-----------------------------------------------------------------------------
(*                         Operations of the wallet                        *)

(* The wallets whose entries hold copies from X.  The copies decide        *)
(* nothing here, so X is whatever a wallet has.                            *)
Entries(X) == [hashBlock : Blocks \cup {Nil}, vfSpent : SUBSET Nat, vtxPrev : X]

Wallets(X) == UNION {[D -> Entries(X)] : D \in SUBSET Txs}

(* A transaction that pays us or spends from us. *)
Concerns(t) == IsMine(t) \/ vin[t] \cap Mine # {}

LEMMA WalletsIn ==
  ASSUME NEW X, NEW w
  PROVE  w \in Wallets(X) <=> DOMAIN w \subseteq Txs /\ w \in [DOMAIN w -> Entries(X)]
BY DEF Wallets

LEMMA OutputsType ==
  ASSUME NEW t \in Txs
  PROVE  1..nOut[t] \subseteq Nat
BY TxAssumption

(* MarkSpent and MarkUnspent change the flags of the outpoints given. *)
LEMMA MarkSpentIs ==
  ASSUME NEW X, NEW w \in Wallets(X), NEW O
  PROVE  /\ MarkSpent(w, O) \in Wallets(X)
         /\ DOMAIN MarkSpent(w, O) = DOMAIN w
         /\ \A x \in DOMAIN w :
               /\ MarkSpent(w, O)[x].hashBlock = w[x].hashBlock
               /\ MarkSpent(w, O)[x].vfSpent = w[x].vfSpent \cup {n \in 1..nOut[x] : <<x, n>> \in O}
<1> DEFINE S(x) == {n \in 1..nOut[x] : <<x, n>> \in O}
           m == MarkSpent(w, O)
<1>1. DOMAIN w \subseteq Txs /\ w \in [DOMAIN w -> Entries(X)]
  BY WalletsIn
<1>2. m = [x \in DOMAIN w |-> [w[x] EXCEPT !.vfSpent = w[x].vfSpent \cup S(x)]]
  BY DEF MarkSpent
<1>3. \A x \in DOMAIN w : S(x) \subseteq Nat
  BY <1>1, OutputsType
<1> HIDE DEF S, m
<1>4. ASSUME NEW x \in DOMAIN w
      PROVE  /\ m[x] \in Entries(X)
             /\ m[x].hashBlock = w[x].hashBlock
             /\ m[x].vfSpent = w[x].vfSpent \cup S(x)
  BY <1>1, <1>2, <1>3 DEF Entries
<1>5. DOMAIN m = DOMAIN w /\ m \in [DOMAIN w -> Entries(X)]
  BY <1>2, <1>4, Zenon
<1>6. m \in Wallets(X)
  BY <1>1, <1>5, WalletsIn
<1> QED
  BY <1>4, <1>5, <1>6 DEF S, m

LEMMA MarkUnspentIs ==
  ASSUME NEW X, NEW w \in Wallets(X), NEW O
  PROVE  /\ MarkUnspent(w, O) \in Wallets(X)
         /\ DOMAIN MarkUnspent(w, O) = DOMAIN w
         /\ \A x \in DOMAIN w :
               /\ MarkUnspent(w, O)[x].hashBlock = w[x].hashBlock
               /\ MarkUnspent(w, O)[x].vfSpent = w[x].vfSpent \ {n \in 1..nOut[x] : <<x, n>> \in O}
<1> DEFINE S(x) == {n \in 1..nOut[x] : <<x, n>> \in O}
           m == MarkUnspent(w, O)
<1>1. DOMAIN w \subseteq Txs /\ w \in [DOMAIN w -> Entries(X)]
  BY WalletsIn
<1>2. m = [x \in DOMAIN w |-> [w[x] EXCEPT !.vfSpent = w[x].vfSpent \ S(x)]]
  BY DEF MarkUnspent
<1> HIDE DEF S, m
<1>3. ASSUME NEW x \in DOMAIN w
      PROVE  /\ m[x] \in Entries(X)
             /\ m[x].hashBlock = w[x].hashBlock
             /\ m[x].vfSpent = w[x].vfSpent \ S(x)
  BY <1>1, <1>2 DEF Entries
<1>4. DOMAIN m = DOMAIN w /\ m \in [DOMAIN w -> Entries(X)]
  BY <1>2, <1>3, Zenon
<1>5. m \in Wallets(X)
  BY <1>1, <1>4, WalletsIn
<1> QED
  BY <1>3, <1>4, <1>5 DEF S, m

(* What the wallet m has been told since it was w: transaction t, in block *)
(* h or in none.                                                           *)
Told(w, m, t, h) ==
    /\ DOMAIN w \subseteq DOMAIN m
    /\ DOMAIN m \subseteq DOMAIN w \cup {t}
    /\ IsMine(t) \/ IsFromMe(w, t) => t \in DOMAIN m
    /\ t \in DOMAIN m \ DOMAIN w => Concerns(t)
    /\ \A x \in DOMAIN w : x # t \/ h = Nil => /\ m[x].hashBlock = w[x].hashBlock
                                               /\ w[x].vfSpent \subseteq m[x].vfSpent
    /\ t \in DOMAIN m /\ (h # Nil \/ t \notin DOMAIN w) => m[t].hashBlock = h
    /\ \A x \in DOMAIN w \ {t} : \A n \in 1..nOut[x] :
          <<x, n>> \in vin[t] \cap Mine => n \in m[x].vfSpent
    /\ \A x \in DOMAIN m : \A n \in m[x].vfSpent :
          \/ x \in DOMAIN w /\ n \in w[x].vfSpent
          \/ t \in DOMAIN m /\ <<x, n>> \in vin[t] /\ n \in 1..nOut[x]

(* AddToWallet, with the copies P. *)
LEMMA AddToWalletIs ==
  ASSUME NEW X, NEW w \in Wallets(X), NEW t \in Txs, NEW h \in Blocks \cup {Nil}, NEW P \in X,
         t \in DOMAIN w \/ Concerns(t)
  PROVE  /\ AddToWallet(w, t, h, P) \in Wallets(X)
         /\ DOMAIN AddToWallet(w, t, h, P) = DOMAIN w \cup {t}
         /\ Told(w, AddToWallet(w, t, h, P), t, h)
<1> DEFINE new == [hashBlock |-> h, vfSpent |-> {}, vtxPrev |-> P]
           merged == [w[t] EXCEPT !.hashBlock = IF h = Nil THEN w[t].hashBlock ELSE h]
           e == [x \in DOMAIN w \cup {t} |->
                   IF x = t THEN IF t \in DOMAIN w THEN merged ELSE new ELSE w[x]]
           s == MarkSpent(e, vin[t] \cap Mine)
           O == OutputsOf(t) \cap Mine
           u == MarkUnspent(s, O)
           m == AddToWallet(w, t, h, P)
<1>1. DOMAIN w \subseteq Txs /\ w \in [DOMAIN w -> Entries(X)]
  BY WalletsIn
<1>2. m = IF h # Nil THEN u ELSE s
  BY DEF AddToWallet, WalletUpdateSpent
<1>3. new \in Entries(X) /\ new.hashBlock = h /\ new.vfSpent = {}
  BY DEF Entries
<1>4. t \in DOMAIN w => /\ merged \in Entries(X) /\ merged.vfSpent = w[t].vfSpent
                        /\ merged.hashBlock = IF h = Nil THEN w[t].hashBlock ELSE h
  BY <1>1 DEF Entries
<1> HIDE DEF new, merged
<1>5. DOMAIN e = DOMAIN w \cup {t} /\ \A x \in DOMAIN w \ {t} : e[x] = w[x]
  OBVIOUS
<1>6. /\ e[t] \in Entries(X)
      /\ e[t].vfSpent = IF t \in DOMAIN w THEN w[t].vfSpent ELSE {}
      /\ e[t].hashBlock = IF h = Nil /\ t \in DOMAIN w THEN w[t].hashBlock ELSE h
  BY <1>3, <1>4
<1>7. e \in Wallets(X)
  <2>1. \A x \in DOMAIN w \cup {t} : e[x] \in Entries(X)
    BY <1>1, <1>5, <1>6
  <2>2. e \in [DOMAIN e -> Entries(X)] /\ DOMAIN e \subseteq Txs
    BY <1>1, <1>5, <2>1, Zenon
  <2> QED
    BY <2>2, WalletsIn
<1> HIDE DEF e
<1>8. /\ s \in Wallets(X) /\ DOMAIN s = DOMAIN w \cup {t}
      /\ \A x \in DOMAIN w \cup {t} :
            /\ s[x].hashBlock = e[x].hashBlock
            /\ s[x].vfSpent = e[x].vfSpent \cup {n \in 1..nOut[x] : <<x, n>> \in vin[t] \cap Mine}
  BY <1>5, <1>7, MarkSpentIs
<1> HIDE DEF s
<1>9. /\ u \in Wallets(X) /\ DOMAIN u = DOMAIN w \cup {t}
      /\ \A x \in DOMAIN w \cup {t} :
            /\ u[x].hashBlock = s[x].hashBlock
            /\ u[x].vfSpent = s[x].vfSpent \ {n \in 1..nOut[x] : <<x, n>> \in O}
  BY <1>8, MarkUnspentIs
<1>10. \A x \in DOMAIN w \ {t} : {n \in 1..nOut[x] : <<x, n>> \in O} = {}
  BY DEF OutputsOf
<1> HIDE DEF u, m, O
<1>11. /\ m \in Wallets(X) /\ DOMAIN m = DOMAIN w \cup {t}
       /\ \A x \in DOMAIN w \cup {t} :
             /\ m[x].hashBlock = e[x].hashBlock
             /\ m[x].vfSpent \subseteq s[x].vfSpent
             /\ x # t \/ h = Nil => m[x].vfSpent = s[x].vfSpent
  BY <1>2, <1>8, <1>9, <1>10, Zenon
<1>12. Told(w, m, t, h)
  <2>1. /\ DOMAIN w \subseteq DOMAIN m /\ DOMAIN m \subseteq DOMAIN w \cup {t} /\ t \in DOMAIN m
        /\ t \in DOMAIN m \ DOMAIN w => Concerns(t)
    BY <1>11
  <2>2. ASSUME NEW x \in DOMAIN w, x # t \/ h = Nil
        PROVE  m[x].hashBlock = w[x].hashBlock /\ w[x].vfSpent \subseteq m[x].vfSpent
    BY <1>5, <1>6, <1>8, <1>11, <2>2, ZenonT(30)
  <2>3. h # Nil \/ t \notin DOMAIN w => m[t].hashBlock = h
    BY <1>6, <1>11
  <2>4. ASSUME NEW x \in DOMAIN w \ {t}, NEW n \in 1..nOut[x], <<x, n>> \in vin[t] \cap Mine
        PROVE  n \in m[x].vfSpent
    BY <1>8, <1>11, <2>4
  <2>5. ASSUME NEW x \in DOMAIN m, NEW n \in m[x].vfSpent
        PROVE  (x \in DOMAIN w /\ n \in w[x].vfSpent) \/ (<<x, n>> \in vin[t] /\ n \in 1..nOut[x])
    BY <1>5, <1>6, <1>8, <1>11
  <2> QED
    BY <2>1, <2>2, <2>3, <2>4, <2>5, Zenon DEF Told
<1> QED
  BY <1>11, <1>12 DEF m

(* AddToWalletIfInvolvingMe, fUpdate *)
LEMMA ToldAdd ==
  ASSUME NEW X, NEW w \in Wallets(X), NEW t \in Txs, NEW h \in Blocks \cup {Nil}, <<>> \in X
  PROVE  /\ AddToWalletIfInvolvingMe(w, t, h, TRUE) \in Wallets(X)
         /\ Told(w, AddToWalletIfInvolvingMe(w, t, h, TRUE), t, h)
<1> DEFINE m == AddToWalletIfInvolvingMe(w, t, h, TRUE)
<1>1. CASE t \in DOMAIN w \/ IsMine(t) \/ IsFromMe(w, t)
  <2>1. m = AddToWallet(w, t, h, <<>>)
    BY <1>1, Zenon DEF AddToWalletIfInvolvingMe
  <2>2. t \in DOMAIN w \/ Concerns(t)
    BY <1>1 DEF Concerns, IsFromMe
  <2>3. AddToWallet(w, t, h, <<>>) \in Wallets(X) /\ Told(w, AddToWallet(w, t, h, <<>>), t, h)
    BY <2>2, AddToWalletIs, Zenon
  <2> QED
    BY <2>1, <2>3, Zenon
<1>2. CASE ~ (t \in DOMAIN w \/ IsMine(t) \/ IsFromMe(w, t))
  <2>1. m = MarkSpent(w, vin[t] \cap Mine)
    BY <1>2 DEF AddToWalletIfInvolvingMe, WalletUpdateSpent
  <2> HIDE DEF m
  <2> DEFINE S(x) == {n \in 1..nOut[x] : <<x, n>> \in vin[t] \cap Mine}
  <2>2. /\ m \in Wallets(X) /\ DOMAIN m = DOMAIN w
        /\ \A x \in DOMAIN w : /\ m[x].hashBlock = w[x].hashBlock
                               /\ m[x].vfSpent = w[x].vfSpent \cup S(x)
    BY <2>1, MarkSpentIs
  <2>3. \A x \in DOMAIN w : S(x) = {}
    BY <1>2 DEF IsFromMe
  <2>4. \A x \in DOMAIN w : \A n \in 1..nOut[x] : <<x, n>> \notin vin[t] \cap Mine
    BY <2>3, Zenon
  <2> HIDE DEF S
  <2>5. \A x \in DOMAIN w : m[x].hashBlock = w[x].hashBlock /\ m[x].vfSpent = w[x].vfSpent
    BY <2>2, <2>3, Zenon
  <2>6. Told(w, m, t, h)
    BY <1>2, <2>2, <2>4, <2>5 DEF Told
  <2> QED
    BY <2>2, <2>6, Zenon DEF m
<1> QED
  BY <1>1, <1>2, Zenon

-----------------------------------------------------------------------------
(*                             The invariants                              *)

(* A flag is set only for an output, and while the wallet has a            *)
(* transaction that spends it; and an entry's block holds its transaction. *)
Shown(w) ==
    \A t \in DOMAIN w : \A n \in w[t].vfSpent :
        n \in 1..nOut[t] /\ \E s \in DOMAIN w : <<t, n>> \in vin[s]

Seen(w) == \A t \in DOMAIN w : w[t].hashBlock # Nil => t \in TxsOf(w[t].hashBlock)

(* The wallets that keep the entries D. *)
Keeping(X, D) == {w \in Wallets(X) : D \subseteq DOMAIN w /\ Shown(w) /\ Seen(w)}

(* What a wallet knows of transactions P of the chain that ends in B: all  *)
(* that concern us are entries and, unless they are in A, under a block of *)
(* that chain; and all outputs of ours that P spends are marked, but for   *)
(* the entries in S.                                                       *)
Knows(w, P, A, S, B) ==
    /\ \A t \in P : Concerns(t) => /\ t \in DOMAIN w
                                   /\ t \notin A => w[t].hashBlock \in Connected(B)
    /\ \A t \in (P \cap DOMAIN w) \ S : \A o \in OutputsOf(t) \cap Mine :
          (\E s \in P : o \in vin[s]) => o[2] \in w[t].vfSpent

(* Being told of a transaction keeps Shown and Seen. *)
LEMMA ToldKeeping ==
  ASSUME NEW X, NEW D, NEW w \in Keeping(X, D), NEW m \in Wallets(X), NEW t \in Txs, NEW h,
         h = Nil \/ t \in TxsOf(h), Told(w, m, t, h)
  PROVE  m \in Keeping(X, D)
<1>1. D \subseteq DOMAIN w /\ Shown(w) /\ Seen(w)
  BY DEF Keeping
<1>2. D \subseteq DOMAIN m
  BY <1>1 DEF Told
<1>3. Shown(m)
  <2> SUFFICES ASSUME NEW x \in DOMAIN m, NEW n \in m[x].vfSpent
               PROVE  n \in 1..nOut[x] /\ \E s \in DOMAIN m : <<x, n>> \in vin[s]
    BY DEF Shown
  <2>1. CASE x \in DOMAIN w /\ n \in w[x].vfSpent
    <3>1. PICK s \in DOMAIN w : n \in 1..nOut[x] /\ <<x, n>> \in vin[s]
      BY <1>1, <2>1 DEF Shown
    <3> QED
      BY <3>1 DEF Told
  <2>2. CASE t \in DOMAIN m /\ <<x, n>> \in vin[t] /\ n \in 1..nOut[x]
    BY <2>2
  <2> QED
    BY <2>1, <2>2 DEF Told
<1>4. Seen(m)
  <2> SUFFICES ASSUME NEW x \in DOMAIN m, m[x].hashBlock # Nil
               PROVE  x \in TxsOf(m[x].hashBlock)
    BY DEF Seen
  <2>1. CASE x # t
    <3>1. x \in DOMAIN w /\ m[x].hashBlock = w[x].hashBlock
      BY <2>1 DEF Told
    <3> QED
      BY <1>1, <3>1 DEF Seen
  <2>2. CASE x = t /\ (h # Nil \/ t \notin DOMAIN w)
    <3>1. m[x].hashBlock = h
      BY <2>2 DEF Told
    <3> QED
      BY <2>2, <3>1
  <2>3. CASE x = t /\ h = Nil /\ t \in DOMAIN w
    <3>1. m[x].hashBlock = w[x].hashBlock
      BY <2>3 DEF Told
    <3> QED
      BY <1>1, <2>3, <3>1 DEF Seen
  <2> QED
    BY <2>1, <2>2, <2>3
<1> QED
  BY <1>2, <1>3, <1>4 DEF Keeping

(* An output of ours makes its transaction one that pays us. *)
LEMMA MineIsMine ==
  ASSUME NEW o \in Mine
  PROVE  o = <<o[1], o[2]>> /\ o[1] \in Txs /\ o[2] \in 1..nOut[o[1]] /\ IsMine(o[1])
<1>1. o \in Txs \X (Nat \ {0}) /\ o[2] <= nOut[o[1]]
  BY WalletAssumption DEF OutPoints
<1>2. o = <<o[1], o[2]>> /\ o[1] \in Txs /\ o[2] \in Nat \ {0}
  BY <1>1
<1>3. nOut[o[1]] \in Nat
  BY <1>2, TxAssumption
<1>4. o[2] \in 1..nOut[o[1]]
  BY <1>1, <1>2, <1>3
<1> QED
  BY <1>2, <1>4 DEF IsMine

(* A transaction in no block leaves what is known of the chain: if it is   *)
(* on the chain and concerns us, it was known.                             *)
LEMMA ToldKnows ==
  ASSUME NEW w, NEW m, NEW t, NEW P, NEW A, NEW S, NEW B,
         Told(w, m, t, Nil), Knows(w, P, A, S, B)
  PROVE  Knows(m, P, A, S, B)
<1>1. ASSUME NEW x \in P, Concerns(x)
      PROVE  x \in DOMAIN m /\ (x \notin A => m[x].hashBlock \in Connected(B))
  BY <1>1 DEF Knows, Told
<1>2. ASSUME NEW x \in (P \cap DOMAIN m) \ S, NEW o \in OutputsOf(x) \cap Mine,
             \E s \in P : o \in vin[s]
      PROVE  o[2] \in m[x].vfSpent
  <2>1. x \in DOMAIN w
    BY DEF Knows, Told
  <2> QED
    BY <1>2, <2>1 DEF Knows, Told
<1> QED
  BY <1>1, <1>2 DEF Knows

(* The next transaction of the chain: it spends from P only, and P does    *)
(* not spend from it.                                                      *)
LEMMA NextKnown ==
  ASSUME NEW X, NEW w \in Wallets(X), NEW m, NEW t \in Txs, NEW P, NEW A, NEW S, NEW B \in Blocks,
         NEW b \in Connected(B), Told(w, m, t, b), Knows(w, P, A, S, B),
         \A o \in vin[t] : o[1] \in P,
         \A u \in P \cup {t} : \A o \in vin[u] : o[1] # t
  PROVE  Knows(m, P \cup {t}, A \ {t}, S \ {t}, B)
<1>1. b # Nil
  BY TreeAssumption, ConnectedType
<1>2. Concerns(t) => t \in DOMAIN m
  <2>1. ASSUME NEW o \in vin[t] \cap Mine PROVE IsFromMe(w, t)
    <3>1. o[1] \in P /\ Concerns(o[1])
      BY <2>1, MineIsMine DEF Concerns
    <3> QED
      BY <3>1 DEF Knows, IsFromMe
  <2> QED
    BY <2>1 DEF Told, Concerns
<1>3. ASSUME NEW x \in P \cup {t}, Concerns(x)
      PROVE  x \in DOMAIN m /\ (x \notin A \ {t} => m[x].hashBlock \in Connected(B))
  <2>1. CASE x = t
    BY <1>1, <1>2, <1>3, <2>1 DEF Told
  <2>2. CASE x # t
    BY <1>3, <2>2 DEF Told, Knows
  <2> QED
    BY <2>1, <2>2
<1>4. ASSUME NEW x \in ((P \cup {t}) \cap DOMAIN m) \ (S \ {t}), NEW o \in OutputsOf(x) \cap Mine,
             NEW u \in P \cup {t}, o \in vin[u]
      PROVE  o[2] \in m[x].vfSpent
  <2>1. o = <<x, o[2]>> /\ o[1] = x /\ o[2] \in 1..nOut[x]
    BY DEF OutputsOf
  <2>2. x # t
    BY <1>4, <2>1
  <2>3. x \in DOMAIN w \ {t} /\ x \in (P \cap DOMAIN w) \ S
    BY <2>2 DEF Told
  <2>4. CASE u \in P
    <3>1. o[2] \in w[x].vfSpent
      BY <1>4, <2>3, <2>4 DEF Knows
    <3> QED
      BY <2>2, <2>3, <3>1 DEF Told
  <2>5. CASE u = t
    <3>1. <<x, o[2]>> \in vin[t] \cap Mine
      BY <1>4, <2>1, <2>5
    <3> QED
      BY <2>1, <2>3, <3>1, Zenon DEF Told
  <2> QED
    BY <2>4, <2>5
<1> QED
  BY <1>3, <1>4 DEF Knows

-----------------------------------------------------------------------------
(*                        The folds of the wallet                          *)

Tell(v, t, h) == AddToWalletIfInvolvingMe(v, t, h, TRUE)

(* The transactions of block b are told one by one: the wallets on the way. *)
TellAll(base, s, b) == FoldLeft(LAMBDA v, t : Tell(v, t, b), base, s)

TellAllWithin(V, n, s, b) ==
    DOMAIN s = 1..n /\ \A v \in V : \A i \in 1..n : Tell(v, s[i], b) \in V

LEMMA TellAllTrace ==
  ASSUME NEW V, NEW base \in V, NEW n \in Nat, NEW s, NEW b, TellAllWithin(V, n, s, b)
  PROVE  \E g \in [0..n -> V] : /\ g[0] = base
                                /\ g[n] = TellAll(base, s, b)
                                /\ \A k \in 1..n : g[k] = Tell(g[k - 1], s[k], b)
<1> USE DEF TellAllWithin
<1> DEFINE F == [i \in 1..n |-> [v \in V |-> Tell(v, s[i], b)]]
           G(it) == [d \in SUBSET DOMAIN s |->
                       IF d = {} THEN base ELSE Tell(it[d \ {Max(d)}], s[Max(d)], b)]
           fold == CHOOSE it : it = G(it)
<1>1. TellAll(base, s, b) = fold[DOMAIN s]
  BY DEF TellAll, FoldLeft, MapThenFoldSet
<1>2. F \in [1..n -> [V -> V]]
  OBVIOUS
<1>3. \A d \in SUBSET (1..n) : d # {} => Max(d) \in 1..n
  <2>1. \A d \in SUBSET (1..n) : d \in SUBSET (1..(n + 1))
    OBVIOUS
  <2> QED
    BY <2>1, MaxSeg, Zenon
<1>4. \A it : \A d \in SUBSET (1..n) : d # {} /\ it[d \ {Max(d)}] \in V =>
          F[Max(d)][it[d \ {Max(d)}]] = Tell(it[d \ {Max(d)}], s[Max(d)], b)
  BY <1>3
<1>5. PICK it \in [SUBSET (1..n) -> V] : Folding(n, base, F, it)
  BY <1>2, FoldExists, Zenon
<1>6. it = G(it)
  <2>1. \A d \in SUBSET (1..n) : it[d \ {Max(d)}] \in V
    BY <1>5, Zenon
  <2> HIDE DEF F
  <2> QED
    BY <1>4, <1>5, <2>1, Zenon DEF Folding
<1>7. \A f : /\ G(f)[{}] = base
             /\ \A d \in SUBSET (1..n) : d # {} =>
                    G(f)[d] = Tell(f[d \ {Max(d)}], s[Max(d)], b)
  OBVIOUS
<1> HIDE DEF G
<1>8. fold = G(fold)
  BY <1>6
<1> HIDE DEF fold, F
<1>9. fold[{}] = base
  <2>1. G(fold)[{}] = base
    BY <1>7
  <2> QED
    BY <1>8, <2>1
<1>10. ASSUME NEW d \in SUBSET (1..n), d # {}, fold[d \ {Max(d)}] \in V
       PROVE  fold[d] = F[Max(d)][fold[d \ {Max(d)}]]
  <2>1. G(fold)[d] = Tell(fold[d \ {Max(d)}], s[Max(d)], b)
    BY <1>7, <1>10, Zenon
  <2>2. F[Max(d)][fold[d \ {Max(d)}]] = Tell(fold[d \ {Max(d)}], s[Max(d)], b)
    BY <1>4, <1>10, Zenon
  <2>3. fold[d] = G(fold)[d]
    BY <1>8
  <2> QED
    BY <2>1, <2>2, <2>3
<1>11. PICK g \in [0..n -> V] : /\ g[0] = base
                                /\ g[n] = fold[1..n]
                                /\ \A k \in 1..n : g[k] = F[k][g[k - 1]]
  <2>1. FoldsTo(n, base, F, V, fold)
    BY <1>9, <1>10 DEF FoldsTo
  <2>2. Traced(n, base, F, V, fold)
    BY <1>2, <2>1, FoldTrace, Zenon
  <2> QED
    BY <2>2, Zenon DEF Traced
<1>12. ASSUME NEW k \in 1..n PROVE g[k] = Tell(g[k - 1], s[k], b)
  <2>1. g[k - 1] \in V
    BY <1>11
  <2>2. F[k][g[k - 1]] = Tell(g[k - 1], s[k], b)
    BY <2>1 DEF F
  <2> QED
    BY <1>11, <2>2
<1>13. g[n] = TellAll(base, s, b)
  BY <1>1, <1>11
<1> QED
  BY <1>11, <1>12, <1>13, Zenon

(* The same for a block that leaves the chain, *)
DisableAll(base, s) == FoldLeft(DisableTransaction, base, s)

DisableAllWithin(V, n, s) ==
    DOMAIN s = 1..n /\ \A v \in V : \A i \in 1..n : DisableTransaction(v, s[i]) \in V

LEMMA DisableAllTrace ==
  ASSUME NEW V, NEW base \in V, NEW n \in Nat, NEW s, DisableAllWithin(V, n, s)
  PROVE  \E g \in [0..n -> V] : /\ g[0] = base
                                /\ g[n] = DisableAll(base, s)
                                /\ \A k \in 1..n : g[k] = DisableTransaction(g[k - 1], s[k])
<1> USE DEF DisableAllWithin
<1> DEFINE F == [i \in 1..n |-> [v \in V |-> DisableTransaction(v, s[i])]]
           G(it) == [d \in SUBSET DOMAIN s |->
                       IF d = {} THEN base ELSE DisableTransaction(it[d \ {Max(d)}], s[Max(d)])]
           fold == CHOOSE it : it = G(it)
<1>1. DisableAll(base, s) = fold[DOMAIN s]
  BY DEF DisableAll, FoldLeft, MapThenFoldSet
<1>2. F \in [1..n -> [V -> V]]
  OBVIOUS
<1>3. \A d \in SUBSET (1..n) : d # {} => Max(d) \in 1..n
  <2>1. \A d \in SUBSET (1..n) : d \in SUBSET (1..(n + 1))
    OBVIOUS
  <2> QED
    BY <2>1, MaxSeg, Zenon
<1>4. \A it : \A d \in SUBSET (1..n) : d # {} /\ it[d \ {Max(d)}] \in V =>
          F[Max(d)][it[d \ {Max(d)}]] = DisableTransaction(it[d \ {Max(d)}], s[Max(d)])
  BY <1>3
<1>5. PICK it \in [SUBSET (1..n) -> V] : Folding(n, base, F, it)
  BY <1>2, FoldExists, Zenon
<1>6. it = G(it)
  <2>1. \A d \in SUBSET (1..n) : it[d \ {Max(d)}] \in V
    BY <1>5, Zenon
  <2> HIDE DEF F
  <2> QED
    BY <1>4, <1>5, <2>1, Zenon DEF Folding
<1>7. \A f : /\ G(f)[{}] = base
             /\ \A d \in SUBSET (1..n) : d # {} =>
                    G(f)[d] = DisableTransaction(f[d \ {Max(d)}], s[Max(d)])
  OBVIOUS
<1> HIDE DEF G
<1>8. fold = G(fold)
  BY <1>6
<1> HIDE DEF fold, F
<1>9. fold[{}] = base
  <2>1. G(fold)[{}] = base
    BY <1>7
  <2> QED
    BY <1>8, <2>1
<1>10. ASSUME NEW d \in SUBSET (1..n), d # {}, fold[d \ {Max(d)}] \in V
       PROVE  fold[d] = F[Max(d)][fold[d \ {Max(d)}]]
  <2>1. G(fold)[d] = DisableTransaction(fold[d \ {Max(d)}], s[Max(d)])
    BY <1>7, <1>10, Zenon
  <2>2. F[Max(d)][fold[d \ {Max(d)}]] = DisableTransaction(fold[d \ {Max(d)}], s[Max(d)])
    BY <1>4, <1>10, Zenon
  <2>3. fold[d] = G(fold)[d]
    BY <1>8
  <2> QED
    BY <2>1, <2>2, <2>3
<1>11. PICK g \in [0..n -> V] : /\ g[0] = base
                                /\ g[n] = fold[1..n]
                                /\ \A k \in 1..n : g[k] = F[k][g[k - 1]]
  <2>1. FoldsTo(n, base, F, V, fold)
    BY <1>9, <1>10, Zenon DEF FoldsTo
  <2>2. Traced(n, base, F, V, fold)
    BY <1>2, <2>1, FoldTrace, Zenon
  <2> QED
    BY <2>2, Zenon DEF Traced
<1>12. ASSUME NEW k \in 1..n PROVE g[k] = DisableTransaction(g[k - 1], s[k])
  <2>1. g[k - 1] \in V
    BY <1>11
  <2>2. F[k][g[k - 1]] = DisableTransaction(g[k - 1], s[k])
    BY <2>1 DEF F
  <2> QED
    BY <1>11, <2>2
<1>13. g[n] = DisableAll(base, s)
  BY <1>1, <1>11, Zenon
<1> QED
  BY <1>11, <1>12, <1>13, Zenon

(* for the blocks that leave it, *)
DisconnectAll(base, s) == FoldLeft(SyncDisconnected, base, s)

DisconnectAllWithin(V, n, s) ==
    DOMAIN s = 1..n /\ \A v \in V : \A i \in 1..n : SyncDisconnected(v, s[i]) \in V

LEMMA DisconnectAllTrace ==
  ASSUME NEW V, NEW base \in V, NEW n \in Nat, NEW s, DisconnectAllWithin(V, n, s)
  PROVE  \E g \in [0..n -> V] : /\ g[0] = base
                                /\ g[n] = DisconnectAll(base, s)
                                /\ \A k \in 1..n : g[k] = SyncDisconnected(g[k - 1], s[k])
<1> USE DEF DisconnectAllWithin
<1> DEFINE F == [i \in 1..n |-> [v \in V |-> SyncDisconnected(v, s[i])]]
           G(it) == [d \in SUBSET DOMAIN s |->
                       IF d = {} THEN base ELSE SyncDisconnected(it[d \ {Max(d)}], s[Max(d)])]
           fold == CHOOSE it : it = G(it)
<1>1. DisconnectAll(base, s) = fold[DOMAIN s]
  BY DEF DisconnectAll, FoldLeft, MapThenFoldSet
<1>2. F \in [1..n -> [V -> V]]
  OBVIOUS
<1>3. \A d \in SUBSET (1..n) : d # {} => Max(d) \in 1..n
  <2>1. \A d \in SUBSET (1..n) : d \in SUBSET (1..(n + 1))
    OBVIOUS
  <2> QED
    BY <2>1, MaxSeg, Zenon
<1>4. \A it : \A d \in SUBSET (1..n) : d # {} /\ it[d \ {Max(d)}] \in V =>
          F[Max(d)][it[d \ {Max(d)}]] = SyncDisconnected(it[d \ {Max(d)}], s[Max(d)])
  BY <1>3
<1>5. PICK it \in [SUBSET (1..n) -> V] : Folding(n, base, F, it)
  BY <1>2, FoldExists, Zenon
<1>6. it = G(it)
  <2>1. \A d \in SUBSET (1..n) : it[d \ {Max(d)}] \in V
    BY <1>5, Zenon
  <2> HIDE DEF F
  <2> QED
    BY <1>4, <1>5, <2>1, Zenon DEF Folding
<1>7. \A f : /\ G(f)[{}] = base
             /\ \A d \in SUBSET (1..n) : d # {} =>
                    G(f)[d] = SyncDisconnected(f[d \ {Max(d)}], s[Max(d)])
  OBVIOUS
<1> HIDE DEF G
<1>8. fold = G(fold)
  BY <1>6
<1> HIDE DEF fold, F
<1>9. fold[{}] = base
  <2>1. G(fold)[{}] = base
    BY <1>7
  <2> QED
    BY <1>8, <2>1
<1>10. ASSUME NEW d \in SUBSET (1..n), d # {}, fold[d \ {Max(d)}] \in V
       PROVE  fold[d] = F[Max(d)][fold[d \ {Max(d)}]]
  <2>1. G(fold)[d] = SyncDisconnected(fold[d \ {Max(d)}], s[Max(d)])
    BY <1>7, <1>10, Zenon
  <2>2. F[Max(d)][fold[d \ {Max(d)}]] = SyncDisconnected(fold[d \ {Max(d)}], s[Max(d)])
    BY <1>4, <1>10, Zenon
  <2>3. fold[d] = G(fold)[d]
    BY <1>8
  <2> QED
    BY <2>1, <2>2, <2>3
<1>11. PICK g \in [0..n -> V] : /\ g[0] = base
                                /\ g[n] = fold[1..n]
                                /\ \A k \in 1..n : g[k] = F[k][g[k - 1]]
  <2>1. FoldsTo(n, base, F, V, fold)
    BY <1>9, <1>10, Zenon DEF FoldsTo
  <2>2. Traced(n, base, F, V, fold)
    BY <1>2, <2>1, FoldTrace, Zenon
  <2> QED
    BY <2>2, Zenon DEF Traced
<1>12. ASSUME NEW k \in 1..n PROVE g[k] = SyncDisconnected(g[k - 1], s[k])
  <2>1. g[k - 1] \in V
    BY <1>11
  <2>2. F[k][g[k - 1]] = SyncDisconnected(g[k - 1], s[k])
    BY <2>1 DEF F
  <2> QED
    BY <1>11, <2>2
<1>13. g[n] = DisconnectAll(base, s)
  BY <1>1, <1>11
<1> QED
  BY <1>11, <1>12, <1>13, Zenon

(* and for the blocks that join it. *)
ConnectAll(base, s) == FoldLeft(SyncConnected, base, s)

ConnectAllWithin(V, n, s) ==
    DOMAIN s = 1..n /\ \A v \in V : \A i \in 1..n : SyncConnected(v, s[i]) \in V

LEMMA ConnectAllTrace ==
  ASSUME NEW V, NEW base \in V, NEW n \in Nat, NEW s, ConnectAllWithin(V, n, s)
  PROVE  \E g \in [0..n -> V] : /\ g[0] = base
                                /\ g[n] = ConnectAll(base, s)
                                /\ \A k \in 1..n : g[k] = SyncConnected(g[k - 1], s[k])
<1> USE DEF ConnectAllWithin
<1> DEFINE F == [i \in 1..n |-> [v \in V |-> SyncConnected(v, s[i])]]
           G(it) == [d \in SUBSET DOMAIN s |->
                       IF d = {} THEN base ELSE SyncConnected(it[d \ {Max(d)}], s[Max(d)])]
           fold == CHOOSE it : it = G(it)
<1>1. ConnectAll(base, s) = fold[DOMAIN s]
  BY DEF ConnectAll, FoldLeft, MapThenFoldSet
<1>2. F \in [1..n -> [V -> V]]
  OBVIOUS
<1>3. \A d \in SUBSET (1..n) : d # {} => Max(d) \in 1..n
  <2>1. \A d \in SUBSET (1..n) : d \in SUBSET (1..(n + 1))
    OBVIOUS
  <2> QED
    BY <2>1, MaxSeg, Zenon
<1>4. \A it : \A d \in SUBSET (1..n) : d # {} /\ it[d \ {Max(d)}] \in V =>
          F[Max(d)][it[d \ {Max(d)}]] = SyncConnected(it[d \ {Max(d)}], s[Max(d)])
  BY <1>3
<1>5. PICK it \in [SUBSET (1..n) -> V] : Folding(n, base, F, it)
  BY <1>2, FoldExists, Zenon
<1>6. it = G(it)
  <2>1. \A d \in SUBSET (1..n) : it[d \ {Max(d)}] \in V
    BY <1>5, Zenon
  <2> HIDE DEF F
  <2> QED
    BY <1>4, <1>5, <2>1, Zenon DEF Folding
<1>7. \A f : /\ G(f)[{}] = base
             /\ \A d \in SUBSET (1..n) : d # {} =>
                    G(f)[d] = SyncConnected(f[d \ {Max(d)}], s[Max(d)])
  OBVIOUS
<1> HIDE DEF G
<1>8. fold = G(fold)
  BY <1>6
<1> HIDE DEF fold, F
<1>9. fold[{}] = base
  <2>1. G(fold)[{}] = base
    BY <1>7
  <2> QED
    BY <1>8, <2>1
<1>10. ASSUME NEW d \in SUBSET (1..n), d # {}, fold[d \ {Max(d)}] \in V
       PROVE  fold[d] = F[Max(d)][fold[d \ {Max(d)}]]
  <2>1. G(fold)[d] = SyncConnected(fold[d \ {Max(d)}], s[Max(d)])
    BY <1>7, <1>10, Zenon
  <2>2. F[Max(d)][fold[d \ {Max(d)}]] = SyncConnected(fold[d \ {Max(d)}], s[Max(d)])
    BY <1>4, <1>10, Zenon
  <2>3. fold[d] = G(fold)[d]
    BY <1>8
  <2> QED
    BY <2>1, <2>2, <2>3
<1>11. PICK g \in [0..n -> V] : /\ g[0] = base
                                /\ g[n] = fold[1..n]
                                /\ \A k \in 1..n : g[k] = F[k][g[k - 1]]
  <2>1. FoldsTo(n, base, F, V, fold)
    BY <1>9, <1>10, Zenon DEF FoldsTo
  <2>2. Traced(n, base, F, V, fold)
    BY <1>2, <2>1, FoldTrace, Zenon
  <2> QED
    BY <2>2, Zenon DEF Traced
<1>12. ASSUME NEW k \in 1..n PROVE g[k] = SyncConnected(g[k - 1], s[k])
  <2>1. g[k - 1] \in V
    BY <1>11
  <2>2. F[k][g[k - 1]] = SyncConnected(g[k - 1], s[k])
    BY <2>1 DEF F
  <2> QED
    BY <1>11, <2>2
<1>13. g[n] = ConnectAll(base, s)
  BY <1>1, <1>11
<1> QED
  BY <1>11, <1>12, <1>13, Zenon

-----------------------------------------------------------------------------
(*                     The blocks of a reorganisation                      *)

(* A branch has one block of each height. *)
LEMMA HeightUnique ==
  ASSUME NEW a \in Blocks, NEW x \in Branch[a], NEW y \in Branch[a], nHeight[x] = nHeight[y]
  PROVE  x = y
<1>1. x \in Blocks /\ y \in Blocks
  BY BranchEnds
<1>2. x \in Branch[y] \/ y \in Branch[x]
  BY BranchLinear
<1> QED
  BY <1>1, <1>2, HeightGrows

(* pfork: two branches part at one block. *)
LEMMA ForkAt ==
  ASSUME NEW a \in Blocks, NEW b \in Blocks
  PROVE  \E f \in Blocks : Branch[f] = Branch[a] \cap Branch[b]
<1> DEFINE C == Branch[a] \cap Branch[b]
           H == {nHeight[a] - nHeight[x] : x \in C}
<1>1. Genesis \in C /\ \A x \in C : x \in Blocks /\ x \in Branch[a] /\ x \in Branch[b]
  BY BranchEnds
<1>2. nHeight[a] \in Int /\ \A x \in C : nHeight[x] \in Int /\ nHeight[x] <= nHeight[a]
  BY <1>1, HeightType, HeightGrows
<1>3. H \in SUBSET Nat /\ H # {}
  BY <1>1, <1>2
<1>4. PICK m \in H : \A k \in H : m <= k
  BY <1>3, LeastMember, Zenon
<1>5. PICK f \in C : m = nHeight[a] - nHeight[f]
  BY <1>4
<1>6. \A x \in C : nHeight[x] <= nHeight[f]
  <2> SUFFICES ASSUME NEW x \in C PROVE nHeight[x] <= nHeight[f]
    OBVIOUS
  <2>1. nHeight[a] - nHeight[f] <= nHeight[a] - nHeight[x]
    BY <1>4, <1>5
  <2>2. nHeight[a] \in Int /\ nHeight[f] \in Int /\ nHeight[x] \in Int
    BY <1>2
  <2> QED
    BY <2>1, <2>2
<1>7. Branch[f] \subseteq C
  BY <1>1, BranchTransitive
<1>8. ASSUME NEW x \in C PROVE x \in Branch[f]
  <2>1. x \in Branch[f] \/ f \in Branch[x]
    BY <1>1, BranchLinear
  <2>2. CASE f \in Branch[x]
    <3>1. nHeight[f] <= nHeight[x] /\ (nHeight[f] = nHeight[x] => f = x)
      BY <1>1, <2>2, HeightGrows
    <3>2. nHeight[x] <= nHeight[f] /\ nHeight[x] \in Int /\ nHeight[f] \in Int
      BY <1>2, <1>6
    <3>3. f = x
      BY <3>1, <3>2
    <3> QED
      BY <1>1, <3>3, BranchEnds
  <2> QED
    BY <2>1, <2>2
<1> QED
  BY <1>1, <1>7, <1>8

LEMMA AfterForkCount ==
  ASSUME NEW a \in Blocks, NEW b \in Blocks, NEW f \in Blocks,
         Branch[f] = Branch[a] \cap Branch[b]
  PROVE  AfterFork(a, b) = nHeight[a] - nHeight[f]
<1>1. IsFiniteSet(Branch[a]) /\ IsFiniteSet(Branch[b])
  BY HeightAssumption
<1>2. Cardinality(Branch[a] \ Branch[b]) = Cardinality(Branch[a]) - Cardinality(Branch[f])
  <2>1. Cardinality(Branch[a] \ Branch[b])
          = Cardinality(Branch[a]) - Cardinality(Branch[a] \cap Branch[b])
    BY <1>1, FS_Difference, Zenon
  <2> QED
    BY <2>1, Zenon
<1>3. Cardinality(Branch[a]) \in Nat /\ Cardinality(Branch[f]) \in Nat
  BY HeightAssumption, FS_CardinalityType, Zenon
<1>4. nHeight[a] = Cardinality(Branch[a]) - 1 /\ nHeight[f] = Cardinality(Branch[f]) - 1
  BY DEF nHeight
<1> QED
  BY <1>2, <1>3, <1>4 DEF AfterFork

(* The blocks above the fork, by height. *)
LEMMA AboveFork ==
  ASSUME NEW a \in Blocks, NEW b \in Blocks, NEW f \in Blocks,
         Branch[f] = Branch[a] \cap Branch[b], NEW h \in Int, nHeight[f] < h, h <= nHeight[a]
  PROVE  /\ BlockAt(a, h) \in Connected(a)
         /\ BlockAt(a, h) \in Branch[a] \ Branch[b]
         /\ hashPrevBlock[BlockAt(a, h)] = BlockAt(a, h - 1)
<1> DEFINE x == BlockAt(a, h)
           y == BlockAt(a, h - 1)
<1>1. nHeight[f] \in Int /\ nHeight[a] \in Int /\ nHeight[Genesis] = 0 /\ Genesis \in Branch[f]
  BY HeightType, HeightStep, BranchEnds
<1>2. nHeight[f] >= 0
  BY <1>1, HeightGrows
<1>3. h \in 0..nHeight[a] /\ h - 1 \in 0..nHeight[a] /\ h # 0
  BY <1>1, <1>2
<1>4. /\ x \in Branch[a] /\ nHeight[x] = h
      /\ y \in Branch[a] /\ nHeight[y] = h - 1
  BY <1>3, BlockAtHeight
<1> HIDE DEF x, y
<1>5. x \in Blocks /\ x # Genesis
  BY <1>1, <1>3, <1>4, BranchEnds
<1>6. x \notin Branch[f]
  <2> SUFFICES ASSUME x \in Branch[f] PROVE FALSE
    OBVIOUS
  <2>1. nHeight[x] <= nHeight[f]
    BY HeightGrows
  <2> QED
    BY <1>1, <1>4, <2>1
<1>7. hashPrevBlock[x] \in Branch[a] /\ nHeight[x] = nHeight[hashPrevBlock[x]] + 1
  BY <1>4, <1>5, BranchClosed, HeightStep, Zenon DEF ParentClosed
<1>8. nHeight[hashPrevBlock[x]] \in Int
  BY <1>7, BranchEnds, HeightType
<1>9. nHeight[hashPrevBlock[x]] = nHeight[y]
  BY <1>4, <1>7, <1>8
<1>10. hashPrevBlock[x] = y
  BY <1>4, <1>7, <1>9, HeightUnique, Zenon
<1> QED
  BY <1>4, <1>5, <1>6, <1>10 DEF Connected, x, y

(* Blocks from a child of q up, or from the genesis block, each with the   *)
(* one before as its parent.                                               *)
Linked(q, up, n) ==
    /\ DOMAIN up = 1..n
    /\ \A i \in 1..n :
          /\ up[i] \in Blocks
          /\ up[i] # Genesis => hashPrevBlock[up[i]] = IF i = 1 THEN q ELSE up[i - 1]

EndOf(q, up, k) == IF k = 0 THEN q ELSE up[k]

(* vDisconnect and vConnect lie above the fork, and vConnect leads from it *)
(* to the new best block.                                                  *)
LEMMA ForkBlocks ==
  ASSUME NEW a \in Blocks, NEW b \in Blocks, NEW f \in Blocks,
         Branch[f] = Branch[a] \cap Branch[b]
  PROVE  /\ Linked(f, BlocksUp(a, b), AfterFork(a, b))
         /\ EndOf(f, BlocksUp(a, b), AfterFork(a, b)) = a
         /\ \A i \in 1..AfterFork(a, b) : BlocksDown(a, b)[i] \in Branch[a] \ Branch[b]
<1> DEFINE n == AfterFork(a, b)
           up == BlocksUp(a, b)
           down == BlocksDown(a, b)
<1>1. nHeight[a] \in Int /\ nHeight[f] \in Int /\ n \in Nat /\ n = nHeight[a] - nHeight[f]
  BY HeightType, AfterForkCount, AfterForkBound
<1>2. DOMAIN up = 1..n /\ DOMAIN down = 1..n
  BY BlocksAfterFork
<1>3. \A i \in 1..n : /\ up[i] = BlockAt(a, nHeight[a] - n + i)
                      /\ down[i] = BlockAt(a, nHeight[a] + 1 - i)
  BY DEF BlocksUp, BlocksDown
<1> HIDE DEF n, up, down
<1>4. ASSUME NEW i \in 1..n
      PROVE  /\ up[i] = BlockAt(a, nHeight[f] + i)
             /\ nHeight[f] + i \in Int /\ nHeight[f] < nHeight[f] + i
             /\ nHeight[f] + i <= nHeight[a] /\ nHeight[f] + i - 1 = nHeight[f] + (i - 1)
             /\ nHeight[a] + 1 - i \in Int /\ nHeight[f] < nHeight[a] + 1 - i
             /\ nHeight[a] + 1 - i <= nHeight[a]
  <2>1. nHeight[a] - n + i = nHeight[f] + i
    BY <1>1
  <2> QED
    BY <1>1, <1>3, <2>1
<1>5. f \in Branch[a] /\ BlockAt(a, nHeight[f]) = f
  <2>1. f \in Branch[a]
    BY BranchEnds
  <2>2. nHeight[f] \in 0..nHeight[a]
    <3>1. Genesis \in Branch[f] /\ nHeight[Genesis] = 0
      BY BranchEnds, HeightStep
    <3>2. 0 <= nHeight[f] /\ nHeight[f] <= nHeight[a]
      BY <2>1, <3>1, HeightGrows, Zenon
    <3> QED
      BY <1>1, <3>2
  <2> QED
    BY <2>1, <2>2, BlockAtHeight, HeightUnique, Zenon
<1>6. ASSUME NEW i \in 1..n
      PROVE  /\ up[i] \in Blocks \ {Genesis}
             /\ hashPrevBlock[up[i]] = BlockAt(a, nHeight[f] + (i - 1))
             /\ down[i] \in Branch[a] \ Branch[b]
  <2> DEFINE h == nHeight[f] + i
             k == nHeight[f] + (i - 1)
             j == nHeight[a] + 1 - i
  <2>1. up[i] = BlockAt(a, h)
    BY <1>4, Zenon
  <2>2. down[i] = BlockAt(a, j)
    BY <1>3, Zenon
  <2>3. /\ h \in Int /\ nHeight[f] < h /\ h <= nHeight[a] /\ h - 1 = k
        /\ j \in Int /\ nHeight[f] < j /\ j <= nHeight[a]
    BY <1>1
  <2> HIDE DEF h, j, k
  <2>4. BlockAt(a, h) \in Connected(a) /\ hashPrevBlock[BlockAt(a, h)] = BlockAt(a, h - 1)
    BY <2>3, AboveFork
  <2>5. BlockAt(a, j) \in Branch[a] \ Branch[b]
    BY <2>3, AboveFork, Zenon
  <2>6. up[i] \in Blocks \ {Genesis} /\ hashPrevBlock[up[i]] = BlockAt(a, k)
    BY <2>1, <2>3, <2>4, ConnectedType, Zenon
  <2> QED
    BY <2>2, <2>5, <2>6 DEF k
<1>7. ASSUME NEW i \in 1..n
      PROVE  BlockAt(a, nHeight[f] + (i - 1)) = IF i = 1 THEN f ELSE up[i - 1]
  <2>1. CASE i = 1
    <3>1. nHeight[f] + (i - 1) = nHeight[f]
      BY <1>1, <2>1
    <3> QED
      BY <1>5, <2>1, <3>1
  <2>2. CASE i # 1
    <3>1. i - 1 \in 1..n
      BY <1>1, <2>2
    <3> QED
      BY <1>4, <2>2, <3>1
  <2> QED
    BY <2>1, <2>2
<1>8. Linked(f, up, n)
  BY <1>2, <1>6, <1>7 DEF Linked
<1>9. EndOf(f, up, n) = a
  <2>1. CASE n = 0
    <3>1. nHeight[f] = nHeight[a]
      BY <1>1, <2>1
    <3> QED
      BY <1>5, <2>1, <3>1, HeightGrows, Zenon DEF EndOf
  <2>2. CASE n # 0
    <3>1. n \in 1..n /\ nHeight[f] + n = nHeight[a]
      BY <1>1, <2>2
    <3>2. a \in Branch[a] /\ nHeight[a] \in 0..nHeight[a]
      BY <1>1, <3>1, BranchEnds, AfterForkBound DEF n
    <3>3. BlockAt(a, nHeight[a]) = a
      BY <3>2, BlockAtHeight, HeightUnique, Zenon
    <3> QED
      BY <1>4, <2>2, <3>1, <3>3, Zenon DEF EndOf
  <2> QED
    BY <2>1, <2>2
<1> QED
  BY <1>6, <1>8, <1>9 DEF n, up, down

-----------------------------------------------------------------------------
(*                        The wallet learns a chain                        *)

(* ConnectBlock checks that a block spends what comes before; so nothing   *)
(* that comes before spends from it.                                       *)
LEMMA BlockOrder ==
  ASSUME NEW b \in Blocks \ {Genesis}, ValidBranch(b), NEW i \in DOMAIN vtx[b]
  PROVE  LET P == TxsOfBranch(hashPrevBlock[b]) \cup Queued(b, i)
             t == vtx[b][i]
         IN  /\ \A o \in vin[t] : o[1] \in P
             /\ \A u \in P \cup {t} : \A o \in vin[u] : o[1] # t
<1> DEFINE q == hashPrevBlock[b]
           ti == TxIndexOf(q)
           t == vtx[b][i]
<1>1. q \in Blocks /\ ValidBranch(q) /\ ConnectBlockOK(ti, b)
  BY ValidStep, BranchStep
<1>2. DOMAIN ti = TxsOfBranch(q)
  BY IndexDomain, Zenon
<1>3. \A j \in DOMAIN vtx[b] : \A o \in vin[vtx[b][j]] : o[1] \in Queued(b, j) \cup TxsOfBranch(q)
  BY <1>1, <1>2 DEF ConnectBlockOK, FetchInputs
<1>4. DOMAIN vtx[b] = 1..Len(vtx[b]) /\ Len(vtx[b]) \in Nat
  BY TxAssumption
<1>5. \A j \in DOMAIN vtx[b] : j # i => vtx[b][j] # t
  BY CheckedAssumption DEF CheckBlock
<1>6. t \notin TxsOfBranch(q)
  BY <1>1, BlockIsFresh DEF TxsOf
<1>7. ASSUME NEW u \in TxsOfBranch(q), NEW o \in vin[u] PROVE o[1] # t
  BY <1>1, <1>6, InputsOnBranch, Zenon
<1>8. ASSUME NEW j \in DOMAIN vtx[b], j <= i, NEW o \in vin[vtx[b][j]] PROVE o[1] # t
  <2> SUFFICES ASSUME o[1] \in Queued(b, j) PROVE o[1] # t
    BY <1>3, <1>6
  <2>1. PICK k \in 1..(j - 1) : o[1] = vtx[b][k]
    BY DEF Queued
  <2>2. k \in DOMAIN vtx[b] /\ k # i
    BY <1>4, <1>8
  <2> QED
    BY <1>5, <2>1, <2>2, Zenon
<1>9. ASSUME NEW u \in Queued(b, i) \cup {t}, NEW o \in vin[u] PROVE o[1] # t
  <2>1. PICK j \in DOMAIN vtx[b] : j <= i /\ u = vtx[b][j]
    BY <1>4 DEF Queued
  <2> QED
    BY <1>8, <2>1
<1> QED
  BY <1>3, <1>7, <1>9

(* Any transaction of a block, told with the block, keeps Shown and Seen. *)
LEMMA TellKeeping ==
  ASSUME NEW X, <<>> \in X, NEW D, NEW w \in Keeping(X, D), NEW b \in Blocks, NEW t \in TxsOf(b)
  PROVE  Tell(w, t, b) \in Keeping(X, D) /\ Told(w, Tell(w, t, b), t, b)
<1>1. t \in Txs /\ w \in Wallets(X) /\ b \in Blocks \cup {Nil}
  BY TxsType DEF Keeping
<1>2. Tell(w, t, b) \in Wallets(X) /\ Told(w, Tell(w, t, b), t, b)
  BY <1>1, ToldAdd, Zenon DEF Tell
<1> QED
  BY <1>1, <1>2, ToldKeeping, Zenon

(* SyncConnected: the wallets on the way. *)
LEMMA ConnectTrace ==
  ASSUME NEW X, <<>> \in X, NEW D, NEW w \in Keeping(X, D), NEW b \in Blocks
  PROVE  \E g \in [0..Len(vtx[b]) -> Keeping(X, D)] :
            /\ g[0] = w
            /\ g[Len(vtx[b])] = SyncConnected(w, b)
            /\ \A k \in 1..Len(vtx[b]) : g[k] = Tell(g[k - 1], vtx[b][k], b)
<1> DEFINE V == Keeping(X, D)
           n == Len(vtx[b])
           s == vtx[b]
<1>1. DOMAIN s = 1..n /\ n \in Nat
  BY TxAssumption
<1>2. \A i \in 1..n : s[i] \in TxsOf(b)
  BY <1>1 DEF TxsOf
<1>3. \A v \in V : \A i \in 1..n : Tell(v, s[i], b) \in V
  BY <1>2, TellKeeping
<1>4. TellAllWithin(V, n, s, b)
  BY <1>1, <1>3 DEF TellAllWithin
<1>5. SyncConnected(w, b) = TellAll(w, s, b)
  BY DEF SyncConnected, TellAll, Tell, FoldLeft, MapThenFoldSet
<1>6. w \in V
  OBVIOUS
<1> HIDE DEF V, n, s
<1>7. \E g \in [0..n -> V] : /\ g[0] = w
                             /\ g[n] = TellAll(w, s, b)
                             /\ \A k \in 1..n : g[k] = Tell(g[k - 1], s[k], b)
  BY <1>1, <1>4, <1>6, TellAllTrace
<1> QED
  BY <1>5, <1>7 DEF V, n, s

LEMMA ConnectKeeping ==
  ASSUME NEW X, <<>> \in X, NEW D, NEW w \in Keeping(X, D), NEW b \in Blocks
  PROVE  SyncConnected(w, b) \in Keeping(X, D)
<1>1. Len(vtx[b]) \in 0..Len(vtx[b])
  BY TxAssumption
<1> QED
  BY <1>1, ConnectTrace

(* A block of the chain is learnt. *)
LEMMA ConnectKnows ==
  ASSUME NEW X, <<>> \in X, NEW D, NEW w \in Keeping(X, D), NEW B \in Blocks,
         NEW b \in Connected(B), ValidBranch(b), NEW A, NEW S,
         Knows(w, TxsOfBranch(hashPrevBlock[b]), A, S, B)
  PROVE  Knows(SyncConnected(w, b), TxsOfBranch(b), A \ TxsOf(b), S \ TxsOf(b), B)
<1> DEFINE n == Len(vtx[b])
           P == TxsOfBranch(hashPrevBlock[b])
           Q(k) == Queued(b, k + 1)
<1>1. b \in Blocks \ {Genesis} /\ DOMAIN vtx[b] = 1..n /\ n \in Nat
  BY ConnectedType, BlockTxs, Zenon
<1>2. PICK g \in [0..n -> Keeping(X, D)] :
        /\ g[0] = w
        /\ g[n] = SyncConnected(w, b)
        /\ \A k \in 1..n : g[k] = Tell(g[k - 1], vtx[b][k], b)
  BY <1>1, ConnectTrace
<1> DEFINE I == {k \in 0..n : Knows(g[k], P \cup Q(k), A \ Q(k), S \ Q(k), B)}
<1>3. Q(0) = {} /\ Q(n) = TxsOf(b)
  BY <1>1 DEF Queued, TxsOf
<1>4. 0 \in I
  <2>1. P \cup Q(0) = P /\ A \ Q(0) = A /\ S \ Q(0) = S /\ 0 \in 0..n
    BY <1>1, <1>3
  <2> QED
    BY <1>2, <2>1, Zenon
<1>5. ASSUME NEW k \in 1..n, k - 1 \in I PROVE k \in I
  <2> DEFINE t == vtx[b][k]
             v == g[k - 1]
             R == P \cup Q(k - 1)
  <2>1. v \in Keeping(X, D) /\ g[k] = Tell(v, t, b) /\ t \in TxsOf(b)
    <3>1. k - 1 \in 0..n /\ k \in DOMAIN vtx[b]
      BY <1>1
    <3> QED
      BY <1>2, <3>1, Zenon DEF TxsOf
  <2>2. t \in Txs /\ v \in Wallets(X) /\ Told(v, g[k], t, b)
    <3> HIDE DEF t, v
    <3>1. Told(v, Tell(v, t, b), t, b)
      BY <1>1, <2>1, TellKeeping, Zenon
    <3> QED
      BY <1>1, <2>1, <3>1, TxsType, Zenon DEF Keeping
  <2>3. Q(k - 1) = Queued(b, k) /\ Q(k) = Q(k - 1) \cup {t}
    BY DEF Queued
  <2>4. /\ \A o \in vin[t] : o[1] \in R
        /\ \A u \in R \cup {t} : \A o \in vin[u] : o[1] # t
    BY <1>1, <2>3, BlockOrder, Zenon
  <2>5. Knows(v, R, A \ Q(k - 1), S \ Q(k - 1), B)
    <3> HIDE DEF P, Q
    <3> QED
      BY <1>5, Zenon
  <2>6. P \cup Q(k) = R \cup {t} /\ A \ Q(k) = (A \ Q(k - 1)) \ {t} /\ S \ Q(k) = (S \ Q(k - 1)) \ {t}
    BY <2>3
  <2> HIDE DEF t, v, R, Q
  <2>7. Knows(g[k], R \cup {t}, (A \ Q(k - 1)) \ {t}, (S \ Q(k - 1)) \ {t}, B)
    BY <2>2, <2>4, <2>5, NextKnown, Zenon
  <2> HIDE DEF P
  <2>8. Knows(g[k], P \cup Q(k), A \ Q(k), S \ Q(k), B)
    BY <2>6, <2>7, Zenon
  <2>9. k \in 0..n
    OBVIOUS
  <2> QED
    BY <2>8, <2>9, Zenon
<1> HIDE DEF I
<1>6. 0..n \subseteq I
  BY <1>1, <1>4, <1>5, SegInduction, Zenon
<1>7. n \in I
  BY <1>1, <1>6
<1>8. P \cup TxsOf(b) = TxsOfBranch(b)
  BY <1>1, ConnectedStep DEF TxsOfBranch
<1> QED
  BY <1>2, <1>3, <1>7, <1>8, Zenon DEF I

BlockSeq(s, n) == DOMAIN s = 1..n /\ \A i \in 1..n : s[i] \in Blocks

(* The wallets on the way when blocks are connected. *)
StepsOf(V, n, w, up) ==
    \E g \in [0..n -> V] : /\ g[0] = w
                           /\ g[n] = ConnectAll(w, up)
                           /\ \A k \in 1..n : g[k] = SyncConnected(g[k - 1], up[k])

LEMMA ConnectAllTraced ==
  ASSUME NEW X, <<>> \in X, NEW D, NEW w \in Keeping(X, D), NEW n \in Nat, NEW up,
         BlockSeq(up, n)
  PROVE  StepsOf(Keeping(X, D), n, w, up)
<1> DEFINE V == Keeping(X, D)
<1>1. \A v \in V : \A i \in 1..n : SyncConnected(v, up[i]) \in V
  BY ConnectKeeping DEF BlockSeq
<1>2. w \in V
  OBVIOUS
<1> HIDE DEF V
<1>3. ConnectAllWithin(V, n, up)
  BY <1>1 DEF ConnectAllWithin, BlockSeq
<1>4. StepsOf(V, n, w, up)
  BY <1>2, <1>3, ConnectAllTrace DEF StepsOf
<1> QED
  BY <1>4 DEF V

(* Any blocks, told as connected, keep Shown and Seen. *)
LEMMA ConnectAllKeeping ==
  ASSUME NEW X, <<>> \in X, NEW D, NEW w \in Keeping(X, D), NEW n \in Nat, NEW up,
         BlockSeq(up, n)
  PROVE  ConnectAll(w, up) \in Keeping(X, D)
<1>1. n \in 0..n
  OBVIOUS
<1>2. StepsOf(Keeping(X, D), n, w, up)
  BY ConnectAllTraced
<1> QED
  BY <1>1, <1>2 DEF StepsOf

(* The blocks of a chain, told from a block q of it up, are learnt. *)
LEMMA ConnectAllKnows ==
  ASSUME NEW X, <<>> \in X, NEW D, NEW w \in Keeping(X, D), NEW n \in Nat, NEW up,
         NEW q \in Blocks, Linked(q, up, n), NEW B \in Blocks, ValidBranch(B),
         \A i \in 1..n : up[i] \in Branch[B], NEW A, NEW S,
         Knows(w, TxsOfBranch(q), A, S, B)
  PROVE  Knows(ConnectAll(w, up), TxsOfBranch(EndOf(q, up, n)),
               A \ TxsOfBlocks(up), S \ TxsOfBlocks(up), B)
<1> DEFINE T(k) == UNION {TxsOf(up[i]) : i \in 1..k}
           E(k) == EndOf(q, up, k)
<1>1. DOMAIN up = 1..n /\ BlockSeq(up, n)
  BY DEF Linked, BlockSeq
<1>2. PICK g \in [0..n -> Keeping(X, D)] :
        /\ g[0] = w
        /\ g[n] = ConnectAll(w, up)
        /\ \A k \in 1..n : g[k] = SyncConnected(g[k - 1], up[k])
  <2>1. StepsOf(Keeping(X, D), n, w, up)
    BY <1>1, ConnectAllTraced, Zenon
  <2> QED
    BY <2>1, Zenon DEF StepsOf
<1> DEFINE I == {k \in 0..n : Knows(g[k], TxsOfBranch(E(k)), A \ T(k), S \ T(k), B)}
<1>3. 0 \in I
  <2>1. T(0) = {} /\ 0 \in 0..n /\ E(0) = q
    BY DEF EndOf
  <2>2. A \ T(0) = A /\ S \ T(0) = S
    BY <2>1
  <2> HIDE DEF T, E
  <2>3. Knows(g[0], TxsOfBranch(E(0)), A \ T(0), S \ T(0), B)
    BY <1>2, <2>1, <2>2, Zenon
  <2> QED
    BY <2>1, <2>3, Zenon
<1>4. ASSUME NEW k \in 1..n, k - 1 \in I PROVE k \in I
  <2> DEFINE b == up[k]
             v == g[k - 1]
  <2>1. k - 1 \in 0..n /\ k \in 0..n
    OBVIOUS
  <2>2. v \in Keeping(X, D) /\ g[k] = SyncConnected(v, b) /\ b \in Branch[B]
    BY <1>2, <2>1, Zenon
  <2>3. E(k) = b /\ (b # Genesis => hashPrevBlock[b] = E(k - 1))
    BY DEF Linked, EndOf
  <2>4. T(k) = T(k - 1) \cup TxsOf(b)
    <3>1. 1..k = (1..(k - 1)) \cup {k}
      OBVIOUS
    <3> QED
      BY <3>1, Zenon
  <2>5. A \ T(k) = (A \ T(k - 1)) \ TxsOf(b) /\ S \ T(k) = (S \ T(k - 1)) \ TxsOf(b)
    BY <2>4, Zenon
  <2> HIDE DEF T, E, b, v
  <2>6. CASE b = Genesis
    <3>1. TxsOfBranch(E(k)) = {}
      BY <2>3, <2>6, ValidGenesis, Zenon DEF TxsOfBranch
    <3>2. Knows(g[k], TxsOfBranch(E(k)), A \ T(k), S \ T(k), B)
      BY <3>1, Zenon DEF Knows
    <3> QED
      BY <2>1, <3>2, Zenon
  <2>7. CASE b # Genesis
    <3>1. ValidBranch(b) /\ b \in Connected(B)
      BY <2>2, <2>7, ValidAncestor, Zenon DEF Connected
    <3>2. Knows(v, TxsOfBranch(E(k - 1)), A \ T(k - 1), S \ T(k - 1), B)
      BY <1>4 DEF v
    <3>3. Knows(SyncConnected(v, b), TxsOfBranch(b), (A \ T(k - 1)) \ TxsOf(b),
                (S \ T(k - 1)) \ TxsOf(b), B)
      BY <2>2, <2>3, <2>7, <3>1, <3>2, ConnectKnows, Zenon
    <3>4. Knows(g[k], TxsOfBranch(E(k)), A \ T(k), S \ T(k), B)
      BY <2>2, <2>3, <2>5, <3>3, Zenon
    <3> QED
      BY <2>1, <3>4
  <2> QED
    BY <2>6, <2>7, Zenon
<1> HIDE DEF I
<1>5. 0..n \subseteq I
  BY <1>3, <1>4, SegInduction, Zenon
<1>6. n \in I /\ T(n) = TxsOfBlocks(up)
  BY <1>1, <1>5 DEF TxsOfBlocks
<1> QED
  BY <1>2, <1>6, Zenon DEF I

LEMMA KnowsLess ==
  ASSUME NEW w, NEW P, NEW R \in SUBSET P, NEW A, NEW S, NEW B, Knows(w, P, A, S, B)
  PROVE  Knows(w, R, A, S, B)
BY DEF Knows

-----------------------------------------------------------------------------
(*                       The wallet forgets a branch                       *)

(* What DisableTransaction leaves of w for transactions in T: only flags   *)
(* of outputs that T spends are cleared.                                   *)
Unmarking(X, w, T) ==
    {v \in Keeping(X, DOMAIN w) :
        /\ DOMAIN v = DOMAIN w
        /\ \A x \in DOMAIN w :
              /\ v[x].hashBlock = w[x].hashBlock
              /\ \A n \in w[x].vfSpent \ v[x].vfSpent : \E s \in T : <<x, n>> \in vin[s]}

LEMMA DisableUnmarks ==
  ASSUME NEW X, NEW w, NEW T, NEW v \in Unmarking(X, w, T), NEW t \in T
  PROVE  DisableTransaction(v, t) \in Unmarking(X, w, T)
<1> SUFFICES ASSUME DisableTransaction(v, t) = MarkUnspent(v, vin[t] \cap Mine)
             PROVE  MarkUnspent(v, vin[t] \cap Mine) \in Unmarking(X, w, T)
  BY Zenon DEF DisableTransaction
<1> DEFINE m == MarkUnspent(v, vin[t] \cap Mine)
<1>1. /\ v \in Wallets(X) /\ DOMAIN v = DOMAIN w /\ Shown(v) /\ Seen(v)
      /\ \A x \in DOMAIN w :
            /\ v[x].hashBlock = w[x].hashBlock
            /\ \A n \in w[x].vfSpent \ v[x].vfSpent : \E s \in T : <<x, n>> \in vin[s]
  BY Zenon DEF Unmarking, Keeping
<1>2. /\ m \in Wallets(X) /\ DOMAIN m = DOMAIN w
      /\ \A x \in DOMAIN w :
            /\ m[x].hashBlock = v[x].hashBlock
            /\ m[x].vfSpent = v[x].vfSpent \ {n \in 1..nOut[x] : <<x, n>> \in vin[t] \cap Mine}
  BY <1>1, MarkUnspentIs
<1> HIDE DEF m
<1>3. Shown(m)
  BY <1>1, <1>2, Zenon DEF Shown
<1>4. Seen(m)
  BY <1>1, <1>2, Zenon DEF Seen
<1>5. ASSUME NEW x \in DOMAIN w, NEW n \in w[x].vfSpent \ m[x].vfSpent
      PROVE  \E s \in T : <<x, n>> \in vin[s]
  <2>1. CASE n \in v[x].vfSpent
    BY <1>2, <2>1, ZenonT(30)
  <2>2. CASE n \notin v[x].vfSpent
    BY <1>1, <2>2
  <2> QED
    BY <2>1, <2>2, Zenon
<1> QED
  BY <1>1, <1>2, <1>3, <1>4, <1>5, Zenon DEF Unmarking, Keeping, m

LEMMA DisconnectUnmarks ==
  ASSUME NEW X, NEW w, NEW T, NEW v \in Unmarking(X, w, T), NEW b \in Blocks, TxsOf(b) \subseteq T
  PROVE  SyncDisconnected(v, b) \in Unmarking(X, w, T)
<1> DEFINE V == Unmarking(X, w, T)
           n == Len(vtx[b])
           s == vtx[b]
<1>1. DOMAIN s = 1..n /\ n \in Nat /\ n \in 0..n
  BY TxAssumption
<1>2. \A i \in 1..n : s[i] \in T
  BY <1>1 DEF TxsOf
<1>3. \A u \in V : \A i \in 1..n : DisableTransaction(u, s[i]) \in V
  BY <1>2, DisableUnmarks
<1>4. v \in V
  OBVIOUS
<1>5. SyncDisconnected(v, b) = DisableAll(v, s)
  BY DEF SyncDisconnected, DisableAll, FoldLeft, MapThenFoldSet
<1> HIDE DEF V, n, s
<1>6. DisableAllWithin(V, n, s)
  BY <1>1, <1>3 DEF DisableAllWithin
<1>7. DisableAll(v, s) \in V
  BY <1>1, <1>4, <1>6, DisableAllTrace
<1> QED
  BY <1>5, <1>7 DEF V

LEMMA DisconnectAllUnmarks ==
  ASSUME NEW X, NEW w, NEW T, NEW v \in Unmarking(X, w, T), NEW n \in Nat, NEW down,
         DOMAIN down = 1..n, \A i \in 1..n : down[i] \in Blocks /\ TxsOf(down[i]) \subseteq T
  PROVE  DisconnectAll(v, down) \in Unmarking(X, w, T)
<1> DEFINE V == Unmarking(X, w, T)
<1>1. \A u \in V : \A i \in 1..n : SyncDisconnected(u, down[i]) \in V
  BY DisconnectUnmarks
<1>2. v \in V /\ n \in 0..n
  OBVIOUS
<1> HIDE DEF V
<1>3. DisconnectAllWithin(V, n, down)
  BY <1>1 DEF DisconnectAllWithin
<1>4. DisconnectAll(v, down) \in V
  BY <1>2, <1>3, DisconnectAllTrace
<1> QED
  BY <1>4 DEF V

(* No transaction of T spends what one of P spends. *)
Apart(P, T) == \A s \in P : \A u \in T : vin[s] \cap vin[u] = {}

(* What is known of P stays known if T spends nothing that P spends. *)
LEMMA UnmarkingKnows ==
  ASSUME NEW X, NEW w, NEW T, NEW v \in Unmarking(X, w, T), NEW P, NEW A, NEW S, NEW B,
         Knows(w, P, A, S, B), Apart(P, T)
  PROVE  Knows(v, P, A, S, B)
<1>1. /\ DOMAIN v = DOMAIN w
      /\ \A x \in DOMAIN w :
            /\ v[x].hashBlock = w[x].hashBlock
            /\ \A n \in w[x].vfSpent \ v[x].vfSpent : \E s \in T : <<x, n>> \in vin[s]
  BY Zenon DEF Unmarking
<1>2. ASSUME NEW t \in P, Concerns(t)
      PROVE  t \in DOMAIN v /\ (t \notin A => v[t].hashBlock \in Connected(B))
  BY <1>1, <1>2, Zenon DEF Knows
<1>3. ASSUME NEW t \in (P \cap DOMAIN v) \ S, NEW o \in OutputsOf(t) \cap Mine,
             NEW s \in P, o \in vin[s]
      PROVE  o[2] \in v[t].vfSpent
  <2>1. o = <<t, o[2]>>
    BY DEF OutputsOf
  <2>2. t \in DOMAIN w /\ o[2] \in w[t].vfSpent
    BY <1>1, <1>3, Zenon DEF Knows
  <2>3. \A u \in T : o \notin vin[u]
    BY <1>3, Zenon DEF Apart
  <2>4. \A u \in T : <<t, o[2]>> \notin vin[u]
    BY <2>1, <2>3, Zenon
  <2> QED
    BY <1>1, <2>2, <2>4, Zenon
<1> QED
  BY <1>2, <1>3, Zenon DEF Knows

-----------------------------------------------------------------------------
(*                     The wallet and the chain's moves                    *)

(* Any blocks that leave and join a chain keep Shown and Seen. *)
LEMMA SyncKeeping ==
  ASSUME NEW X, <<>> \in X, NEW w, w \in Keeping(X, DOMAIN w), NEW n \in Nat, NEW m \in Nat,
         NEW down, NEW up, BlockSeq(down, n), BlockSeq(up, m)
  PROVE  SyncBlocks(w, down, up) \in Keeping(X, DOMAIN w)
<1> DEFINE v == DisconnectAll(w, down)
<1>1. w \in Unmarking(X, w, Txs)
  BY DEF Unmarking
<1>2. v \in Unmarking(X, w, Txs)
  BY <1>1, DisconnectAllUnmarks, TxsType DEF BlockSeq
<1> HIDE DEF v
<1>3. v \in Keeping(X, DOMAIN w)
  BY <1>2, Zenon DEF Unmarking
<1>4. ConnectAll(v, up) \in Keeping(X, DOMAIN w)
  BY <1>3, ConnectAllKeeping, Zenon
<1>5. SyncBlocks(w, down, up) = ConnectAll(v, up)
  BY DEF SyncBlocks, ConnectAll, DisconnectAll, v, FoldLeft, MapThenFoldSet
<1> QED
  BY <1>4, <1>5

(* What is known up to the fork is known of the other branch, too. *)
LEMMA KnowsFork ==
  ASSUME NEW X, NEW w \in Wallets(X), Seen(w), NEW a \in Blocks, NEW b \in Blocks, NEW f \in Blocks,
         ValidBranch(a), Branch[f] = Branch[a] \cap Branch[b], NEW A, NEW S,
         Knows(w, TxsOfBranch(a), A, S, a)
  PROVE  Knows(w, TxsOfBranch(f), A, S, b)
<1>1. Connected(f) \subseteq Connected(a) /\ Connected(f) \subseteq Connected(b)
  BY Zenon DEF Connected
<1>2. TxsOfBranch(f) \subseteq TxsOfBranch(a)
  BY <1>1, Zenon DEF TxsOfBranch
<1>3. Knows(w, TxsOfBranch(f), A, S, a)
  BY <1>2, KnowsLess, Zenon
<1>4. ASSUME NEW t \in TxsOfBranch(f), Concerns(t), t \notin A
      PROVE  w[t].hashBlock \in Connected(b)
  <2> DEFINE h == w[t].hashBlock
  <2>1. t \in DOMAIN w /\ h \in Connected(a)
    BY <1>3, <1>4 DEF Knows
  <2>2. h # Nil
    BY <2>1, ConnectedType, TreeAssumption, Zenon
  <2>3. t \in TxsOf(h)
    BY <2>1, <2>2 DEF Seen
  <2>4. PICK x \in Connected(f) : t \in TxsOf(x)
    BY DEF TxsOfBranch
  <2>5. x = h
    BY <1>1, <2>1, <2>3, <2>4, PosUnique, Zenon
  <2> QED
    BY <1>1, <2>4, <2>5, Zenon
<1> QED
  BY <1>3, <1>4, Zenon DEF Knows

(* SetBestChain succeeds: the wallet learns the new chain. *)
LEMMA MoveKnows ==
  ASSUME NEW X, <<>> \in X, NEW w, w \in Keeping(X, DOMAIN w), NEW a \in Blocks, NEW b \in Blocks,
         ValidBranch(a), ValidBranch(b), NEW A, NEW S, Knows(w, TxsOfBranch(a), A, S, a)
  PROVE  LET down == BlocksDown(a, b)
             up   == BlocksUp(b, a)
         IN  /\ SyncBlocks(w, down, up) \in Keeping(X, DOMAIN w)
             /\ Knows(SyncBlocks(w, down, up), TxsOfBranch(b),
                      A \ TxsOfBlocks(up), S \ TxsOfBlocks(up), b)
<1> DEFINE down == BlocksDown(a, b)
           up == BlocksUp(b, a)
           n == AfterFork(a, b)
           m == AfterFork(b, a)
           v == DisconnectAll(w, down)
           T == UNION {TxsOf(x) : x \in Branch[a] \ Branch[b]}
<1>1. PICK f \in Blocks : Branch[f] = Branch[a] \cap Branch[b]
  BY ForkAt, Zenon
<1>2. Branch[f] = Branch[b] \cap Branch[a]
  BY <1>1
<1>3. /\ n \in Nat /\ m \in Nat
      /\ DOMAIN down = 1..n /\ \A i \in 1..n : down[i] \in Branch[a] \ Branch[b]
      /\ Linked(f, up, m) /\ EndOf(f, up, m) = b /\ \A i \in 1..m : up[i] \in Branch[b]
  <2>1. \A i \in 1..n : down[i] \in Branch[a] \ Branch[b]
    BY <1>1, ForkBlocks, Zenon
  <2>2. Linked(f, up, m) /\ EndOf(f, up, m) = b
    BY <1>2, ForkBlocks, Zenon
  <2> QED
    BY <2>1, <2>2, BlocksAfterFork, Zenon DEF Connected
<1>4. \A i \in 1..n : down[i] \in Blocks /\ TxsOf(down[i]) \subseteq T
  BY <1>3, BranchEnds
<1>5. ASSUME NEW s \in TxsOfBranch(f), NEW u \in T PROVE vin[s] \cap vin[u] = {}
  <2> SUFFICES ASSUME NEW o \in vin[s] \cap vin[u] PROVE FALSE
    BY Zenon
  <2>1. PICK x \in Connected(f) : s \in TxsOf(x)
    BY DEF TxsOfBranch
  <2>2. PICK y \in Branch[a] \ Branch[b] : u \in TxsOf(y)
    OBVIOUS
  <2>3. x \in Connected(a) /\ y \in Connected(a) /\ x \in Branch[b] /\ x \in Blocks /\ y \in Blocks
    BY <1>1, <2>1, <2>2, BranchEnds DEF Connected
  <2>4. SpenderIn(x, o) # Nil /\ SpenderIn(y, o) # Nil
    BY <2>1, <2>2, <2>3, SpenderFound, ZenonT(30)
  <2>5. x = y
    BY <2>3, <2>4, SpenderUnique
  <2> QED
    BY <2>2, <2>3, <2>5
<1> HIDE DEF down, up, n, m, T
<1>6. w \in Unmarking(X, w, T)
  BY Zenon DEF Unmarking
<1>7. v \in Unmarking(X, w, T)
  BY <1>3, <1>4, <1>6, DisconnectAllUnmarks, Zenon
<1>8. Knows(w, TxsOfBranch(f), A, S, b)
  BY <1>1, KnowsFork, Zenon DEF Keeping
<1> HIDE DEF v
<1>9. Knows(v, TxsOfBranch(f), A, S, b)
  <2>1. Apart(TxsOfBranch(f), T)
    BY <1>5, Zenon DEF Apart
  <2> QED
    BY <1>7, <1>8, <2>1, UnmarkingKnows, Zenon
<1>10. v \in Keeping(X, DOMAIN w)
  BY <1>7 DEF Unmarking
<1>11. /\ ConnectAll(v, up) \in Keeping(X, DOMAIN w)
       /\ Knows(ConnectAll(v, up), TxsOfBranch(b), A \ TxsOfBlocks(up), S \ TxsOfBlocks(up), b)
  <2>1. BlockSeq(up, m)
    BY <1>3, ZenonT(30) DEF Linked, BlockSeq
  <2>2. ConnectAll(v, up) \in Keeping(X, DOMAIN w)
    BY <1>3, <1>10, <2>1, ConnectAllKeeping, Zenon
  <2>3. Knows(ConnectAll(v, up), TxsOfBranch(EndOf(f, up, m)),
              A \ TxsOfBlocks(up), S \ TxsOfBlocks(up), b)
    BY <1>3, <1>9, <1>10, ConnectAllKnows, Zenon
  <2> QED
    BY <1>3, <2>2, <2>3, Zenon
<1>12. SyncBlocks(w, down, up) = ConnectAll(v, up)
  BY DEF SyncBlocks, ConnectAll, DisconnectAll, v, FoldLeft, MapThenFoldSet
<1> QED
  BY <1>11, <1>12 DEF down, up

(* ScanForWalletTransactions is told the blocks as if they were connected. *)
LEMMA ScanIsConnect ==
  ASSUME NEW w, NEW blocks
  PROVE  ScanForWalletTransactions(w, blocks, TRUE) = ConnectAll(w, blocks)
BY DEF ScanForWalletTransactions, ConnectAll, SyncConnected, FoldLeft, MapThenFoldSet

(* The blocks that a restart scans. *)
Scanned(a, from) == IF from = a THEN <<>> ELSE <<from>> \o BlocksUp(a, from)

LEMMA ScannedBlocks ==
  ASSUME NEW a \in Blocks, NEW from \in Branch[a], from # a
  PROVE  LET n == AfterFork(a, from) + 1
             q == IF from = Genesis THEN Genesis ELSE hashPrevBlock[from]
         IN  /\ n \in Nat /\ Linked(q, Scanned(a, from), n) /\ EndOf(q, Scanned(a, from), n) = a
             /\ \A i \in 1..n : Scanned(a, from)[i] \in Branch[a]
<1> DEFINE n == AfterFork(a, from)
           up == BlocksUp(a, from)
           s == Scanned(a, from)
           q == IF from = Genesis THEN Genesis ELSE hashPrevBlock[from]
<1>1. from \in Blocks /\ Branch[from] = Branch[a] \cap Branch[from]
  BY BranchTransitive, Zenon
<1>2. Linked(from, up, n) /\ EndOf(from, up, n) = a
  BY <1>1, ForkBlocks, Zenon
<1>3. n \in Nat /\ DOMAIN up = 1..n /\ \A i \in 1..n : up[i] \in Connected(a)
  BY <1>1, BlocksAfterFork
<1>4. up \in Seq(Blocks) /\ Len(up) = n
  <2>1. up \in [1..n -> Blocks]
    BY <1>3, ConnectedType DEF BlocksUp
  <2> QED
    BY <1>3, <2>1, VectorOf, ZenonT(30)
<1> HIDE DEF n, up
<1>5. s = <<from>> \o up
  BY DEF Scanned, up
<1>6. /\ DOMAIN s = 1..(n + 1) /\ s[1] = from
      /\ \A i \in 1..(n + 1) : i # 1 => /\ s[i] = up[i - 1]
                                      /\ i - 1 \in 1..n /\ i - 1 \in 1..(n + 1)
  <2> HIDE DEF s
  <2> QED
    BY <1>1, <1>3, <1>4, <1>5, PutFirst
<1> HIDE DEF s, q
<1>7. ASSUME NEW i \in 1..(n + 1)
      PROVE  /\ s[i] \in Branch[a] /\ s[i] \in Blocks
             /\ s[i] # Genesis => hashPrevBlock[s[i]] = IF i = 1 THEN q ELSE s[i - 1]
  <2>1. CASE i = 1
    BY <1>1, <1>6, <2>1, Zenon DEF q
  <2>2. CASE i # 1
    <3>1. s[i] = up[i - 1] /\ i - 1 \in 1..n /\ i - 1 \in 1..(n + 1)
      BY <1>6, <2>2, Zenon
    <3>2. /\ up[i - 1] \in Branch[a] /\ up[i - 1] \in Blocks
          /\ up[i - 1] # Genesis =>
                hashPrevBlock[up[i - 1]] = IF i - 1 = 1 THEN from ELSE up[i - 1 - 1]
      BY <1>2, <1>3, <3>1, Zenon DEF Connected, Linked
    <3>3. (IF i - 1 = 1 THEN from ELSE up[i - 1 - 1]) = s[i - 1]
      BY <1>6, <3>1, Zenon
    <3> QED
      BY <2>2, <3>1, <3>2, <3>3, Zenon
  <2> QED
    BY <2>1, <2>2
<1>8. EndOf(q, s, n + 1) = a
  <2>1. EndOf(q, s, n + 1) = s[n + 1]
    BY <1>3 DEF EndOf
  <2>2. CASE n = 0
    <3>1. s[n + 1] = from
      BY <1>6, <2>2
    <3> QED
      BY <1>2, <2>1, <2>2, <3>1, Zenon DEF EndOf
  <2>3. CASE n # 0
    <3>1. \A i \in 1..(n + 1) : i # 1 => s[i] = up[i - 1]
      BY <1>6, Zenon
    <3>2. s[n + 1] = up[n]
      BY <1>3, <2>3, <3>1
    <3> QED
      BY <1>2, <2>1, <2>3, <3>2, Zenon DEF EndOf
  <2> QED
    BY <2>2, <2>3, Zenon
<1>9. n + 1 \in Nat /\ Linked(q, s, n + 1)
  BY <1>3, <1>6, <1>7 DEF Linked
<1> QED
  BY <1>7, <1>8, <1>9 DEF n, s, q

(* The scan learns the part of the chain that it reads. *)
LEMMA ScanKnows ==
  ASSUME NEW X, <<>> \in X, NEW w, w \in Keeping(X, DOMAIN w), NEW a \in Blocks, ValidBranch(a),
         NEW from \in Branch[a], NEW A, NEW S, Knows(w, TxsOfBranch(a), A, S, a)
  PROVE  /\ ConnectAll(w, Scanned(a, from)) \in Keeping(X, DOMAIN w)
         /\ Knows(ConnectAll(w, Scanned(a, from)), TxsOfBranch(a),
                  A \ TxsOfBlocks(Scanned(a, from)), S \ TxsOfBlocks(Scanned(a, from)), a)
<1> DEFINE s == Scanned(a, from)
           V == Keeping(X, DOMAIN w)
<1>1. CASE from = a
  <2>1. s = <<>> /\ DOMAIN s = {}
    BY <1>1, EmptyVector, ZenonT(30) DEF Scanned
  <2> HIDE DEF s
  <2>2. BlockSeq(s, 0) /\ 0 \in Nat /\ TxsOfBlocks(s) = {}
    BY <2>1 DEF BlockSeq, TxsOfBlocks
  <2>3. StepsOf(V, 0, w, s)
    BY <2>2, ConnectAllTraced, Zenon
  <2>4. ConnectAll(w, s) = w
    BY <2>3 DEF StepsOf
  <2>5. A \ TxsOfBlocks(s) = A /\ S \ TxsOfBlocks(s) = S
    BY <2>2
  <2> QED
    BY <2>4, <2>5, Zenon DEF s
<1>2. CASE from # a
  <2> DEFINE n == AfterFork(a, from) + 1
             q == IF from = Genesis THEN Genesis ELSE hashPrevBlock[from]
  <2>1. /\ n \in Nat /\ Linked(q, s, n) /\ EndOf(q, s, n) = a
        /\ \A i \in 1..n : s[i] \in Branch[a]
    BY <1>2, ScannedBlocks, Zenon
  <2>2. q \in Branch[a] /\ q \in Blocks
    BY BranchClosed, BranchEnds, ZenonT(30) DEF ParentClosed
  <2>3. TxsOfBranch(q) \subseteq TxsOfBranch(a)
    BY <2>2, BranchTransitive DEF TxsOfBranch, Connected
  <2> HIDE DEF s, n, q
  <2>4. Knows(w, TxsOfBranch(q), A, S, a)
    BY <2>3, KnowsLess, ZenonT(30)
  <2>5. BlockSeq(s, n)
    BY <2>1 DEF Linked, BlockSeq
  <2>6. ConnectAll(w, s) \in V
    BY <2>1, <2>5, ConnectAllKeeping, Zenon
  <2>7. Knows(ConnectAll(w, s), TxsOfBranch(EndOf(q, s, n)), A \ TxsOfBlocks(s),
              S \ TxsOfBlocks(s), a)
    BY <2>1, <2>2, <2>4, ConnectAllKnows, Zenon
  <2> QED
    BY <2>1, <2>6, <2>7, Zenon DEF s
<1> QED
  BY <1>1, <1>2, Zenon
=============================================================================
