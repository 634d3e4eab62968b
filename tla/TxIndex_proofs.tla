--------------------------- MODULE TxIndex_proofs ---------------------------
(***************************************************************************)
(* Facts about the branches of the block tree, and about the transaction   *)
(* index of a branch: ConnectBlock and DisconnectBlock move the index of a *)
(* valid branch to that of the next block and back.                        *)
(*                                                                         *)
(* Branch[b] is the least parent-closed set with b in it, and each fact    *)
(* about branches follows from a choice of parent-closed set.              *)
(***************************************************************************)
EXTENDS TxIndex, FiniteSetTheorems, TLAPS

-----------------------------------------------------------------------------
(*                             The block tree                              *)

(* A branch is a set of blocks from its last block down to the genesis     *)
(* block (the pprev pointers of CBlockIndex).                              *)
LEMMA BranchEnds ==
  ASSUME NEW b \in Blocks
  PROVE  /\ Branch[b] \subseteq Blocks
         /\ b \in Branch[b]
         /\ Genesis \in Branch[b]
BY TreeAssumption, RootedAssumption, Zenon DEF Branch

(* Every parent-closed set of blocks with b in it holds the branch of b. *)
LEMMA BranchLeast ==
  ASSUME NEW b \in Blocks, NEW S \in SUBSET Blocks, b \in S, ParentClosed(S)
  PROVE  Branch[b] \subseteq S
BY DEF Branch

(* A branch holds the parent of each of its blocks. *)
LEMMA BranchClosed ==
  ASSUME NEW b \in Blocks
  PROVE  ParentClosed(Branch[b])
<1> SUFFICES ASSUME NEW x \in Branch[b] \ {Genesis}
             PROVE  hashPrevBlock[x] \in Branch[b]
  BY DEF ParentClosed
<1>1. x \in Blocks /\ hashPrevBlock[x] \in Blocks
  BY BranchEnds, TreeAssumption
<1>2. ASSUME NEW S \in SUBSET Blocks, b \in S, ParentClosed(S)
      PROVE  hashPrevBlock[x] \in S
  <2>1. x \in S
    BY <1>2, BranchLeast
  <2> QED
    BY <1>2, <2>1 DEF ParentClosed
<1> QED
  BY <1>1, <1>2 DEF Branch

(* The branch of an ancestor is part of the branch. *)
LEMMA BranchTransitive ==
  ASSUME NEW b \in Blocks, NEW a \in Branch[b]
  PROVE  a \in Blocks /\ Branch[a] \subseteq Branch[b]
BY BranchEnds, BranchClosed, BranchLeast

(* A branch is its last block and the branch of the parent. *)
LEMMA BranchStep ==
  ASSUME NEW b \in Blocks \ {Genesis}
  PROVE  /\ hashPrevBlock[b] \in Blocks
         /\ Branch[b] = {b} \cup Branch[hashPrevBlock[b]]
<1> DEFINE q == hashPrevBlock[b]
<1>1. q \in Blocks
  BY TreeAssumption
<1>2. b \in Branch[b] /\ q \in Branch[b]
  BY BranchEnds, BranchClosed DEF ParentClosed
<1>3. Branch[q] \subseteq Branch[b]
  BY <1>2, BranchTransitive
<1>4. ParentClosed({b} \cup Branch[q])
  BY <1>1, BranchClosed, BranchEnds DEF ParentClosed
<1>5. Branch[b] \subseteq {b} \cup Branch[q]
  BY <1>1, <1>4, BranchEnds, BranchLeast
<1> QED
  BY <1>1, <1>2, <1>3, <1>5

(* The branch of the genesis block is the genesis block. *)
LEMMA BranchGenesis == Branch[Genesis] = {Genesis}
<1>1. Genesis \in Blocks /\ ParentClosed({Genesis})
  BY TreeAssumption DEF ParentClosed
<1> QED
  BY <1>1, BranchEnds, BranchLeast

(* Below the end of a branch, each of its blocks has a child on it. *)
LEMMA ChildTowardExists ==
  ASSUME NEW b \in Blocks, NEW a \in Branch[b], a # b
  PROVE  /\ ChildToward(a, b) \in Branch[b] \ {Genesis}
         /\ hashPrevBlock[ChildToward(a, b)] = a
<1>1. a \in Blocks /\ a # Nil
  BY BranchEnds, TreeAssumption
<1>2. \E c \in Branch[b] : Parent(c) = a
  <2> SUFFICES ASSUME \A c \in Branch[b] : Parent(c) # a
               PROVE  FALSE
    OBVIOUS
  <2>1. ParentClosed(Branch[b] \ {a})
    BY BranchClosed DEF ParentClosed, Parent
  <2> QED
    BY <2>1, BranchEnds, BranchLeast
<1> DEFINE c == ChildToward(a, b)
<1>3. c \in Branch[b] /\ Parent(c) = a
  BY <1>2 DEF ChildToward
<1> QED
  BY <1>1, <1>3 DEF Parent

(* Toward a child of a there is no other child of a. *)
LEMMA ChildTowardLast ==
  ASSUME NEW b \in Blocks \ {Genesis}
  PROVE  ChildToward(hashPrevBlock[b], b) = b
<1> DEFINE q == hashPrevBlock[b]
           c == ChildToward(q, b)
<1>1. q \in Branch[b] /\ q # b
  BY BranchStep, BranchEnds, RootedAssumption
<1>2. c \in Branch[b] \ {Genesis} /\ hashPrevBlock[c] = q
  BY <1>1, ChildTowardExists
<1>3. c \notin Branch[q]
  BY <1>2, BranchEnds, RootedAssumption
<1> QED
  BY <1>2, <1>3, BranchStep

(* Of two blocks of a branch, one is an ancestor of the other. *)
LEMMA BranchLinear ==
  ASSUME NEW b \in Blocks, NEW x \in Branch[b], NEW y \in Branch[b]
  PROVE  x \in Branch[y] \/ y \in Branch[x]
<1> DEFINE S == {z \in Branch[b] : x \in Branch[z] \/ z \in Branch[x]}
<1>1. Branch[b] \subseteq Blocks /\ b \in Branch[b] /\ x \in Blocks /\ x \in Branch[x]
  BY BranchEnds
<1>2. S \in SUBSET Blocks /\ b \in S
  BY <1>1
<1>3. ParentClosed(S)
  <2> SUFFICES ASSUME NEW z \in S, z # Genesis
               PROVE  hashPrevBlock[z] \in S
    BY DEF ParentClosed
  <2>1. z \in Blocks \ {Genesis} /\ hashPrevBlock[z] \in Branch[b]
    BY <1>1, BranchClosed DEF ParentClosed
  <2>2. CASE z \in Branch[x]
    BY <1>1, <2>1, <2>2, BranchClosed DEF ParentClosed
  <2>3. CASE x \in Branch[z] /\ z \notin Branch[x]
    BY <1>1, <2>1, <2>3, BranchStep
  <2> QED
    BY <2>2, <2>3
<1> HIDE DEF S
<1>4. Branch[b] \subseteq S
  BY <1>2, <1>3, BranchLeast
<1> QED
  BY <1>4 DEF S

(* Two blocks are not ancestors of each other. *)
LEMMA BranchAntisymmetric ==
  ASSUME NEW y \in Blocks, NEW x \in Branch[y], y \in Branch[x]
  PROVE  x = y
<1> SUFFICES ASSUME x # y PROVE FALSE
  OBVIOUS
<1>1. y # Genesis
  BY BranchGenesis
<1>2. x \in Branch[hashPrevBlock[y]] /\ hashPrevBlock[y] \in Blocks
  BY <1>1, BranchStep
<1>3. y \in Branch[hashPrevBlock[y]]
  BY <1>2, BranchTransitive
<1> QED
  BY <1>1, <1>3, RootedAssumption

(* A block has at most one child on a branch. *)
LEMMA ChildUnique ==
  ASSUME NEW b \in Blocks, NEW c \in Branch[b] \ {Genesis},
         NEW d \in Branch[b] \ {Genesis}, hashPrevBlock[c] = hashPrevBlock[d]
  PROVE  c = d
<1>1. c \in Blocks /\ d \in Blocks
  BY BranchEnds
<1>2. c \in Branch[d] \/ d \in Branch[c]
  BY BranchLinear
<1> QED
  BY <1>1, <1>2, BranchStep, RootedAssumption

(* The height of a block is a number, and grows along a branch. *)
LEMMA HeightType ==
  ASSUME NEW b \in Blocks
  PROVE  nHeight[b] \in Int
<1>1. Cardinality(Branch[b]) \in Nat
  BY HeightAssumption, FS_CardinalityType
<1> QED
  BY <1>1 DEF nHeight

(* Mature compares the heights of two blocks of a branch. *)
LEMMA MatureIs ==
  ASSUME NEW b \in Blocks, NEW p \in Blocks, p \in Branch[b]
  PROVE  /\ Mature(p, b) <=> nHeight[b] - nHeight[p] >= nCoinbaseMaturity
         /\ Mature(p, b) => nHeight[b] + 1 - nHeight[p] >= nCoinbaseMaturity
<1>1. nHeight[b] \in Int /\ nHeight[p] \in Int /\ nCoinbaseMaturity \in Nat
  BY HeightType, TxAssumption
<1> QED
  BY <1>1 DEF Mature

LEMMA HeightGrows ==
  ASSUME NEW b \in Blocks, NEW a \in Branch[b]
  PROVE  /\ nHeight[a] <= nHeight[b]
         /\ nHeight[a] = nHeight[b] => a = b
<1>1. a \in Blocks /\ Branch[a] \in SUBSET Branch[b] /\ b \in Branch[b]
  BY BranchTransitive, BranchEnds
<1>2. IsFiniteSet(Branch[a]) /\ IsFiniteSet(Branch[b])
  BY <1>1, HeightAssumption
<1>3. Cardinality(Branch[a]) \in Nat /\ Cardinality(Branch[b]) \in Nat
  BY <1>2, FS_CardinalityType
<1>4. /\ Cardinality(Branch[a]) <= Cardinality(Branch[b])
      /\ Cardinality(Branch[b]) = Cardinality(Branch[a]) => Branch[b] = Branch[a]
  BY <1>1, <1>2, FS_Subset
<1>5. /\ nHeight[a] = Cardinality(Branch[a]) - 1
      /\ nHeight[b] = Cardinality(Branch[b]) - 1
  BY <1>1 DEF nHeight
<1>6. Branch[b] = Branch[a] => a = b
  BY <1>1, BranchAntisymmetric
<1> QED
  BY <1>3, <1>4, <1>5, <1>6

(* A set of numbers that is not empty has a least member. *)
LEMMA LeastMember ==
  ASSUME NEW S \in SUBSET Nat, S # {}
  PROVE  \E m \in S : \A k \in S : m <= k
<1> DEFINE R == OpToRel(<, Nat)
<1>1. IsWellFoundedOn(R, Nat)
  BY NatLessThanWellFounded, Zenon
<1>2. \E m \in S : \A k \in S : ~ (<<k, m>> \in R)
  <2> HIDE DEF R
  <2> QED
    BY <1>1, WFMin, Zenon
<1>3. ASSUME NEW m \in S, NEW k \in S, ~ (<<k, m>> \in R)
      PROVE  m <= k
  BY <1>3 DEF OpToRel
<1> QED
  BY <1>2, <1>3, Zenon

-----------------------------------------------------------------------------
(*                        The index of a branch                            *)

(* The block of a transaction, and the transaction that spends an output. *)
PosIn(b, t) == CHOOSE x \in Connected(b) : t \in TxsOf(x)

SpendingBlock(b, o) == CHOOSE x \in Connected(b) : SpenderIn(x, o) # Nil

Spender(b, o) ==
    IF \E x \in Connected(b) : SpenderIn(x, o) # Nil
    THEN SpenderIn(SpendingBlock(b, o), o)
    ELSE Nil

LEMMA IndexDomain ==
  ASSUME NEW b
  PROVE  DOMAIN TxIndexOf(b) = TxsOfBranch(b)
BY DEF TxIndexOf

LEMMA IndexForm ==
  ASSUME NEW b
  PROVE  TxIndexOf(b) = [t \in TxsOfBranch(b) |->
                           [pos    |-> PosIn(b, t),
                            vSpent |-> [n \in 1..nOut[t] |-> Spender(b, <<t, n>>)]]]
BY Zenon DEF TxIndexOf, PosIn, Spender, SpendingBlock

LEMMA IndexEntry ==
  ASSUME NEW b, NEW t \in TxsOfBranch(b)
  PROVE  /\ TxIndexOf(b)[t].pos = PosIn(b, t)
         /\ \A n \in 1..nOut[t] : TxIndexOf(b)[t].vSpent[n] = Spender(b, <<t, n>>)
<1> DEFINE V == [n \in 1..nOut[t] |-> Spender(b, <<t, n>>)]
<1>1. TxIndexOf(b)[t] = [pos |-> PosIn(b, t), vSpent |-> V]
  BY IndexForm, Zenon
<1>2. \A n \in 1..nOut[t] : V[n] = Spender(b, <<t, n>>)
  OBVIOUS
<1> HIDE DEF V
<1> QED
  BY <1>1, <1>2

(* The transactions of a block are transactions, and its inputs outpoints. *)
LEMMA TxsType ==
  ASSUME NEW b \in Blocks
  PROVE  /\ TxsOf(b) \subseteq Txs
         /\ \A t \in TxsOf(b) : \A o \in vin[t] : o = <<o[1], o[2]>> /\ o[1] \in Txs
BY TxAssumption DEF TxsOf

(* SpenderIn finds a transaction exactly if there is one. *)
LEMMA SpenderFound ==
  ASSUME NEW b \in Blocks, NEW o
  PROVE  /\ SpenderIn(b, o) # Nil <=> \E s \in TxsOf(b) : o \in vin[s]
         /\ SpenderIn(b, o) # Nil => SpenderIn(b, o) \in TxsOf(b) /\ o \in vin[SpenderIn(b, o)]
BY TxsType, TxAssumption DEF SpenderIn

(* An output is spent on a branch exactly if some block of it spends it. *)
LEMMA SpenderOnBranch ==
  ASSUME NEW b, NEW o
  PROVE  Spender(b, o) # Nil <=> \E x \in Connected(b) : SpenderIn(x, o) # Nil
BY DEF Spender, SpendingBlock

(* The blocks to connect for a block: itself and those for its parent. *)
LEMMA ConnectedStep ==
  ASSUME NEW b \in Blocks \ {Genesis}
  PROVE  /\ hashPrevBlock[b] \in Blocks
         /\ Connected(b) = {b} \cup Connected(hashPrevBlock[b])
         /\ b \notin Connected(hashPrevBlock[b])
         /\ TxsOfBranch(b) = TxsOf(b) \cup TxsOfBranch(hashPrevBlock[b])
<1>1. /\ hashPrevBlock[b] \in Blocks
      /\ Connected(b) = {b} \cup Connected(hashPrevBlock[b])
      /\ b \notin Connected(hashPrevBlock[b])
  BY BranchStep, RootedAssumption DEF Connected
<1> QED
  BY <1>1 DEF TxsOfBranch

LEMMA ConnectedType ==
  ASSUME NEW b \in Blocks
  PROVE  /\ Connected(b) \subseteq Blocks \ {Genesis}
         /\ \A x \in Connected(b) : /\ Connected(x) \subseteq Connected(b)
                                    /\ Connected(hashPrevBlock[x]) \subseteq Connected(b)
                                    /\ TxsOf(x) \subseteq TxsOfBranch(b)
                                    /\ TxsOfBranch(hashPrevBlock[x]) \subseteq TxsOfBranch(b)
         /\ TxsOfBranch(b) \subseteq Txs
<1>1. Connected(b) \subseteq Blocks \ {Genesis}
  BY BranchEnds DEF Connected
<1>2. \A x \in Connected(b) : Connected(x) \subseteq Connected(b)
  BY BranchTransitive DEF Connected
<1>3. \A x \in Connected(b) : Connected(hashPrevBlock[x]) \subseteq Connected(b)
  BY <1>1, <1>2, ConnectedStep
<1> QED
  BY <1>1, <1>2, <1>3, TxsType DEF TxsOfBranch

(* Ancestors of a valid branch are valid, and so is the genesis block. *)
LEMMA ValidAncestor ==
  ASSUME NEW b \in Blocks, ValidBranch(b), NEW a \in Branch[b]
  PROVE  ValidBranch(a)
BY BranchTransitive DEF ValidBranch, Connected

LEMMA ValidGenesis == ValidBranch(Genesis) /\ Connected(Genesis) = {}
BY BranchGenesis DEF ValidBranch, Connected

(* A branch is valid if its parent is and its last block connects. *)
LEMMA ValidStep ==
  ASSUME NEW b \in Blocks \ {Genesis}
  PROVE  ValidBranch(b) <=> /\ ValidBranch(hashPrevBlock[b])
                            /\ ConnectBlockOK(TxIndexOf(hashPrevBlock[b]), b)
BY ConnectedStep DEF ValidBranch

(* What a valid chain spends is on the chain. *)
LEMMA InputsOnBranch ==
  ASSUME NEW b \in Blocks, ValidBranch(b), NEW t \in TxsOfBranch(b), NEW o \in vin[t]
  PROVE  o[1] \in TxsOfBranch(b) /\ o[2] \in 1..nOut[o[1]]
<1>1. PICK x \in Connected(b) : t \in TxsOf(x)
  BY DEF TxsOfBranch
<1>2. x \in Blocks \ {Genesis}
  BY <1>1, ConnectedType
<1>3. PICK i \in DOMAIN vtx[x] : t = vtx[x][i]
  BY <1>1 DEF TxsOf
<1>4. FetchInputs(TxIndexOf(hashPrevBlock[x]), x, i)
  BY <1>1, <1>3 DEF ValidBranch, ConnectBlockOK
<1>5. o[1] \in Queued(x, i) \cup TxsOfBranch(hashPrevBlock[x]) /\ o[2] \in 1..nOut[o[1]]
  BY <1>3, <1>4, IndexDomain DEF FetchInputs
<1>6. Queued(x, i) \subseteq TxsOf(x)
  <2>1. vtx[x] \in Seq(Txs)
    BY <1>2, TxAssumption
  <2> QED
    BY <1>3, <2>1 DEF Queued, TxsOf
<1> QED
  BY <1>1, <1>5, <1>6, ConnectedType

(* An output that a transaction of the chain spends is marked as spent. *)
LEMMA SpentOnBranch ==
  ASSUME NEW b \in Blocks, NEW t \in TxsOfBranch(b), NEW o \in vin[t],
         o[1] \in TxsOfBranch(b), o[2] \in 1..nOut[o[1]]
  PROVE  TxIndexOf(b)[o[1]].vSpent[o[2]] # Nil
<1>1. PICK x \in Connected(b) : t \in TxsOf(x)
  BY DEF TxsOfBranch
<1>2. x \in Blocks
  BY <1>1, ConnectedType
<1>3. o = <<o[1], o[2]>>
  BY <1>1, <1>2, TxsType
<1>4. SpenderIn(x, <<o[1], o[2]>>) # Nil
  BY <1>1, <1>2, <1>3, SpenderFound
<1>5. TxIndexOf(b)[o[1]].vSpent[o[2]] = Spender(b, <<o[1], o[2]>>)
  BY IndexEntry
<1> QED
  BY <1>1, <1>4, <1>5, SpenderOnBranch

(***************************************************************************)
(* A block that connects to a valid chain brings only transactions that    *)
(* are not on the chain.  Take the first that is: it is no coinbase, whose *)
(* height would be wrong, so it has an input; the input is spent on the    *)
(* chain, and not created again earlier in the block.                      *)
(***************************************************************************)
LEMMA BlockIsFresh ==
  ASSUME NEW b \in Blocks \ {Genesis}, ValidBranch(hashPrevBlock[b]),
         ConnectBlockOK(TxIndexOf(hashPrevBlock[b]), b)
  PROVE  TxsOf(b) \cap TxsOfBranch(hashPrevBlock[b]) = {}
<1> DEFINE q == hashPrevBlock[b]
           S == {i \in DOMAIN vtx[b] : vtx[b][i] \in TxsOfBranch(q)}
<1>1. q \in Blocks /\ vtx[b] \in Seq(Txs)
  BY TreeAssumption, TxAssumption
<1> SUFFICES ASSUME S # {} PROVE FALSE
  BY DEF TxsOf
<1>2. S \in SUBSET Nat
  BY <1>1
<1>3. PICK i \in S : \A k \in S : i <= k
  BY <1>2, LeastMember, Zenon
<1> DEFINE t == vtx[b][i]
<1>4. i \in DOMAIN vtx[b] /\ t \in TxsOfBranch(q) /\ t \in TxsOf(b) /\ t \in Txs
  BY <1>1, <1>3 DEF TxsOf
<1>5. t \notin CoinBase
  <2> SUFFICES ASSUME t \in CoinBase PROVE FALSE
    OBVIOUS
  <2>1. PICK x \in Connected(q) : t \in TxsOf(x)
    BY <1>4 DEF TxsOfBranch
  <2>2. x \in Blocks /\ x \in Branch[b] /\ x # b
    BY <1>1, <2>1, ConnectedStep, ConnectedType DEF Connected
  <2>3. nHeight[x] = nHeight[b]
    BY <1>4, <2>1, <2>2, CheckedAssumption DEF SameHeight
  <2> QED
    BY <2>2, <2>3, HeightGrows
<1>6. PICK o : o \in vin[t]
  BY <1>4, <1>5, CheckedAssumption DEF CheckTransaction
<1>7. o[1] \in TxsOfBranch(q) /\ o[2] \in 1..nOut[o[1]]
  BY <1>1, <1>4, <1>6, InputsOnBranch
<1>8. TxIndexOf(q)[o[1]].vSpent[o[2]] # Nil
  BY <1>1, <1>4, <1>6, <1>7, SpentOnBranch
<1>9. o[1] \notin Queued(b, i)
  <2> SUFFICES ASSUME NEW j \in 1..(i - 1), o[1] = vtx[b][j] PROVE FALSE
    BY DEF Queued
  <2>1. j \in DOMAIN vtx[b] /\ j < i
    BY <1>1, <1>4
  <2> QED
    BY <1>2, <1>3, <1>7, <2>1
<1>10. ConnectInputs(TxIndexOf(q), b, i)
  BY <1>4 DEF ConnectBlockOK
<1> QED
  BY <1>6, <1>8, <1>9, <1>10 DEF ConnectInputs

(* It spends only what is unspent on the chain, or its own outputs. *)
LEMMA BlockSpendsUnspent ==
  ASSUME NEW b \in Blocks \ {Genesis}, ValidBranch(hashPrevBlock[b]),
         ConnectBlockOK(TxIndexOf(hashPrevBlock[b]), b), NEW o, SpenderIn(b, o) # Nil
  PROVE  /\ Spender(hashPrevBlock[b], o) = Nil
         /\ o[1] \in TxsOf(b) \cup TxsOfBranch(hashPrevBlock[b])
         /\ o[2] \in 1..nOut[o[1]]
<1> DEFINE q == hashPrevBlock[b]
<1>1. q \in Blocks /\ vtx[b] \in Seq(Txs)
  BY TreeAssumption, TxAssumption
<1>2. PICK i \in DOMAIN vtx[b] : o \in vin[vtx[b][i]]
  BY SpenderFound DEF TxsOf
<1>3. o = <<o[1], o[2]>>
  BY <1>2, TxsType DEF TxsOf
<1>4. Queued(b, i) \subseteq TxsOf(b)
  BY <1>1, <1>2 DEF Queued, TxsOf
<1>5. /\ o[1] \in Queued(b, i) \cup TxsOfBranch(q) /\ o[2] \in 1..nOut[o[1]]
      /\ o[1] \notin Queued(b, i) => TxIndexOf(q)[o[1]].vSpent[o[2]] = Nil
  BY <1>2, IndexDomain DEF ConnectBlockOK, FetchInputs, ConnectInputs
<1>6. CASE o[1] \in Queued(b, i)
  <2>1. o[1] \notin TxsOfBranch(q)
    BY <1>4, <1>6, BlockIsFresh
  <2>2. ASSUME NEW x \in Connected(q), SpenderIn(x, o) # Nil PROVE FALSE
    <3>1. PICK s \in TxsOf(x) : o \in vin[s]
      BY <1>1, <2>2, SpenderFound, ConnectedType
    <3>2. s \in TxsOfBranch(q)
      BY <3>1 DEF TxsOfBranch
    <3> QED
      BY <1>1, <2>1, <3>1, <3>2, InputsOnBranch
  <2> QED
    BY <1>4, <1>5, <2>2, SpenderOnBranch
<1>7. CASE o[1] \notin Queued(b, i)
  <2>1. TxIndexOf(q)[o[1]].vSpent[o[2]] = Spender(q, <<o[1], o[2]>>)
    BY <1>5, <1>7, IndexEntry
  <2> QED
    BY <1>3, <1>4, <1>5, <1>7, <2>1
<1> QED
  BY <1>6, <1>7

(* On a valid chain a transaction is in one block, ... *)
LEMMA PosUnique ==
  ASSUME NEW b \in Blocks, ValidBranch(b), NEW x \in Connected(b), NEW y \in Connected(b),
         NEW t \in TxsOf(x) \cap TxsOf(y)
  PROVE  x = y
<1>1. ASSUME NEW u \in Connected(b), NEW v \in Connected(b), u \in Branch[v], u # v,
             t \in TxsOf(u) \cap TxsOf(v)
      PROVE  FALSE
  <2>1. v \in Blocks \ {Genesis} /\ u \in Connected(hashPrevBlock[v])
    BY <1>1, ConnectedType, ConnectedStep DEF Connected
  <2>2. ValidBranch(v)
    BY <1>1, ValidAncestor DEF Connected
  <2>3. TxsOf(v) \cap TxsOfBranch(hashPrevBlock[v]) = {}
    BY <2>1, <2>2, ValidStep, BlockIsFresh
  <2> QED
    BY <1>1, <2>1, <2>3 DEF TxsOfBranch
<1> QED
  BY <1>1, BranchLinear DEF Connected

(* ... and an output is spent in at most one. *)
LEMMA SpenderUnique ==
  ASSUME NEW b \in Blocks, ValidBranch(b), NEW x \in Connected(b), NEW y \in Connected(b),
         NEW o, SpenderIn(x, o) # Nil, SpenderIn(y, o) # Nil
  PROVE  x = y
<1>1. ASSUME NEW u \in Connected(b), NEW v \in Connected(b), u \in Branch[v], u # v,
             SpenderIn(u, o) # Nil, SpenderIn(v, o) # Nil
      PROVE  FALSE
  <2>1. v \in Blocks \ {Genesis} /\ u \in Connected(hashPrevBlock[v])
    BY <1>1, ConnectedType, ConnectedStep DEF Connected
  <2>2. ValidBranch(v)
    BY <1>1, ValidAncestor DEF Connected
  <2>3. Spender(hashPrevBlock[v], o) = Nil
    BY <1>1, <2>1, <2>2, ValidStep, BlockSpendsUnspent
  <2> QED
    BY <1>1, <2>1, <2>3, SpenderOnBranch
<1> QED
  BY <1>1, BranchLinear DEF Connected

(* How positions and spenders change with one more block. *)
LEMMA PosStep ==
  ASSUME NEW b \in Blocks \ {Genesis}, ValidBranch(b), NEW t
  PROVE  /\ t \in TxsOf(b) => PosIn(b, t) = b
         /\ t \in TxsOfBranch(hashPrevBlock[b]) => PosIn(b, t) = PosIn(hashPrevBlock[b], t)
<1> DEFINE q == hashPrevBlock[b]
<1>1. q \in Blocks /\ Connected(b) = {b} \cup Connected(q)
  BY ConnectedStep
<1>2. ASSUME NEW x \in Connected(b), t \in TxsOf(x)
      PROVE  PosIn(b, t) = x
  <2>1. PosIn(b, t) \in Connected(b) /\ t \in TxsOf(PosIn(b, t))
    BY <1>2 DEF PosIn
  <2> QED
    BY <1>2, <2>1, PosUnique
<1>3. ASSUME t \in TxsOfBranch(q)
      PROVE  PosIn(q, t) \in Connected(q) /\ t \in TxsOf(PosIn(q, t))
  <2>1. \E x \in Connected(q) : t \in TxsOf(x)
    BY <1>3 DEF TxsOfBranch
  <2> QED
    BY <2>1 DEF PosIn
<1> QED
  BY <1>1, <1>2, <1>3

LEMMA SpenderStep ==
  ASSUME NEW b \in Blocks \ {Genesis}, ValidBranch(b), NEW o
  PROVE  Spender(b, o) = IF SpenderIn(b, o) = Nil THEN Spender(hashPrevBlock[b], o)
                                                 ELSE SpenderIn(b, o)
<1> DEFINE q == hashPrevBlock[b]
<1>1. q \in Blocks /\ Connected(b) = {b} \cup Connected(q)
  BY ConnectedStep
<1>2. ASSUME NEW x \in Connected(b), SpenderIn(x, o) # Nil
      PROVE  Spender(b, o) = SpenderIn(x, o)
  <2>1. SpendingBlock(b, o) \in Connected(b) /\ SpenderIn(SpendingBlock(b, o), o) # Nil
    BY <1>2 DEF SpendingBlock
  <2>2. SpendingBlock(b, o) = x
    BY <1>2, <2>1, SpenderUnique
  <2> QED
    BY <1>2, <2>2 DEF Spender
<1>3. CASE SpenderIn(b, o) # Nil
  BY <1>1, <1>2, <1>3
<1>4. CASE SpenderIn(b, o) = Nil /\ Spender(q, o) # Nil
  <2>1. \E x \in Connected(q) : SpenderIn(x, o) # Nil
    BY <1>4, SpenderOnBranch
  <2>2. /\ SpendingBlock(q, o) \in Connected(q)
        /\ SpenderIn(SpendingBlock(q, o), o) # Nil
    BY <2>1 DEF SpendingBlock
  <2>3. Spender(q, o) = SpenderIn(SpendingBlock(q, o), o)
    BY <2>1 DEF Spender
  <2> QED
    BY <1>1, <1>2, <1>4, <2>2, <2>3
<1>5. CASE SpenderIn(b, o) = Nil /\ Spender(q, o) = Nil
  BY <1>1, <1>5, SpenderOnBranch
<1> QED
  BY <1>3, <1>4, <1>5

(* No output of a new transaction is spent on the chain. *)
LEMMA FreshIsUnspent ==
  ASSUME NEW q \in Blocks, ValidBranch(q), NEW t, t \notin TxsOfBranch(q), NEW n
  PROVE  Spender(q, <<t, n>>) = Nil
<1> SUFFICES ASSUME NEW x \in Connected(q), SpenderIn(x, <<t, n>>) # Nil PROVE FALSE
  BY SpenderOnBranch
<1>1. PICK s \in TxsOf(x) : <<t, n>> \in vin[s]
  BY SpenderFound, ConnectedType
<1>2. s \in TxsOfBranch(q)
  BY <1>1 DEF TxsOfBranch
<1> QED
  BY <1>1, <1>2, InputsOnBranch

(***************************************************************************)
(* CBlock::ConnectBlock: when it succeeds on the index of a valid chain,   *)
(* it leaves the index of the chain that is one block longer.              *)
(***************************************************************************)
LEMMA ConnectBlockIndex ==
  ASSUME NEW b \in Blocks \ {Genesis}, ValidBranch(hashPrevBlock[b]),
         ConnectBlockOK(TxIndexOf(hashPrevBlock[b]), b)
  PROVE  ConnectBlock(TxIndexOf(hashPrevBlock[b]), b) = TxIndexOf(b) /\ ValidBranch(b)
<1> DEFINE q == hashPrevBlock[b]
           ti == TxIndexOf(q)
           pos(t) == IF t \in TxsOf(b) THEN b ELSE ti[t].pos
           spent(t, n) == IF SpenderIn(b, <<t, n>>) = Nil /\ t \notin TxsOf(b)
                          THEN ti[t].vSpent[n]
                          ELSE SpenderIn(b, <<t, n>>)
<1>1. q \in Blocks /\ ValidBranch(b) /\ TxsOfBranch(b) = TxsOfBranch(q) \cup TxsOf(b)
  BY ValidStep, ConnectedStep
<1>2. ASSUME NEW t \in TxsOfBranch(b)
      PROVE  pos(t) = PosIn(b, t)
  BY <1>1, PosStep, IndexEntry
<1>3. ASSUME NEW t \in TxsOfBranch(b), NEW n \in 1..nOut[t]
      PROVE  spent(t, n) = Spender(b, <<t, n>>)
  <2>1. CASE t \in TxsOf(b)
    <3>1. Spender(q, <<t, n>>) = Nil
      BY <1>1, <2>1, BlockIsFresh, FreshIsUnspent
    <3> QED
      BY <1>1, <2>1, <3>1, SpenderStep
  <2>2. CASE t \notin TxsOf(b)
    <3>1. ti[t].vSpent[n] = Spender(q, <<t, n>>)
      BY <1>1, <2>2, IndexEntry
    <3> QED
      BY <1>1, <2>2, <3>1, SpenderStep
  <2> QED
    BY <2>1, <2>2
<1>4. ConnectBlock(ti, b) =
        [t \in TxsOfBranch(b) |-> [pos    |-> pos(t),
                                   vSpent |-> [n \in 1..nOut[t] |-> spent(t, n)]]]
  BY <1>1, IndexDomain DEF ConnectBlock
<1>5. TxIndexOf(b) =
        [t \in TxsOfBranch(b) |-> [pos    |-> PosIn(b, t),
                                   vSpent |-> [n \in 1..nOut[t] |-> Spender(b, <<t, n>>)]]]
  BY IndexForm
<1>6. ASSUME NEW t \in TxsOfBranch(b)
      PROVE  [n \in 1..nOut[t] |-> spent(t, n)] = [n \in 1..nOut[t] |-> Spender(b, <<t, n>>)]
  BY <1>3
<1> HIDE DEF pos, spent, ti
<1> QED
  BY <1>1, <1>2, <1>4, <1>5, <1>6, Zenon DEF ti

(***************************************************************************)
(* CBlock::DisconnectBlock undoes it: on the index of a valid chain it     *)
(* succeeds and leaves the index of the chain without its last block.      *)
(***************************************************************************)
LEMMA DisconnectBlockIndex ==
  ASSUME NEW b \in Blocks \ {Genesis}, ValidBranch(b)
  PROVE  /\ DisconnectBlockOK(TxIndexOf(b), b)
         /\ DisconnectBlock(TxIndexOf(b), b) = TxIndexOf(hashPrevBlock[b])
         /\ ValidBranch(hashPrevBlock[b])
<1> DEFINE q == hashPrevBlock[b]
           ti == TxIndexOf(b)
           spent(t, n) == IF SpenderIn(b, <<t, n>>) = Nil THEN ti[t].vSpent[n] ELSE Nil
<1>1. /\ q \in Blocks /\ ValidBranch(q) /\ ConnectBlockOK(TxIndexOf(q), b)
      /\ TxsOfBranch(b) = TxsOfBranch(q) \cup TxsOf(b)
  BY ValidStep, ConnectedStep
<1>2. TxsOf(b) \cap TxsOfBranch(q) = {}
  BY <1>1, BlockIsFresh
<1>3. DisconnectBlockOK(ti, b)
  BY <1>1, InputsOnBranch, IndexDomain DEF DisconnectBlockOK
<1>4. ASSUME NEW t \in TxsOfBranch(q)
      PROVE  t \in TxsOfBranch(b) /\ ti[t].pos = PosIn(q, t)
  BY <1>1, PosStep, IndexEntry
<1>5. ASSUME NEW t \in TxsOfBranch(q), NEW n \in 1..nOut[t]
      PROVE  spent(t, n) = Spender(q, <<t, n>>)
  <2>1. ti[t].vSpent[n] = Spender(b, <<t, n>>)
    BY <1>4, IndexEntry
  <2>2. SpenderIn(b, <<t, n>>) # Nil => Spender(q, <<t, n>>) = Nil
    BY <1>1, BlockSpendsUnspent
  <2> QED
    BY <2>1, <2>2, SpenderStep
<1>6. DisconnectBlock(ti, b) =
        [t \in TxsOfBranch(q) |-> [pos    |-> ti[t].pos,
                                   vSpent |-> [n \in 1..nOut[t] |-> spent(t, n)]]]
  <2>1. DOMAIN ti \ TxsOf(b) = TxsOfBranch(q)
    BY <1>1, <1>2, IndexDomain
  <2> QED
    BY <2>1 DEF DisconnectBlock
<1>7. TxIndexOf(q) =
        [t \in TxsOfBranch(q) |-> [pos    |-> PosIn(q, t),
                                   vSpent |-> [n \in 1..nOut[t] |-> Spender(q, <<t, n>>)]]]
  BY IndexForm, Zenon
<1>8. ASSUME NEW t \in TxsOfBranch(q)
      PROVE  [n \in 1..nOut[t] |-> spent(t, n)] = [n \in 1..nOut[t] |-> Spender(q, <<t, n>>)]
  BY <1>5
<1> HIDE DEF spent, ti
<1> QED
  BY <1>1, <1>3, <1>4, <1>6, <1>7, <1>8, Zenon DEF ti
=============================================================================
