--------------------------- MODULE OrphanTx_proofs ---------------------------
(***************************************************************************)
(* Proofs about the orphan transactions and the miner beside them, for all *)
(* transactions, blocks and limits.  The two maps of orphans always agree, *)
(* the limit holds, and no orphan is left behind whose inputs have all     *)
(* come with "tx" messages.  The miner takes transactions in the order of  *)
(* their dependencies, and a block that it hands in connects.              *)
(***************************************************************************)
EXTENDS Miner, TxIndex_proofs

-----------------------------------------------------------------------------
(*                           The maps of orphans                           *)

(* The orphans of a set that spend from transaction h. *)
Spending(T, h) == {t \in T : h \in PrevsOf({t})}

(* The orphans found under h are those that spend from it. *)
Agrees(m, T) == \A h \in Txs : ByPrev(m, h) = Spending(T, h)

(* The hashes a transaction spends from. *)
LEMMA PrevsType ==
    ASSUME NEW T \in SUBSET Txs
    PROVE  /\ PrevsOf(T) \subseteq Txs
           /\ \A t \in T : PrevsOf({t}) \subseteq PrevsOf(T)
BY TxAssumption DEF PrevsOf, InputsOf

(* mapOrphanTransactionsByPrev[h] makes at most an empty entry. *)
LEMMA TouchedAgrees ==
    ASSUME NEW m, NEW T \in SUBSET Txs, NEW h \in Txs, Agrees(m, T), DOMAIN m \subseteq Txs
    PROVE  Agrees(Touched(m, h), T) /\ DOMAIN Touched(m, h) \subseteq Txs
BY DEF Agrees, Touched, ByPrev

(* AddOrphanTx *)
LEMMA WithOrphanAgrees ==
    ASSUME NEW m, NEW T \in SUBSET Txs, NEW t \in Txs, Agrees(m, T), DOMAIN m \subseteq Txs
    PROVE  Agrees(WithOrphan(m, t), T \cup {t}) /\ DOMAIN WithOrphan(m, t) \subseteq Txs
<1>1. DOMAIN WithOrphan(m, t) \subseteq Txs
  BY PrevsType DEF WithOrphan
<1>2. ASSUME NEW h \in Txs PROVE ByPrev(WithOrphan(m, t), h) = Spending(T \cup {t}, h)
  <2>1. ByPrev(m, h) = Spending(T, h)  BY DEF Agrees
  <2>2. CASE h \in PrevsOf({t})
    <3>1. Spending(T \cup {t}, h) = Spending(T, h) \cup {t}  BY <2>2 DEF Spending
    <3>2. ByPrev(WithOrphan(m, t), h) = ByPrev(m, h) \cup {t}
      BY <2>2 DEF WithOrphan, ByPrev
    <3> QED  BY <2>1, <3>1, <3>2
  <2>3. CASE h \notin PrevsOf({t})
    <3>1. Spending(T \cup {t}, h) = Spending(T, h)  BY <2>3 DEF Spending
    <3>2. ByPrev(WithOrphan(m, t), h) = ByPrev(m, h)
      BY <2>3 DEF WithOrphan, ByPrev
    <3> QED  BY <2>1, <3>1, <3>2
  <2> QED  BY <2>2, <2>3
<1> QED  BY <1>1, <1>2 DEF Agrees

(* EraseOrphanTx: the entry that goes with the last orphan held no other. *)
LEMMA WithoutOrphansAgrees ==
    ASSUME NEW m, NEW T \in SUBSET Txs, NEW E \in SUBSET T, Agrees(m, T), DOMAIN m \subseteq Txs
    PROVE  Agrees(WithoutOrphans(m, E), T \ E) /\ DOMAIN WithoutOrphans(m, E) \subseteq Txs
<1>1. DOMAIN WithoutOrphans(m, E) \subseteq Txs
  BY DEF WithoutOrphans
<1>2. ASSUME NEW h \in Txs PROVE ByPrev(WithoutOrphans(m, E), h) = Spending(T \ E, h)
  <2>1. ByPrev(m, h) = Spending(T, h)  BY DEF Agrees
  <2>2. Spending(T \ E, h) = ByPrev(m, h) \ E  BY <2>1 DEF Spending
  <2>3. ByPrev(WithoutOrphans(m, E), h) = ByPrev(m, h) \ E
    BY DEF WithoutOrphans, ByPrev
  <2> QED  BY <2>2, <2>3
<1> QED  BY <1>1, <1>2 DEF Agrees

-----------------------------------------------------------------------------
(*                        The inductive invariant                          *)

(* The orphans, their number, and the entries under which they are found. *)
MapsInv ==
    /\ mapOrphanTransactions \subseteq Txs
    /\ IsFiniteSet(mapOrphanTransactions)
    /\ Cardinality(mapOrphanTransactions) <= MaxOrphans
    /\ DOMAIN mapOrphanTransactionsByPrev \subseteq Txs
    /\ Agrees(mapOrphanTransactionsByPrev, mapOrphanTransactions)

(* The handler's locals: what is still to be tried is held. *)
LoopInv ==
    /\ vWorkQueue \in Seq(Txs)
    /\ vEraseQueue \subseteq Txs
    /\ todo \subseteq mapOrphanTransactions
    /\ Idle => todo = {}

OrphanInv == MapsInv /\ LoopInv

LEMMA OrphanInit == Init => OrphanInv
<1> SUFFICES ASSUME Init PROVE OrphanInv
  OBVIOUS
<1>1. Agrees(mapOrphanTransactionsByPrev, mapOrphanTransactions)
  BY DEF Init, Agrees, ByPrev, Spending
<1>2. IsFiniteSet({}) /\ Cardinality({}) = 0  BY FS_EmptySet
<1> QED  BY <1>1, <1>2, OrphanTxAssumption DEF Init, OrphanInv, MapsInv, LoopInv, Idle

(* What is found under a hash is held. *)
LEMMA FoundIsHeld ==
    ASSUME MapsInv, NEW h \in Txs
    PROVE  ByPrev(mapOrphanTransactionsByPrev, h) \subseteq mapOrphanTransactions
BY Zenon DEF MapsInv, Agrees, Spending

(* LimitOrphanTxSize leaves as many orphans as the limit allows. *)
LEMMA EvictedLimit ==
    ASSUME NEW T, IsFiniteSet(T), NEW E \in Evictions(T)
    PROVE  IsFiniteSet(T \ E) /\ Cardinality(T \ E) <= MaxOrphans
<1>1. E \subseteq T  BY DEF Evictions
<1>2. IsFiniteSet(E) /\ IsFiniteSet(T \ E)  BY <1>1, FS_Subset, FS_Difference
<1>3. /\ Cardinality(T) \in Nat /\ Cardinality(E) \in Nat /\ Cardinality(T \ E) \in Nat
  BY <1>2, FS_CardinalityType
<1>4. Cardinality(T \ E) = Cardinality(T) - Cardinality(T \cap E)
  BY FS_Difference, Zenon
<1>5. T \cap E = E  BY <1>1
<1>6. Cardinality(E) = IF Cardinality(T) > MaxOrphans THEN Cardinality(T) - MaxOrphans ELSE 0
  BY DEF Evictions
<1>7. MaxOrphans \in Nat  BY OrphanTxAssumption
<1>8. Cardinality(T \ E) = Cardinality(T) - Cardinality(E)  BY <1>4, <1>5
<1> QED  BY <1>2, <1>3, <1>6, <1>7, <1>8

(* Every step keeps the invariant. *)
LEMMA OrphanStep == OrphanInv /\ [Next]_vars => OrphanInv'
<1> SUFFICES ASSUME OrphanInv, [Next]_vars PROVE OrphanInv'
  OBVIOUS
<1>1. ASSUME NEW t \in Txs, ReceiveTx(t) PROVE OrphanInv'
  <2>1. MapsInv'  BY <1>1, TouchedAgrees DEF ReceiveTx, OrphanInv, MapsInv
  <2>2. LoopInv'
    BY <1>1, FoundIsHeld, TreeAssumption, TxAssumption DEF ReceiveTx, OrphanInv, LoopInv, Idle
  <2> QED  BY <2>1, <2>2 DEF OrphanInv
<1>2. ASSUME NEW t \in Txs, ReceiveOrphanTx(t) PROVE OrphanInv'
  <2> DEFINE T == mapOrphanTransactions \cup {t}
             m == WithOrphan(mapOrphanTransactionsByPrev, t)
  <2>1. PICK E \in Evictions(T) :
           /\ mapOrphanTransactions' = T \ E
           /\ mapOrphanTransactionsByPrev' = WithoutOrphans(m, E)
    BY <1>2 DEF ReceiveOrphanTx
  <2>2. T \in SUBSET Txs /\ IsFiniteSet(T)  BY FS_AddElement DEF OrphanInv, MapsInv
  <2>3. Agrees(m, T) /\ DOMAIN m \subseteq Txs  BY WithOrphanAgrees, Zenon DEF OrphanInv, MapsInv
  <2>4. E \in SUBSET T  BY <2>1 DEF Evictions
  <2> HIDE DEF T, m
  <2>5. Agrees(WithoutOrphans(m, E), T \ E) /\ DOMAIN WithoutOrphans(m, E) \subseteq Txs
    BY <2>2, <2>3, <2>4, WithoutOrphansAgrees, Zenon
  <2>6. MapsInv'  BY <2>1, <2>2, <2>5, EvictedLimit DEF MapsInv
  <2>7. LoopInv'  BY <1>2 DEF ReceiveOrphanTx, queueVars, OrphanInv, LoopInv, Idle
  <2> QED  BY <2>6, <2>7 DEF OrphanInv
<1>3. CASE TryOrphanTx
  <2>1. PICK t \in todo :
          /\ todo' = todo \ {t}
          /\ vWorkQueue' \in {vWorkQueue, Append(vWorkQueue, t)}
          /\ vEraseQueue' \in {vEraseQueue, vEraseQueue \cup {t}}
    BY <1>3 DEF TryOrphanTx
  <2>2. t \in Txs  BY <2>1 DEF OrphanInv, MapsInv, LoopInv
  <2>3. UNCHANGED <<orphanVars, vMsg>>  BY <1>3 DEF TryOrphanTx
  <2> QED  BY <2>1, <2>2, <2>3 DEF OrphanInv, MapsInv, LoopInv, orphanVars, Idle
<1>4. CASE NextTx
  <2>1. vWorkQueue[2] \in Txs /\ Tail(vWorkQueue) \in Seq(Txs)
    BY <1>4 DEF NextTx, OrphanInv, LoopInv
  <2>2. MapsInv'  BY <1>4, <2>1, TouchedAgrees DEF NextTx, OrphanInv, MapsInv
  <2>3. LoopInv'  BY <1>4, <2>1, FoundIsHeld DEF NextTx, OrphanInv, LoopInv, Idle
  <2> QED  BY <2>2, <2>3 DEF OrphanInv
<1>5. CASE TxDone
  <2> DEFINE E == vEraseQueue \cap mapOrphanTransactions
  <2>1. /\ mapOrphanTransactions' = mapOrphanTransactions \ E
        /\ mapOrphanTransactionsByPrev' = WithoutOrphans(mapOrphanTransactionsByPrev, E)
    BY <1>5 DEF TxDone, EraseOrphans
  <2>2. /\ IsFiniteSet(mapOrphanTransactions \ E)
        /\ Cardinality(mapOrphanTransactions \ E) <= Cardinality(mapOrphanTransactions)
    BY FS_Subset DEF OrphanInv, MapsInv
  <2>3. /\ Cardinality(mapOrphanTransactions) \in Nat
        /\ Cardinality(mapOrphanTransactions \ E) \in Nat
    BY <2>2, FS_CardinalityType DEF OrphanInv, MapsInv
  <2>4. MapsInv'
    BY <2>1, <2>2, <2>3, WithoutOrphansAgrees, OrphanTxAssumption DEF OrphanInv, MapsInv
  <2>5. LoopInv'  BY <1>5, <2>1 DEF TxDone, OrphanInv, LoopInv
  <2> QED  BY <2>4, <2>5 DEF OrphanInv
<1>6. ASSUME UNCHANGED <<orphanVars, queueVars>> PROVE OrphanInv'
  BY <1>6 DEF orphanVars, queueVars, OrphanInv, MapsInv, LoopInv, Idle
<1>7. ASSUME NEW t \in Txs, LocalTx(t) PROVE OrphanInv'
  BY <1>6, <1>7 DEF LocalTx
<1>8. ASSUME NEW b \in Blocks, ExtendChain(b) \/ Reorganize(b) PROVE OrphanInv'
  BY <1>6, <1>8 DEF ExtendChain, Reorganize
<1>9. CASE UNCHANGED vars
  BY <1>6, <1>9 DEF vars
<1> QED  BY <1>1, <1>2, <1>3, <1>4, <1>5, <1>7, <1>8, <1>9 DEF Next, Handler

(* The orphans are found under the transactions they spend from, and what  *)
(* is found is held, at every point of every handler.                      *)
THEOREM OrphanTxMapsAlwaysAgree == Spec => []OrphanTxMapsAgree
<1>1. Spec => []OrphanInv  BY OrphanInit, OrphanStep, PTL DEF Spec
<1>2. OrphanInv => OrphanTxMapsAgree
  BY DEF OrphanInv, MapsInv, LoopInv, Agrees, Spending, OrphanTxMapsAgree
<1> QED  BY <1>1, <1>2, PTL

(* There are never more orphans than the limit, whatever is evicted. *)
THEOREM OrphanTxLimitHolds == Spec => []OrphanTxLimit
<1>1. Spec => []OrphanInv  BY OrphanInit, OrphanStep, PTL DEF Spec
<1>2. OrphanInv => OrphanTxLimit  BY DEF OrphanInv, MapsInv, OrphanTxLimit
<1> QED  BY <1>1, <1>2, PTL

-----------------------------------------------------------------------------
(*                                 Folds                                   *)

(***************************************************************************)
(* FoldLeft is the value of a recursive function on the sets of positions  *)
(* of a sequence.  The function exists, and its values on the segments     *)
(* 1..k are those of the loop after k rounds.  The provers take no         *)
(* operator as a parameter, so the last lemma is stated for each loop.     *)
(***************************************************************************)

(* The subsets of 1..n, folded from the greatest member down. *)
Folding(n, base, F, it) ==
    it = [d \in SUBSET (1..n) |-> IF d = {} THEN base ELSE F[Max(d)][it[d \ {Max(d)}]]]

(* The greatest member of a set of numbers up to n + 1. *)
LEMMA MaxSeg ==
  ASSUME NEW n \in Nat, NEW d \in SUBSET (1..(n + 1))
  PROVE  /\ n + 1 \in d => Max(d) = n + 1
         /\ d # {} => Max(d) \in d
         /\ n + 1 \notin d => d \in SUBSET (1..n)
<1>1. n + 1 \in d => \A y \in d : n + 1 >= y
  OBVIOUS
<1>2. \A x \in d : (\A y \in d : x >= y) /\ n + 1 \in d => x = n + 1
  OBVIOUS
<1>3. n + 1 \in d => Max(d) = n + 1
  BY <1>1, <1>2, Zenon DEF Max
<1>4. ASSUME d # {} PROVE \E x \in d : \A y \in d : x >= y
  <2> DEFINE S == {n + 1 - x : x \in d}
  <2>1. S \in SUBSET Nat /\ S # {}
    BY <1>4
  <2>2. PICK m \in S : \A k \in S : m <= k
    BY <2>1, LeastMember, Zenon
  <2>3. PICK x \in d : m = n + 1 - x
    BY <2>2
  <2>4. \A y \in d : n + 1 - x <= n + 1 - y
    BY <2>2, <2>3, Zenon
  <2> QED
    BY <2>4
<1>5. d # {} => Max(d) \in d
  BY <1>4, Zenon DEF Max
<1> QED
  BY <1>3, <1>5

(* The recursion of a fold has a solution. *)
LEMMA FoldExists ==
  ASSUME NEW V, NEW base \in V, NEW n \in Nat, NEW F \in [1..n -> [V -> V]]
  PROVE  \E it \in [SUBSET (1..n) -> V] : Folding(n, base, F, it)
<1> DEFINE P(m) == \E it \in [SUBSET (1..m) -> V] : Folding(m, base, F, it)
           S == {m \in 0..n : ~ P(m)}
<1>1. P(0)
  <2> DEFINE it == [d \in SUBSET (1..0) |-> base]
  <2>1. \A d \in SUBSET (1..0) : d = {}
    OBVIOUS
  <2>2. it \in [SUBSET (1..0) -> V]
    OBVIOUS
  <2>3. it = [d \in SUBSET (1..0) |-> IF d = {} THEN base ELSE F[Max(d)][it[d \ {Max(d)}]]]
    BY <2>1
  <2> QED
    BY <2>2, <2>3 DEF Folding
<1>2. ASSUME NEW m \in 0..n, P(m), m + 1 \in 0..n
      PROVE  P(m + 1)
  <2>1. PICK g \in [SUBSET (1..m) -> V] : Folding(m, base, F, g)
    BY <1>2
  <2> DEFINE h == [d \in SUBSET (1..(m + 1)) |->
                     IF m + 1 \in d THEN F[m + 1][g[d \ {m + 1}]] ELSE g[d]]
  <2>2. \A d \in SUBSET (1..(m + 1)) : d \ {m + 1} \in SUBSET (1..m)
    OBVIOUS
  <2>3. m + 1 \in 1..n
    BY <1>2
  <2>4. h \in [SUBSET (1..(m + 1)) -> V]
    BY <2>1, <2>2, <2>3
  <2>5. ASSUME NEW d \in SUBSET (1..(m + 1)), d # {}
        PROVE  h[d] = F[Max(d)][h[d \ {Max(d)}]]
    <3>1. CASE m + 1 \in d
      <4>1. Max(d) = m + 1
        BY <3>1, MaxSeg
      <4>2. h[d \ {m + 1}] = g[d \ {m + 1}]
        BY <2>2
      <4>3. h[d] = F[m + 1][g[d \ {m + 1}]]
        BY <3>1
      <4> QED
        BY <4>1, <4>2, <4>3
    <3>2. CASE m + 1 \notin d
      <4>1. d \in SUBSET (1..m) /\ Max(d) \in d
        BY <2>5, <3>2, MaxSeg
      <4>2. g[d] = F[Max(d)][g[d \ {Max(d)}]]
        BY <2>1, <2>5, <4>1, Zenon DEF Folding
      <4>3. h[d] = g[d] /\ h[d \ {Max(d)}] = g[d \ {Max(d)}]
        BY <3>2, <4>1, Zenon
      <4> QED
        BY <4>2, <4>3, Zenon
    <3> QED
      BY <3>1, <3>2, Zenon
  <2>6. h[{}] = base
    <3>1. {} \in SUBSET (1..m)
      OBVIOUS
    <3>2. g[{}] = base
      BY <2>1, <3>1 DEF Folding
    <3> QED
      BY <3>2
  <2> HIDE DEF h
  <2>7. h = [d \in SUBSET (1..(m + 1)) |-> IF d = {} THEN base ELSE F[Max(d)][h[d \ {Max(d)}]]]
    BY <2>4, <2>5, <2>6, Zenon
  <2> QED
    BY <2>4, <2>7, Zenon DEF Folding
<1> HIDE DEF P
<1>3. S = {}
  <2> SUFFICES ASSUME S # {} PROVE FALSE
    OBVIOUS
  <2>1. PICK m \in S : \A k \in S : m <= k
    <3>1. S \in SUBSET Nat
      OBVIOUS
    <3> QED
      BY <3>1, LeastMember, Zenon
  <2>2. m # 0 /\ m \in 0..n /\ ~ P(m)
    BY <1>1, <2>1
  <2>3. m - 1 \in 0..n /\ m - 1 \notin S
    BY <2>1, <2>2
  <2>4. P(m - 1) /\ (m - 1) + 1 = m
    BY <2>2, <2>3
  <2> QED
    BY <1>2, <2>2, <2>3, <2>4
<1>4. P(n)
  BY <1>3
<1> QED
  BY <1>4 DEF P

(* The members of a segment of the naturals. *)
LEMMA SegMax ==
  ASSUME NEW n \in Nat, NEW k \in 1..n
  PROVE  /\ 1..k \in SUBSET (1..n) /\ 1..k # {}
         /\ Max(1..k) = k /\ (1..k) \ {k} = 1..(k - 1)
<1>1. \A y \in 1..k : k >= y
  OBVIOUS
<1>2. \A x \in 1..k : (\A y \in 1..k : x >= y) => x = k
  OBVIOUS
<1>3. k \in 1..k
  OBVIOUS
<1>4. Max(1..k) = k
  BY <1>1, <1>2, <1>3, Zenon DEF Max
<1> QED
  BY <1>4

(* What holds at 0 and from k - 1 to k holds up to n. *)
LEMMA SegInduction ==
  ASSUME NEW n \in Nat, NEW S, 0 \in S, \A k \in 1..n : k - 1 \in S => k \in S
  PROVE  0..n \subseteq S
<1> DEFINE T == (0..n) \ S
<1> SUFFICES ASSUME T # {} PROVE FALSE
  OBVIOUS
<1>1. T \in SUBSET Nat
  OBVIOUS
<1>2. PICK m \in T : \A k \in T : m <= k
  BY <1>1, LeastMember, Zenon
<1>3. m \in 1..n /\ m - 1 \in 0..n
  BY <1>2
<1> QED
  BY <1>2, <1>3

(* A solution, as far as its values lie in V. *)
FoldsTo(n, base, F, V, fold) ==
    /\ fold[{}] = base
    /\ \A d \in SUBSET (1..n) : d # {} /\ fold[d \ {Max(d)}] \in V =>
          fold[d] = F[Max(d)][fold[d \ {Max(d)}]]

(* It passes, segment by segment, through the values of the fold. *)
Traced(n, base, F, V, fold) ==
    \E g \in [0..n -> V] : /\ g[0] = base
                           /\ g[n] = fold[1..n]
                           /\ \A k \in 1..n : g[k] = F[k][g[k - 1]]

LEMMA FoldTrace ==
  ASSUME NEW V, NEW base \in V, NEW n \in Nat, NEW F \in [1..n -> [V -> V]],
         NEW fold, FoldsTo(n, base, F, V, fold)
  PROVE  Traced(n, base, F, V, fold)
<1> DEFINE g == [k \in 0..n |-> fold[1..k]]
           S == {k \in 0..n : fold[1..k] \in V}
<1>1. fold[1..0] = base
  <2>1. 1..0 = {}
    OBVIOUS
  <2> QED
    BY <2>1 DEF FoldsTo
<1>2. ASSUME NEW k \in 1..n, fold[1..(k - 1)] \in V
      PROVE  fold[1..k] = F[k][fold[1..(k - 1)]]
  <2> DEFINE d == 1..k
  <2>1. d \in SUBSET (1..n) /\ d # {} /\ Max(d) = k /\ d \ {k} = 1..(k - 1)
    BY SegMax
  <2> HIDE DEF d
  <2>2. fold[d] = F[Max(d)][fold[d \ {Max(d)}]]
    BY <1>2, <2>1, Zenon DEF FoldsTo
  <2> QED
    BY <2>1, <2>2, Zenon DEF d
<1>3. 0 \in S
  BY <1>1
<1>4. ASSUME NEW k \in 1..n, k - 1 \in S
      PROVE  k \in S
  <2>1. fold[1..(k - 1)] \in V
    BY <1>4
  <2>2. fold[1..k] = F[k][fold[1..(k - 1)]]
    BY <1>2, <2>1
  <2>3. F[k][fold[1..(k - 1)]] \in V
    BY <2>1
  <2> QED
    BY <2>2, <2>3
<1> HIDE DEF S
<1>5. 0..n \subseteq S
  BY <1>3, <1>4, SegInduction, Zenon
<1>6. \A k \in 0..n : fold[1..k] \in V
  BY <1>5 DEF S
<1>7. g \in [0..n -> V] /\ g[0] = base /\ g[n] = fold[1..n]
  BY <1>1, <1>6
<1>8. \A k \in 1..n : k - 1 \in 0..n /\ k \in 0..n
  OBVIOUS
<1>9. \A k \in 1..n : g[k] = F[k][g[k - 1]]
  BY <1>2, <1>6, <1>8
<1> HIDE DEF g
<1> QED
  BY <1>7, <1>9 DEF Traced

(* The transactions of a block are resurrected one by one. *)
ResurrectAll(base, s) == FoldLeft(resurrect, base, s)

ResurrectAllWithin(V, n, s) ==
    DOMAIN s = 1..n /\ \A v \in V : \A i \in 1..n : resurrect(v, s[i]) \in V

LEMMA ResurrectKeeps ==
  ASSUME NEW V, NEW base \in V, NEW n \in Nat, NEW s, ResurrectAllWithin(V, n, s)
  PROVE  ResurrectAll(base, s) \in V
<1> USE DEF ResurrectAllWithin
<1> DEFINE F == [i \in 1..n |-> [v \in V |-> resurrect(v, s[i])]]
           G(it) == [d \in SUBSET DOMAIN s |->
                       IF d = {} THEN base ELSE resurrect(it[d \ {Max(d)}], s[Max(d)])]
           fold == CHOOSE it : it = G(it)
<1>1. ResurrectAll(base, s) = fold[DOMAIN s]
  BY DEF ResurrectAll, FoldLeft, MapThenFoldSet
<1>2. F \in [1..n -> [V -> V]]
  OBVIOUS
<1>3. \A d \in SUBSET (1..n) : d # {} => Max(d) \in 1..n
  <2>1. \A d \in SUBSET (1..n) : d \in SUBSET (1..(n + 1))
    OBVIOUS
  <2> QED
    BY <2>1, MaxSeg, Zenon
<1>4. \A it : \A d \in SUBSET (1..n) : d # {} /\ it[d \ {Max(d)}] \in V =>
          F[Max(d)][it[d \ {Max(d)}]] = resurrect(it[d \ {Max(d)}], s[Max(d)])
  BY <1>3
<1>5. PICK it \in [SUBSET (1..n) -> V] : Folding(n, base, F, it)
  BY <1>2, FoldExists, Zenon
<1>6. it = G(it)
  <2>1. \A d \in SUBSET (1..n) : it[d \ {Max(d)}] \in V
    BY <1>5, Zenon
  <2> HIDE DEF F
  <2> QED
    BY <1>4, <1>5, <2>1, Zenon DEF Folding
<1>7. \A f : /\ G(f)[{}] = base
             /\ \A d \in SUBSET (1..n) : d # {} =>
                    G(f)[d] = resurrect(f[d \ {Max(d)}], s[Max(d)])
  OBVIOUS
<1> HIDE DEF G
<1>8. fold = G(fold)
  BY <1>6
<1> HIDE DEF fold, F
<1>9. fold[{}] = base
  <2>1. G(fold)[{}] = base
    BY <1>7
  <2> QED
    BY <1>8, <2>1
<1>10. ASSUME NEW d \in SUBSET (1..n), d # {}, fold[d \ {Max(d)}] \in V
       PROVE  fold[d] = F[Max(d)][fold[d \ {Max(d)}]]
  <2>1. G(fold)[d] = resurrect(fold[d \ {Max(d)}], s[Max(d)])
    BY <1>7, <1>10
  <2>2. F[Max(d)][fold[d \ {Max(d)}]] = resurrect(fold[d \ {Max(d)}], s[Max(d)])
    BY <1>4, <1>10
  <2>3. fold[d] = G(fold)[d]
    BY <1>8
  <2> QED
    BY <2>1, <2>2, <2>3
<1>11. PICK g \in [0..n -> V] : /\ g[0] = base
                                /\ g[n] = fold[1..n]
                                /\ \A k \in 1..n : g[k] = F[k][g[k - 1]]
  <2>1. FoldsTo(n, base, F, V, fold)
    BY <1>9, <1>10 DEF FoldsTo
  <2>2. Traced(n, base, F, V, fold)
    BY <1>2, <2>1, FoldTrace, Zenon
  <2> QED
    BY <2>2, Zenon DEF Traced
<1> QED
  BY <1>1, <1>11

(* The transactions of a block are deleted one by one, with their rivals. *)
DeleteAll(base, s) == FoldLeft(LAMBDA q, t : removeConflicts(removeAll(q, {t}), t), base, s)

DeleteAllWithin(V, n, s) ==
    DOMAIN s = 1..n /\ \A v \in V : \A i \in 1..n : removeConflicts(removeAll(v, {s[i]}), s[i]) \in V

LEMMA DeleteKeeps ==
  ASSUME NEW V, NEW base \in V, NEW n \in Nat, NEW s, DeleteAllWithin(V, n, s)
  PROVE  DeleteAll(base, s) \in V
<1> USE DEF DeleteAllWithin
<1> DEFINE F == [i \in 1..n |-> [v \in V |-> removeConflicts(removeAll(v, {s[i]}), s[i])]]
           G(it) == [d \in SUBSET DOMAIN s |->
                       IF d = {} THEN base ELSE removeConflicts(removeAll(it[d \ {Max(d)}], {s[Max(d)]}), s[Max(d)])]
           fold == CHOOSE it : it = G(it)
<1>1. DeleteAll(base, s) = fold[DOMAIN s]
  BY DEF DeleteAll, FoldLeft, MapThenFoldSet
<1>2. F \in [1..n -> [V -> V]]
  OBVIOUS
<1>3. \A d \in SUBSET (1..n) : d # {} => Max(d) \in 1..n
  <2>1. \A d \in SUBSET (1..n) : d \in SUBSET (1..(n + 1))
    OBVIOUS
  <2> QED
    BY <2>1, MaxSeg, Zenon
<1>4. \A it : \A d \in SUBSET (1..n) : d # {} /\ it[d \ {Max(d)}] \in V =>
          F[Max(d)][it[d \ {Max(d)}]] = removeConflicts(removeAll(it[d \ {Max(d)}], {s[Max(d)]}), s[Max(d)])
  BY <1>3
<1>5. PICK it \in [SUBSET (1..n) -> V] : Folding(n, base, F, it)
  BY <1>2, FoldExists, Zenon
<1>6. it = G(it)
  <2>1. \A d \in SUBSET (1..n) : it[d \ {Max(d)}] \in V
    BY <1>5, Zenon
  <2> HIDE DEF F
  <2> QED
    BY <1>4, <1>5, <2>1, Zenon DEF Folding
<1>7. \A f : /\ G(f)[{}] = base
             /\ \A d \in SUBSET (1..n) : d # {} =>
                    G(f)[d] = removeConflicts(removeAll(f[d \ {Max(d)}], {s[Max(d)]}), s[Max(d)])
  OBVIOUS
<1> HIDE DEF G
<1>8. fold = G(fold)
  BY <1>6
<1> HIDE DEF fold, F
<1>9. fold[{}] = base
  <2>1. G(fold)[{}] = base
    BY <1>7
  <2> QED
    BY <1>8, <2>1
<1>10. ASSUME NEW d \in SUBSET (1..n), d # {}, fold[d \ {Max(d)}] \in V
       PROVE  fold[d] = F[Max(d)][fold[d \ {Max(d)}]]
  <2>1. G(fold)[d] = removeConflicts(removeAll(fold[d \ {Max(d)}], {s[Max(d)]}), s[Max(d)])
    BY <1>7, <1>10, Zenon
  <2>2. F[Max(d)][fold[d \ {Max(d)}]] = removeConflicts(removeAll(fold[d \ {Max(d)}], {s[Max(d)]}), s[Max(d)])
    BY <1>4, <1>10, Zenon
  <2>3. fold[d] = G(fold)[d]
    BY <1>8
  <2> QED
    BY <2>1, <2>2, <2>3
<1>11. PICK g \in [0..n -> V] : /\ g[0] = base
                                /\ g[n] = fold[1..n]
                                /\ \A k \in 1..n : g[k] = F[k][g[k - 1]]
  <2>1. FoldsTo(n, base, F, V, fold)
    BY <1>9, <1>10 DEF FoldsTo
  <2>2. Traced(n, base, F, V, fold)
    BY <1>2, <2>1, FoldTrace, Zenon
  <2> QED
    BY <2>2, Zenon DEF Traced
<1> QED
  BY <1>1, <1>11

(* The same for the disconnected blocks, *)
ResurrectBlocks(base, s) == FoldLeft(Resurrected, base, s)

ResurrectBlocksWithin(V, n, s) ==
    DOMAIN s = 1..n /\ \A v \in V : \A i \in 1..n : Resurrected(v, s[i]) \in V

LEMMA ResurrectBlocksKeep ==
  ASSUME NEW V, NEW base \in V, NEW n \in Nat, NEW s, ResurrectBlocksWithin(V, n, s)
  PROVE  ResurrectBlocks(base, s) \in V
<1> USE DEF ResurrectBlocksWithin
<1> DEFINE F == [i \in 1..n |-> [v \in V |-> Resurrected(v, s[i])]]
           G(it) == [d \in SUBSET DOMAIN s |->
                       IF d = {} THEN base ELSE Resurrected(it[d \ {Max(d)}], s[Max(d)])]
           fold == CHOOSE it : it = G(it)
<1>1. ResurrectBlocks(base, s) = fold[DOMAIN s]
  BY DEF ResurrectBlocks, FoldLeft, MapThenFoldSet
<1>2. F \in [1..n -> [V -> V]]
  OBVIOUS
<1>3. \A d \in SUBSET (1..n) : d # {} => Max(d) \in 1..n
  <2>1. \A d \in SUBSET (1..n) : d \in SUBSET (1..(n + 1))
    OBVIOUS
  <2> QED
    BY <2>1, MaxSeg, Zenon
<1>4. \A it : \A d \in SUBSET (1..n) : d # {} /\ it[d \ {Max(d)}] \in V =>
          F[Max(d)][it[d \ {Max(d)}]] = Resurrected(it[d \ {Max(d)}], s[Max(d)])
  BY <1>3
<1>5. PICK it \in [SUBSET (1..n) -> V] : Folding(n, base, F, it)
  BY <1>2, FoldExists, Zenon
<1>6. it = G(it)
  <2>1. \A d \in SUBSET (1..n) : it[d \ {Max(d)}] \in V
    BY <1>5, Zenon
  <2> HIDE DEF F
  <2> QED
    BY <1>4, <1>5, <2>1, Zenon DEF Folding
<1>7. \A f : /\ G(f)[{}] = base
             /\ \A d \in SUBSET (1..n) : d # {} =>
                    G(f)[d] = Resurrected(f[d \ {Max(d)}], s[Max(d)])
  OBVIOUS
<1> HIDE DEF G
<1>8. fold = G(fold)
  BY <1>6
<1> HIDE DEF fold, F
<1>9. fold[{}] = base
  <2>1. G(fold)[{}] = base
    BY <1>7
  <2> QED
    BY <1>8, <2>1
<1>10. ASSUME NEW d \in SUBSET (1..n), d # {}, fold[d \ {Max(d)}] \in V
       PROVE  fold[d] = F[Max(d)][fold[d \ {Max(d)}]]
  <2>1. G(fold)[d] = Resurrected(fold[d \ {Max(d)}], s[Max(d)])
    BY <1>7, <1>10
  <2>2. F[Max(d)][fold[d \ {Max(d)}]] = Resurrected(fold[d \ {Max(d)}], s[Max(d)])
    BY <1>4, <1>10
  <2>3. fold[d] = G(fold)[d]
    BY <1>8
  <2> QED
    BY <2>1, <2>2, <2>3
<1>11. PICK g \in [0..n -> V] : /\ g[0] = base
                                /\ g[n] = fold[1..n]
                                /\ \A k \in 1..n : g[k] = F[k][g[k - 1]]
  <2>1. FoldsTo(n, base, F, V, fold)
    BY <1>9, <1>10, Zenon DEF FoldsTo
  <2>2. Traced(n, base, F, V, fold)
    BY <1>2, <2>1, FoldTrace, Zenon
  <2> QED
    BY <2>2, Zenon DEF Traced
<1> QED
  BY <1>1, <1>11

(* and the connected ones. *)
DeleteBlocks(base, s) == FoldLeft(Deleted, base, s)

DeleteBlocksWithin(V, n, s) ==
    DOMAIN s = 1..n /\ \A v \in V : \A i \in 1..n : Deleted(v, s[i]) \in V

LEMMA DeleteBlocksKeep ==
  ASSUME NEW V, NEW base \in V, NEW n \in Nat, NEW s, DeleteBlocksWithin(V, n, s)
  PROVE  DeleteBlocks(base, s) \in V
<1> USE DEF DeleteBlocksWithin
<1> DEFINE F == [i \in 1..n |-> [v \in V |-> Deleted(v, s[i])]]
           G(it) == [d \in SUBSET DOMAIN s |->
                       IF d = {} THEN base ELSE Deleted(it[d \ {Max(d)}], s[Max(d)])]
           fold == CHOOSE it : it = G(it)
<1>1. DeleteBlocks(base, s) = fold[DOMAIN s]
  BY DEF DeleteBlocks, FoldLeft, MapThenFoldSet
<1>2. F \in [1..n -> [V -> V]]
  OBVIOUS
<1>3. \A d \in SUBSET (1..n) : d # {} => Max(d) \in 1..n
  <2>1. \A d \in SUBSET (1..n) : d \in SUBSET (1..(n + 1))
    OBVIOUS
  <2> QED
    BY <2>1, MaxSeg, Zenon
<1>4. \A it : \A d \in SUBSET (1..n) : d # {} /\ it[d \ {Max(d)}] \in V =>
          F[Max(d)][it[d \ {Max(d)}]] = Deleted(it[d \ {Max(d)}], s[Max(d)])
  BY <1>3
<1>5. PICK it \in [SUBSET (1..n) -> V] : Folding(n, base, F, it)
  BY <1>2, FoldExists, Zenon
<1>6. it = G(it)
  <2>1. \A d \in SUBSET (1..n) : it[d \ {Max(d)}] \in V
    BY <1>5, Zenon
  <2> HIDE DEF F
  <2> QED
    BY <1>4, <1>5, <2>1, Zenon DEF Folding
<1>7. \A f : /\ G(f)[{}] = base
             /\ \A d \in SUBSET (1..n) : d # {} =>
                    G(f)[d] = Deleted(f[d \ {Max(d)}], s[Max(d)])
  OBVIOUS
<1> HIDE DEF G
<1>8. fold = G(fold)
  BY <1>6
<1> HIDE DEF fold, F
<1>9. fold[{}] = base
  <2>1. G(fold)[{}] = base
    BY <1>7
  <2> QED
    BY <1>8, <2>1
<1>10. ASSUME NEW d \in SUBSET (1..n), d # {}, fold[d \ {Max(d)}] \in V
       PROVE  fold[d] = F[Max(d)][fold[d \ {Max(d)}]]
  <2>1. G(fold)[d] = Deleted(fold[d \ {Max(d)}], s[Max(d)])
    BY <1>7, <1>10
  <2>2. F[Max(d)][fold[d \ {Max(d)}]] = Deleted(fold[d \ {Max(d)}], s[Max(d)])
    BY <1>4, <1>10
  <2>3. fold[d] = G(fold)[d]
    BY <1>8
  <2> QED
    BY <2>1, <2>2, <2>3
<1>11. PICK g \in [0..n -> V] : /\ g[0] = base
                                /\ g[n] = fold[1..n]
                                /\ \A k \in 1..n : g[k] = F[k][g[k - 1]]
  <2>1. FoldsTo(n, base, F, V, fold)
    BY <1>9, <1>10 DEF FoldsTo
  <2>2. Traced(n, base, F, V, fold)
    BY <1>2, <2>1, FoldTrace, Zenon
  <2> QED
    BY <2>2, Zenon DEF Traced
<1> QED
  BY <1>1, <1>11

-----------------------------------------------------------------------------
(*                   The pool after a reorganisation                       *)

(* A pool of transactions of T. *)
PoolOf(T) == [mapTx : SUBSET T, mapNextTx : UNION {[O -> Txs] : O \in SUBSET OutPoints}]

LEMMA NextTxMap ==
  ASSUME NEW m
  PROVE  m \in UNION {[O -> Txs] : O \in SUBSET OutPoints} <=>
           DOMAIN m \in SUBSET OutPoints /\ m \in [DOMAIN m -> Txs]
OBVIOUS

LEMMA EmptyPoolOf == ASSUME NEW T PROVE EmptyPool \in PoolOf(T)
<1>1. DOMAIN <<>> = {} /\ <<>> \in [{} -> Txs]
  OBVIOUS
<1>2. <<>> \in UNION {[O -> Txs] : O \in SUBSET OutPoints}
  BY <1>1, NextTxMap
<1> QED
  BY <1>2 DEF EmptyPool, PoolOf

(* addUnchecked, and accept with fCheckInputs = false *)
LEMMA PoolAdd ==
  ASSUME NEW T \in SUBSET Txs, NEW pool \in PoolOf(T), NEW t \in T
  PROVE  addUnchecked(pool, t) \in PoolOf(T) /\ resurrect(pool, t) \in PoolOf(T)
<1> DEFINE m == [o \in DOMAIN pool.mapNextTx \cup vin[t] |->
                   IF o \in vin[t] THEN t ELSE pool.mapNextTx[o]]
<1>1. /\ DOMAIN pool.mapNextTx \in SUBSET OutPoints
      /\ pool.mapNextTx \in [DOMAIN pool.mapNextTx -> Txs]
  BY NextTxMap DEF PoolOf
<1>2. vin[t] \in SUBSET OutPoints /\ t \in Txs
  BY TxAssumption DEF OutPoints
<1>3. DOMAIN m \in SUBSET OutPoints /\ m \in [DOMAIN m -> Txs]
  BY <1>1, <1>2
<1> HIDE DEF m
<1>4. m \in UNION {[O -> Txs] : O \in SUBSET OutPoints}
  BY <1>3, NextTxMap
<1>5. pool.mapTx \cup {t} \in SUBSET T
  BY DEF PoolOf
<1>6. addUnchecked(pool, t) = [mapTx |-> pool.mapTx \cup {t}, mapNextTx |-> m]
  BY DEF addUnchecked, m
<1>7. addUnchecked(pool, t) \in PoolOf(T)
  BY <1>4, <1>5, <1>6 DEF PoolOf
<1> QED
  BY <1>7 DEF resurrect

(* remove, and removeConflicts *)
LEMMA PoolRemove ==
  ASSUME NEW T \in SUBSET Txs, NEW pool \in PoolOf(T), NEW D
  PROVE  removeAll(pool, D) \in PoolOf(T)
<1> DEFINE m == [o \in DOMAIN pool.mapNextTx \ InputsOf(D \cap pool.mapTx) |-> pool.mapNextTx[o]]
<1>1. /\ DOMAIN pool.mapNextTx \in SUBSET OutPoints
      /\ pool.mapNextTx \in [DOMAIN pool.mapNextTx -> Txs]
  BY NextTxMap DEF PoolOf
<1>2. DOMAIN m \in SUBSET OutPoints /\ m \in [DOMAIN m -> Txs]
  BY <1>1
<1> HIDE DEF m
<1>3. m \in UNION {[O -> Txs] : O \in SUBSET OutPoints}
  BY <1>2, NextTxMap
<1>4. pool.mapTx \ D \in SUBSET T
  BY DEF PoolOf
<1>5. removeAll(pool, D) = [mapTx |-> pool.mapTx \ D, mapNextTx |-> m]
  BY DEF removeAll, m
<1> QED
  BY <1>3, <1>4, <1>5 DEF PoolOf

LEMMA PoolDelete ==
  ASSUME NEW T \in SUBSET Txs, NEW pool \in PoolOf(T), NEW t
  PROVE  removeConflicts(removeAll(pool, {t}), t) \in PoolOf(T)
BY PoolRemove DEF removeConflicts

(* The transactions of a block, by their places. *)
LEMMA BlockTxs ==
  ASSUME NEW b \in Blocks
  PROVE  /\ Len(vtx[b]) \in Nat /\ DOMAIN vtx[b] = 1..Len(vtx[b])
         /\ \A i \in 1..Len(vtx[b]) : vtx[b][i] \in TxsOf(b)
         /\ TxsOf(b) \subseteq Txs
BY TxAssumption DEF TxsOf

(* The loops over vResurrect and vDelete, for one block. *)
LEMMA BlockPool ==
  ASSUME NEW T \in SUBSET Txs, NEW pool \in PoolOf(T), NEW b \in Blocks
  PROVE  /\ TxsOf(b) \subseteq T => Resurrected(pool, b) \in PoolOf(T)
         /\ Deleted(pool, b) \in PoolOf(T)
<1> DEFINE n == Len(vtx[b])
           V == PoolOf(T)
<1>1. n \in Nat /\ DOMAIN vtx[b] = 1..n /\ \A i \in 1..n : vtx[b][i] \in TxsOf(b)
  BY BlockTxs
<1>2. \A v \in V : \A i \in 1..n :
         removeConflicts(removeAll(v, {vtx[b][i]}), vtx[b][i]) \in V
  BY PoolDelete
<1>3. TxsOf(b) \subseteq T => \A v \in V : \A i \in 1..n : resurrect(v, vtx[b][i]) \in V
  BY <1>1, PoolAdd
<1>4. pool \in V
  OBVIOUS
<1> HIDE DEF n, V
<1>5. ASSUME TxsOf(b) \subseteq T PROVE Resurrected(pool, b) \in V
  <2>1. \A v \in V : \A i \in 1..n : resurrect(v, vtx[b][i]) \in V
    BY <1>3, <1>5
  <2>2. ResurrectAllWithin(V, n, vtx[b])
    BY <1>1, <2>1 DEF ResurrectAllWithin
  <2>3. Resurrected(pool, b) = ResurrectAll(pool, vtx[b])
    BY DEF Resurrected, ResurrectAll, FoldLeft, MapThenFoldSet
  <2> QED
    BY <1>1, <1>4, <2>2, <2>3, ResurrectKeeps
<1>6. Deleted(pool, b) \in V
  <2>1. DeleteAllWithin(V, n, vtx[b])
    BY <1>1, <1>2 DEF DeleteAllWithin
  <2>2. Deleted(pool, b) = DeleteAll(pool, vtx[b])
    BY DEF Deleted, DeleteAll, FoldLeft, MapThenFoldSet
  <2> QED
    BY <1>1, <1>4, <2>1, <2>2, DeleteKeeps
<1> QED
  BY <1>5, <1>6 DEF V

(* Heights count the blocks below. *)
LEMMA HeightStep ==
  /\ nHeight[Genesis] = 0
  /\ \A b \in Blocks \ {Genesis} : nHeight[b] = nHeight[hashPrevBlock[b]] + 1
<1>1. nHeight[Genesis] = 0
  <2>1. Cardinality({Genesis}) = 1
    BY FS_Singleton
  <2>2. nHeight[Genesis] = Cardinality({Genesis}) - 1
    BY BranchGenesis, TreeAssumption, Zenon DEF nHeight
  <2> QED
    BY <2>1, <2>2
<1>2. ASSUME NEW b \in Blocks \ {Genesis} PROVE nHeight[b] = nHeight[hashPrevBlock[b]] + 1
  <2> DEFINE q == hashPrevBlock[b]
  <2>1. q \in Blocks /\ Branch[b] = Branch[q] \cup {b} /\ b \notin Branch[q]
    BY BranchStep, RootedAssumption
  <2>2. IsFiniteSet(Branch[q])
    BY <2>1, HeightAssumption
  <2>3. Cardinality(Branch[q]) \in Nat
    BY <2>2, FS_CardinalityType
  <2>4. Cardinality(Branch[q] \cup {b}) = Cardinality(Branch[q]) + 1
    BY <2>1, <2>2, FS_AddElement
  <2>5. nHeight[b] = Cardinality(Branch[b]) - 1 /\ nHeight[q] = Cardinality(Branch[q]) - 1
    BY <2>1 DEF nHeight
  <2> HIDE DEF q
  <2>6. nHeight[b] = nHeight[q] + 1
    BY <2>1, <2>3, <2>4, <2>5
  <2> QED
    BY <2>6 DEF q
<1> QED
  BY <1>1, <1>2

(* A branch has one block at each height. *)
LEMMA BlockAtHeight ==
  ASSUME NEW b \in Blocks, NEW h \in 0..nHeight[b]
  PROVE  BlockAt(b, h) \in Branch[b] /\ nHeight[BlockAt(b, h)] = h
<1> SUFFICES \E x \in Branch[b] : nHeight[x] = h
  BY DEF BlockAt
<1> SUFFICES ASSUME \A x \in Branch[b] : nHeight[x] # h PROVE FALSE
  OBVIOUS
<1> DEFINE S == {x \in Branch[b] : nHeight[x] > h}
<1>1. Branch[b] \subseteq Blocks /\ b \in Branch[b] /\ Genesis \in Branch[b]
  BY BranchEnds
<1>2. \A x \in Branch[b] : nHeight[x] \in Int
  BY <1>1, HeightType
<1>3. b \in S /\ S \in SUBSET Blocks
  BY <1>1, <1>2
<1>4. ParentClosed(S)
  <2> SUFFICES ASSUME NEW x \in S, x # Genesis PROVE hashPrevBlock[x] \in S
    BY DEF ParentClosed
  <2>1. hashPrevBlock[x] \in Branch[b]
    BY BranchClosed DEF ParentClosed
  <2>2. nHeight[x] = nHeight[hashPrevBlock[x]] + 1
    BY <1>1, HeightStep
  <2>3. nHeight[hashPrevBlock[x]] \in Int /\ nHeight[hashPrevBlock[x]] # h
    BY <1>2, <2>1
  <2> QED
    BY <2>1, <2>2, <2>3
<1> HIDE DEF S
<1>5. Genesis \in S
  BY <1>1, <1>3, <1>4, BranchLeast
<1> QED
  BY <1>5, HeightStep DEF S

(* The genesis block is on both branches, so fewer blocks are after the    *)
(* fork than the branch has.                                               *)
LEMMA AfterForkBound ==
  ASSUME NEW a \in Blocks, NEW b \in Blocks
  PROVE  AfterFork(a, b) \in 0..nHeight[a]
<1> DEFINE D == Branch[a] \ Branch[b]
<1>1. D \subseteq Branch[a] \ {Genesis} /\ Genesis \in Branch[a]
  BY BranchEnds
<1>2. IsFiniteSet(Branch[a])
  BY HeightAssumption
<1>3. /\ IsFiniteSet(Branch[a] \ {Genesis})
      /\ Cardinality(Branch[a] \ {Genesis}) = Cardinality(Branch[a]) - 1
  BY <1>1, <1>2, FS_RemoveElement, Zenon
<1>4. IsFiniteSet(D) /\ Cardinality(D) <= Cardinality(Branch[a] \ {Genesis})
  BY <1>1, <1>3, FS_Subset
<1>5. Cardinality(D) \in Nat /\ Cardinality(Branch[a]) \in Nat
  BY <1>2, <1>4, FS_CardinalityType
<1>6. nHeight[a] = Cardinality(Branch[a]) - 1 /\ AfterFork(a, b) = Cardinality(D)
  BY DEF nHeight, AfterFork
<1> HIDE DEF D
<1> QED
  BY <1>3, <1>4, <1>5, <1>6

(* What is disconnected or connected are blocks of the branch. *)
LEMMA BlocksAfterFork ==
  ASSUME NEW a \in Blocks, NEW b \in Blocks
  PROVE  /\ AfterFork(a, b) \in Nat
         /\ DOMAIN BlocksDown(a, b) = 1..AfterFork(a, b)
         /\ DOMAIN BlocksUp(a, b) = 1..AfterFork(a, b)
         /\ \A i \in 1..AfterFork(a, b) : /\ BlocksDown(a, b)[i] \in Connected(a)
                                          /\ BlocksUp(a, b)[i] \in Connected(a)
<1> DEFINE n == AfterFork(a, b)
<1>1. n \in 0..nHeight[a] /\ nHeight[a] \in Int
  BY AfterForkBound, HeightType
<1>2. \A h \in 1..nHeight[a] : BlockAt(a, h) \in Connected(a)
  <2>1. \A h \in 1..nHeight[a] : h \in 0..nHeight[a] /\ h # 0
    BY <1>1
  <2> QED
    BY <2>1, BlockAtHeight, HeightStep DEF Connected
<1>3. ASSUME NEW i \in 1..n
      PROVE  nHeight[a] + 1 - i \in 1..nHeight[a] /\ nHeight[a] - n + i \in 1..nHeight[a]
  BY <1>1
<1>4. /\ BlocksDown(a, b) = [i \in 1..n |-> BlockAt(a, nHeight[a] + 1 - i)]
      /\ BlocksUp(a, b) = [i \in 1..n |-> BlockAt(a, nHeight[a] - n + i)]
  BY DEF BlocksDown, BlocksUp
<1> HIDE DEF n
<1>5. \A i \in 1..n : BlocksDown(a, b)[i] \in Connected(a) /\ BlocksUp(a, b)[i] \in Connected(a)
  BY <1>2, <1>3, <1>4
<1> QED
  BY <1>1, <1>4, <1>5 DEF n

(* Reorganize brings at most the transactions of the blocks it disconnects *)
(* into the pool.                                                          *)
LEMMA ReorganizedPool ==
  ASSUME NEW T \in SUBSET Txs, NEW pool \in PoolOf(T), NEW a \in Blocks, NEW b \in Blocks,
         TxsOfBranch(a) \subseteq T
  PROVE  PoolAfter(pool, a, b) \in PoolOf(T)
<1> DEFINE V == PoolOf(T)
           n == AfterFork(a, b)
           m == AfterFork(b, a)
           down == BlocksDown(a, b)
           up == BlocksUp(b, a)
           base == ResurrectBlocks(pool, down)
<1>1. n \in Nat /\ m \in Nat /\ DOMAIN down = 1..n /\ DOMAIN up = 1..m
  BY BlocksAfterFork
<1>2. \A i \in 1..n : down[i] \in Blocks /\ TxsOf(down[i]) \subseteq T
  BY BlocksAfterFork, ConnectedType
<1>3. \A i \in 1..m : up[i] \in Blocks
  BY BlocksAfterFork, ConnectedType
<1>4. pool \in V
  OBVIOUS
<1> HIDE DEF n, m, down, up
<1>5. \A v \in V : \A i \in 1..n : Resurrected(v, down[i]) \in V
  BY <1>2, BlockPool
<1>6. \A v \in V : \A i \in 1..m : Deleted(v, up[i]) \in V
  BY <1>3, BlockPool
<1> HIDE DEF V
<1>7. base \in V
  <2>1. ResurrectBlocksWithin(V, n, down)
    BY <1>1, <1>5 DEF ResurrectBlocksWithin
  <2> QED
    BY <1>1, <1>4, <2>1, ResurrectBlocksKeep
<1> HIDE DEF base
<1>8. DeleteBlocksWithin(V, m, up)
  BY <1>1, <1>6 DEF DeleteBlocksWithin
<1>9. PoolAfter(pool, a, b) = DeleteBlocks(base, up)
  BY DEF PoolAfter, base, up, down, ResurrectBlocks, DeleteBlocks, FoldLeft, MapThenFoldSet
<1> QED
  BY <1>1, <1>7, <1>8, <1>9, DeleteBlocksKeep DEF V

-----------------------------------------------------------------------------
(*                         The pool and the chain                          *)

(* The index of the main chain that ends in b. *)
LEMMA TipIndex ==
  ASSUME NEW b \in Blocks
  PROVE  txindex[b] = TxIndexOf(b) /\ DOMAIN txindex[b] = TxsOfBranch(b)
BY IndexDomain DEF txindex

(* The transactions that spend outputs which exist. *)
Sound == {t \in Txs : \A o \in vin[t] : o[2] \in 1..nOut[o[1]]}

ChainInv == tip \in Blocks /\ ValidBranch(tip)

(* accept checks the outputs; what a reorganisation puts back without a    *)
(* check was on a valid chain.                                             *)
PoolInv == mempool \in PoolOf(Sound)

LEMMA NodeInit == Init => ChainInv /\ PoolInv
<1> SUFFICES ASSUME Init PROVE ChainInv /\ PoolInv
  OBVIOUS
<1>1. ChainInv
  BY ValidGenesis, TreeAssumption DEF Init, ChainInv, ValidBranch
<1> QED
  BY <1>1, EmptyPoolOf DEF Init, PoolInv

(* The chain moves to a valid branch of more trust. *)
LEMMA TipMoves ==
  ASSUME ChainInv, NEW b \in Blocks \ {Genesis}, ExtendChain(b) \/ Reorganize(b)
  PROVE  ChainInv' /\ nChainTrust[tip] < nChainTrust[tip']
<1>1. CASE ExtendChain(b)
  BY <1>1, ValidStep, TipIndex DEF ExtendChain, ChainInv, ValidBranch
<1>2. CASE Reorganize(b)
  BY <1>2 DEF Reorganize, ChainInv, ValidBranch
<1> QED
  BY <1>1, <1>2

LEMMA AcceptedPool ==
  ASSUME PoolInv, NEW t \in Txs, Accepted(t)
  PROVE  addUnchecked(mempool, t) \in PoolOf(Sound)
<1>1. t \in Sound /\ Sound \in SUBSET Txs
  BY DEF Accepted, AcceptOK, InputsAcceptable, Sound
<1> QED
  BY <1>1, PoolAdd DEF PoolInv

LEMMA BranchSound ==
  ASSUME NEW b \in Blocks, ValidBranch(b)
  PROVE  TxsOfBranch(b) \subseteq Sound
BY InputsOnBranch, ConnectedType DEF Sound

(* Every step keeps the chain valid and the pool sound. *)
LEMMA NodeInvStep == OrphanInv /\ ChainInv /\ PoolInv /\ [Next]_vars => ChainInv' /\ PoolInv'
<1> SUFFICES ASSUME OrphanInv, ChainInv, PoolInv, [Next]_vars PROVE ChainInv' /\ PoolInv'
  OBVIOUS
<1>1. ASSUME UNCHANGED tip, mempool' \in PoolOf(Sound) PROVE ChainInv' /\ PoolInv'
  BY <1>1 DEF ChainInv, ValidBranch, PoolInv
<1>2. ASSUME UNCHANGED <<tip, mempool>> PROVE ChainInv' /\ PoolInv'
  BY <1>1, <1>2 DEF PoolInv
<1>3. ASSUME NEW t \in Txs, ReceiveTx(t) \/ LocalTx(t) PROVE ChainInv' /\ PoolInv'
  BY <1>1, <1>3, AcceptedPool DEF ReceiveTx, LocalTx
<1>4. CASE TryOrphanTx
  <2>1. PICK t \in todo : mempool' = IF Accepted(t) THEN addUnchecked(mempool, t) ELSE mempool
    BY <1>4 DEF TryOrphanTx
  <2>2. t \in Txs /\ tip' = tip
    BY <1>4, <2>1 DEF TryOrphanTx, OrphanInv, LoopInv, MapsInv
  <2> QED
    BY <1>1, <2>1, <2>2, AcceptedPool DEF PoolInv
<1>5. ASSUME NEW b \in Blocks \ {Genesis}, ExtendChain(b) PROVE ChainInv' /\ PoolInv'
  <2>1. Sound \in SUBSET Txs
    BY DEF Sound
  <2> QED
    BY <1>5, <2>1, TipMoves, PoolRemove DEF ExtendChain, PoolInv
<1>6. ASSUME NEW b \in Blocks \ {Genesis}, Reorganize(b) PROVE ChainInv' /\ PoolInv'
  <2>1. Sound \in SUBSET Txs
    BY DEF Sound
  <2>2. PoolAfter(mempool, tip, b) \in PoolOf(Sound)
    BY <2>1, BranchSound, ReorganizedPool DEF ChainInv, PoolInv
  <2> QED
    BY <1>6, <2>2, TipMoves DEF Reorganize, PoolInv
<1>7. ASSUME NEW t \in Txs, ReceiveOrphanTx(t) PROVE UNCHANGED <<tip, mempool>>
  BY <1>7 DEF ReceiveOrphanTx
<1>8. ASSUME NextTx \/ TxDone \/ UNCHANGED vars PROVE UNCHANGED <<tip, mempool>>
  BY <1>8 DEF NextTx, TxDone, vars
<1> QED
  BY <1>2, <1>3, <1>4, <1>5, <1>6, <1>7, <1>8 DEF Next, Handler

-----------------------------------------------------------------------------
(*                       No orphan is left behind                          *)

(* The transactions that FetchInputs finds. *)
Known == DOMAIN txindex[tip] \cup mempool.mapTx

LEMMA PresentKnown ==
  ASSUME NEW t
  PROVE  InputsPresent(mempool, txindex[tip], t) <=> PrevsOf({t}) \subseteq Known
BY DEF InputsPresent, PrevsOf, InputsOf, Known

(* The handler still has the orphan to try or to erase, or the orphans of  *)
(* a transaction it spends from to look up.                                *)
Awaited(t) ==
    \/ t \in todo \cup vEraseQueue
    \/ \E i \in 2..Len(vWorkQueue) : vWorkQueue[i] \in PrevsOf({t})

(***************************************************************************)
(* At every point of the handler, not only at its end: an orphan whose     *)
(* inputs have all become known is awaited.                                *)
(***************************************************************************)
ReadyInv ==
    /\ \A t \in mapOrphanTransactions :
          PrevsOf({t}) \subseteq Known /\ PrevsOf({t}) \cap elsewhere = {} => Awaited(t)
    /\ Idle => vEraseQueue = {} /\ vWorkQueue = <<>>
    /\ ~ Idle => vWorkQueue # <<>>

(* Between messages no orphan is awaited, so none is ready. *)
LEMMA NoneReady ==
  ASSUME LoopInv, ReadyInv, Idle, NEW t \in mapOrphanTransactions,
         PrevsOf({t}) \cap elsewhere = {}
  PROVE  ~ (PrevsOf({t}) \subseteq Known)
<1>1. todo = {} /\ vEraseQueue = {} /\ Len(vWorkQueue) = 0
  BY DEF LoopInv, ReadyInv
<1>2. ~ Awaited(t)
  BY <1>1 DEF Awaited
<1> QED
  BY <1>2 DEF ReadyInv

(* What becomes known through a block or the user counts as elsewhere. *)
LEMMA IdleReady ==
  ASSUME LoopInv, ReadyInv, Idle, UNCHANGED <<orphanVars, queueVars>>, NEW S,
         Known' \subseteq Known \cup S, elsewhere' = elsewhere \cup S
  PROVE  ReadyInv'
<1>1. ASSUME NEW t \in mapOrphanTransactions, PrevsOf({t}) \subseteq Known',
             PrevsOf({t}) \cap elsewhere' = {}
      PROVE  FALSE
  BY <1>1, NoneReady
<1> QED
  BY <1>1 DEF ReadyInv, orphanVars, queueVars, Idle

(* The orphans that spend from h are found under it. *)
LEMMA FoundUnder ==
  ASSUME MapsInv, NEW t \in mapOrphanTransactions, NEW h \in PrevsOf({t})
  PROVE  t \in ByPrev(mapOrphanTransactionsByPrev, h)
<1>1. h \in Txs
  BY PrevsType DEF MapsInv
<1> QED
  BY <1>1 DEF MapsInv, Agrees, Spending

(* What the steps other than the handler's make known. *)
LEMMA KnownAfterExtend ==
  ASSUME ChainInv, NEW b \in Blocks \ {Genesis}, ExtendChain(b)
  PROVE  Known' \subseteq Known \cup TxsOf(b)
<1>1. tip' = b /\ hashPrevBlock[b] = tip /\ mempool'.mapTx = mempool.mapTx \ TxsOf(b)
  BY DEF ExtendChain, removeAll
<1>2. DOMAIN txindex[b] = TxsOf(b) \cup DOMAIN txindex[tip]
  BY <1>1, TipIndex, ConnectedStep DEF ChainInv
<1> QED
  BY <1>1, <1>2 DEF Known, txindex

LEMMA KnownAfterReorganize ==
  ASSUME ChainInv, PoolInv, NEW b \in Blocks \ {Genesis}, Reorganize(b)
  PROVE  Known' \subseteq Known \cup UNION {TxsOf(x) : x \in Branch[b] \ Branch[tip]}
<1> DEFINE T == mempool.mapTx \cup TxsOfBranch(tip)
<1>1. tip \in Blocks /\ T \in SUBSET Txs /\ TxsOfBranch(tip) \subseteq T
  BY ConnectedType DEF ChainInv, PoolInv, PoolOf, Sound
<1>2. mempool \in PoolOf(T)
  BY DEF PoolInv, PoolOf
<1> HIDE DEF T
<1>3. PoolAfter(mempool, tip, b) \in PoolOf(T)
  BY <1>1, <1>2, ReorganizedPool
<1>4. tip' = b /\ mempool' = PoolAfter(mempool, tip, b)
  BY DEF Reorganize
<1>5. mempool'.mapTx \subseteq T
  BY <1>3, <1>4 DEF PoolOf
<1>6. TxsOfBranch(b) \subseteq TxsOfBranch(tip) \cup UNION {TxsOf(x) : x \in Branch[b] \ Branch[tip]}
  BY DEF TxsOfBranch, Connected
<1>7. DOMAIN txindex[b] = TxsOfBranch(b) /\ DOMAIN txindex[tip] = TxsOfBranch(tip)
  BY <1>1, TipIndex
<1>8. Known' = DOMAIN txindex[b] \cup mempool'.mapTx
  BY <1>4 DEF Known, txindex
<1> QED
  BY <1>5, <1>6, <1>7, <1>8 DEF T, Known

(* ReceiveTx: the orphans that spend from the transaction are to be tried. *)
LEMMA ReceiveReady ==
  ASSUME OrphanInv, ReadyInv, NEW t0 \in Txs, ReceiveTx(t0)
  PROVE  ReadyInv'
<1>1. /\ Idle /\ Known' = Known \cup {t0} /\ elsewhere' = elsewhere
      /\ mapOrphanTransactions' = mapOrphanTransactions
      /\ todo' = ByPrev(mapOrphanTransactionsByPrev, t0)
  BY DEF ReceiveTx, addUnchecked, Known, txindex
<1>2. ~ Idle' /\ vWorkQueue' # <<>>
  BY TxAssumption DEF ReceiveTx, Idle
<1>3. ASSUME NEW t \in mapOrphanTransactions, PrevsOf({t}) \subseteq Known',
             PrevsOf({t}) \cap elsewhere = {}
      PROVE  t \in todo'
  <2>1. t0 \in PrevsOf({t})
    BY <1>1, <1>3, NoneReady DEF OrphanInv
  <2> QED
    BY <1>1, <2>1, FoundUnder DEF OrphanInv
<1> QED
  BY <1>1, <1>2, <1>3 DEF ReadyInv, Awaited

(* ReceiveOrphanTx: the new orphan lacks an input. *)
LEMMA ReceiveOrphanReady ==
  ASSUME OrphanInv, ReadyInv, NEW t0 \in Txs, ReceiveOrphanTx(t0)
  PROVE  ReadyInv'
<1>1. /\ Idle /\ UNCHANGED <<Known, queueVars, elsewhere>>
      /\ mapOrphanTransactions' \subseteq mapOrphanTransactions \cup {t0}
  BY DEF ReceiveOrphanTx, Known, txindex
<1>2. ~ (PrevsOf({t0}) \subseteq Known)
  BY PresentKnown DEF ReceiveOrphanTx, MissingInputs
<1>3. ASSUME NEW t \in mapOrphanTransactions', PrevsOf({t}) \subseteq Known,
             PrevsOf({t}) \cap elsewhere = {}
      PROVE  FALSE
  BY <1>1, <1>2, <1>3, NoneReady DEF OrphanInv
<1> QED
  BY <1>1, <1>3, Zenon DEF ReadyInv, queueVars, Idle

(* TryOrphanTx: the orphan is erased unless it still lacks an input, and   *)
(* one that is accepted is looked up in its turn.                          *)
LEMMA TryReady ==
  ASSUME OrphanInv, ReadyInv, TryOrphanTx
  PROVE  ReadyInv'
<1>1. PICK t0 \in todo :
        /\ todo' = todo \ {t0}
        /\ Accepted(t0) => /\ mempool' = addUnchecked(mempool, t0)
                           /\ vWorkQueue' = Append(vWorkQueue, t0)
        /\ ~ Accepted(t0) => mempool' = mempool /\ vWorkQueue' = vWorkQueue
        /\ vEraseQueue \subseteq vEraseQueue'
        /\ Accepted(t0) \/ ~ MissingInputs(t0) => t0 \in vEraseQueue'
  BY DEF TryOrphanTx
<1>2. /\ t0 \in Txs /\ t0 \in mapOrphanTransactions
      /\ vWorkQueue \in Seq(Txs)
      /\ ~ Idle /\ vWorkQueue # <<>>
  BY <1>1 DEF OrphanInv, LoopInv, MapsInv, ReadyInv
<1>3. UNCHANGED <<tip, mapOrphanTransactions, elsewhere>> /\ ~ Idle'
  BY <1>2 DEF TryOrphanTx, orphanVars, Idle
<1>4. vWorkQueue' # <<>>
  BY <1>1, <1>2
<1>5. ASSUME NEW t, PrevsOf({t}) \subseteq Known, Awaited(t)
      PROVE  Awaited(t)'
  <2>1. CASE t = t0
    <3>1. ~ MissingInputs(t0)
      BY <1>5, <2>1, PresentKnown DEF MissingInputs
    <3> QED
      BY <1>1, <2>1, <3>1 DEF Awaited
  <2>2. CASE t # t0 /\ t \in todo \cup vEraseQueue
    BY <1>1, <2>2 DEF Awaited
  <2>3. ASSUME NEW i \in 2..Len(vWorkQueue), vWorkQueue[i] \in PrevsOf({t})
        PROVE  i \in 2..Len(vWorkQueue') /\ vWorkQueue'[i] = vWorkQueue[i]
    BY <1>1, <1>2
  <2> QED
    BY <1>5, <2>1, <2>2, <2>3, Zenon DEF Awaited
<1>6. ASSUME NEW t, PrevsOf({t}) \subseteq Known', ~ (PrevsOf({t}) \subseteq Known)
      PROVE  Awaited(t)'
  <2>1. Accepted(t0)
    BY <1>1, <1>3, <1>6, Zenon DEF Known, txindex
  <2>2. Known' = Known \cup {t0}
    BY <1>1, <1>3, <2>1 DEF Known, txindex, addUnchecked
  <2>3. t0 \in PrevsOf({t})
    BY <1>6, <2>2
  <2> DEFINE i == Len(vWorkQueue) + 1
  <2>4. i \in 2..Len(vWorkQueue') /\ vWorkQueue'[i] = t0
    BY <1>1, <1>2, <2>1
  <2> HIDE DEF i
  <2> QED
    BY <2>3, <2>4 DEF Awaited
<1> QED
  BY <1>3, <1>4, <1>5, <1>6 DEF ReadyInv

(* NextTx: the orphans of the next accepted transaction are to be tried. *)
LEMMA NextReady ==
  ASSUME OrphanInv, ReadyInv, NextTx
  PROVE  ReadyInv'
<1>1. /\ UNCHANGED <<Known, mapOrphanTransactions, elsewhere, vEraseQueue>>
      /\ ~ Idle' /\ todo = {} /\ Len(vWorkQueue) > 1 /\ vWorkQueue \in Seq(Txs)
      /\ vWorkQueue' = Tail(vWorkQueue)
      /\ todo' = ByPrev(mapOrphanTransactionsByPrev, vWorkQueue[2])
  BY DEF NextTx, Known, txindex, Idle, OrphanInv, LoopInv
<1>2. vWorkQueue' # <<>>
  <2>1. Len(Tail(vWorkQueue)) # 0
    BY <1>1
  <2>2. Len(<<>>) = 0
    OBVIOUS
  <2> QED
    BY <1>1, <2>1, <2>2, Zenon
<1>3. ASSUME NEW t \in mapOrphanTransactions, Awaited(t)
      PROVE  Awaited(t)'
  <2>1. CASE t \in vEraseQueue
    BY <1>1, <2>1 DEF Awaited
  <2>2. ASSUME NEW i \in 2..Len(vWorkQueue), vWorkQueue[i] \in PrevsOf({t})
        PROVE  Awaited(t)'
    <3>1. CASE i = 2
      BY <1>1, <2>2, <3>1, FoundUnder DEF Awaited, OrphanInv
    <3>2. CASE i # 2
      <4> DEFINE j == i - 1
      <4>1. j \in 2..Len(vWorkQueue') /\ vWorkQueue'[j] = vWorkQueue[i]
        BY <1>1, <2>2, <3>2
      <4> HIDE DEF j
      <4> QED
        BY <2>2, <4>1 DEF Awaited
    <3> QED
      BY <3>1, <3>2
  <2> QED
    BY <1>1, <1>3, <2>1, <2>2, Zenon DEF Awaited
<1> QED
  BY <1>1, <1>2, <1>3, Zenon DEF ReadyInv

(* TxDone: what is still awaited is erased. *)
LEMMA DoneReady ==
  ASSUME OrphanInv, ReadyInv, TxDone
  PROVE  ReadyInv'
<1>1. /\ UNCHANGED <<Known, elsewhere>> /\ todo = {} /\ Len(vWorkQueue) <= 1
      /\ vWorkQueue \in Seq(Txs)
      /\ mapOrphanTransactions' = mapOrphanTransactions \ vEraseQueue
      /\ Idle' /\ vEraseQueue' = {} /\ vWorkQueue' = <<>>
  BY DEF TxDone, EraseOrphans, Known, txindex, Idle, OrphanInv, LoopInv
<1>2. ASSUME NEW t \in mapOrphanTransactions \ vEraseQueue
      PROVE  ~ Awaited(t)
  BY <1>1 DEF Awaited
<1> QED
  BY <1>1, <1>2 DEF ReadyInv

LEMMA ReadyStep ==
  OrphanInv /\ ChainInv /\ PoolInv /\ ReadyInv /\ [Next]_vars => ReadyInv'
<1> SUFFICES ASSUME OrphanInv, ChainInv, PoolInv, ReadyInv, [Next]_vars PROVE ReadyInv'
  OBVIOUS
<1>1. ASSUME NEW t \in Txs, LocalTx(t) PROVE ReadyInv'
  <2>1. Known' = Known \cup {t}
    BY <1>1, Zenon DEF LocalTx, Known, txindex, addUnchecked
  <2> QED
    BY <1>1, <2>1, IdleReady DEF LocalTx, OrphanInv
<1>2. ASSUME NEW b \in Blocks \ {Genesis}, ExtendChain(b) PROVE ReadyInv'
  <2>1. Known' \subseteq Known \cup TxsOf(b) /\ elsewhere' = elsewhere \cup TxsOf(b)
    BY <1>2, KnownAfterExtend DEF ExtendChain
  <2> QED
    BY <1>2, <2>1, IdleReady, Zenon DEF ExtendChain, OrphanInv
<1>3. ASSUME NEW b \in Blocks \ {Genesis}, Reorganize(b) PROVE ReadyInv'
  <2> DEFINE S == UNION {TxsOf(x) : x \in Branch[b] \ Branch[tip]}
  <2>1. Known' \subseteq Known \cup S
    BY <1>3, KnownAfterReorganize
  <2>2. Idle /\ UNCHANGED <<orphanVars, queueVars>> /\ elsewhere' = elsewhere \cup S
    BY <1>3 DEF Reorganize
  <2> HIDE DEF S
  <2> QED
    BY <2>1, <2>2, IdleReady DEF OrphanInv
<1>4. CASE UNCHANGED vars
  BY <1>4, Zenon DEF vars, orphanVars, queueVars, ReadyInv, Awaited, Known, txindex, Idle
<1> QED
  BY <1>1, <1>2, <1>3, <1>4, ReceiveReady, ReceiveOrphanReady, TryReady, NextReady, DoneReady
     DEF Next, Handler

(* "Recursively process any orphan transactions that depended on this      *)
(* one": between messages, every orphan whose inputs are all known spends  *)
(* from a transaction that came with a block or from the user, whatever    *)
(* the transactions, the limit, and the order in which orphans are tried.  *)
THEOREM NoReadyOrphanIsLeft == Spec => []NoReadyOrphan
<1> DEFINE Inv == OrphanInv /\ ChainInv /\ PoolInv /\ ReadyInv
<1>1. Init => Inv
  <2>1. Init => ReadyInv
    BY DEF Init, ReadyInv, Idle
  <2> QED
    BY <2>1, OrphanInit, NodeInit
<1>2. Inv /\ [Next]_vars => Inv'
  BY OrphanStep, NodeInvStep, ReadyStep
<1>3. Inv => NoReadyOrphan
  BY NoneReady, PresentKnown, Zenon DEF NoReadyOrphan, OrphanInv
<1> HIDE DEF Inv
<1> QED
  BY <1>1, <1>2, <1>3, PTL DEF Spec

-----------------------------------------------------------------------------
(*                  The miner: the index of the best chain                 *)

(* A transaction of the chain has its block on the chain. *)
LEMMA PosOnBranch ==
    ASSUME NEW b \in Blocks, NEW t \in TxsOfBranch(b)
    PROVE  txindex[b][t].pos \in Branch[b] /\ txindex[b][t].pos \in Blocks
<1>1. PICK x \in Connected(b) : t \in TxsOf(x)  BY DEF TxsOfBranch
<1>2. txindex[b][t].pos = PosIn(b, t)  BY IndexEntry, TipIndex
<1>3. PosIn(b, t) \in Connected(b)  BY <1>1 DEF PosIn
<1> QED  BY <1>2, <1>3, BranchEnds DEF Connected

-----------------------------------------------------------------------------
(*                   The inductive invariant of the miner                  *)

Ordinary == Txs \ (CoinBase \cup CoinStake)

(* The chain only ever moves to more trust, so a block it has left is not  *)
(* its last block again: pindexPrev = tip means that the chain has not     *)
(* moved since pindexPrev was read.                                        *)
PrevInv ==
    thread # "idle" =>
        /\ pindexPrev \in Blocks
        /\ pindexPrev = tip \/ nChainTrust[pindexPrev] < nChainTrust[tip]

QueueInv ==
    /\ vecPriority \cap (CoinBase \cup CoinStake) = {}
    /\ DOMAIN setDependsOn \cap (CoinBase \cup CoinStake) = {}
    /\ freed \cap (CoinBase \cup CoinStake) = {}

TemplateInv ==
    /\ nBlockTx \in Nat
    /\ DOMAIN template \subseteq Ordinary
    /\ \A t \in DOMAIN template : template[t] \in 1..nBlockTx
    /\ thread \in {"idle", "create"} => DOMAIN template = {}

(* No transaction of the block is on the chain already. *)
FreshInv ==
    thread # "idle" /\ pindexPrev = tip =>
        BlockConnects /\ DOMAIN template \cap TxsOfBranch(tip) = {}

IInv == ChainInv /\ PrevInv /\ QueueInv /\ TemplateInv /\ FreshInv

LEMMA InitInv == InitMiner => IInv
<1> SUFFICES ASSUME InitMiner PROVE IInv  OBVIOUS
<1>1. Genesis \in Blocks /\ Connected(Genesis) = {}
  BY TreeAssumption, BranchGenesis DEF Connected
<1>2. ChainInv  BY <1>1 DEF InitMiner, Init, ChainInv, ValidBranch
<1> QED
  BY <1>2 DEF InitMiner, IInv, PrevInv, QueueInv, TemplateInv, FreshInv

(* A chain that has moved is no longer at pindexPrev. *)
LEMMA MovedOn ==
    ASSUME IInv, ChainInv', nChainTrust[tip] < nChainTrust[tip'], UNCHANGED minerVars
    PROVE  IInv'
<1>1. QueueInv' /\ TemplateInv'
  BY DEF IInv, QueueInv, TemplateInv, minerVars, queue
<1>2. PrevInv' /\ (thread' # "idle" => pindexPrev' # tip')
  <2>1. nChainTrust[tip] \in Nat /\ nChainTrust[tip'] \in Nat
    BY TrustAssumption DEF IInv, ChainInv
  <2>2. thread # "idle" => nChainTrust[pindexPrev] \in Nat
    BY TrustAssumption DEF IInv, PrevInv
  <2> QED  BY <2>1, <2>2 DEF IInv, PrevInv, minerVars
<1> QED  BY <1>1, <1>2 DEF IInv, FreshInv

(* The rest of the node does not touch the miner. *)
LEMMA NodeStep == ASSUME IInv, Next, UNCHANGED minerVars PROVE IInv'
<1>1. ASSUME NEW b \in Blocks \ {Genesis}, ExtendChain(b) \/ Reorganize(b) PROVE IInv'
  BY <1>1, TipMoves, MovedOn DEF IInv
<1>2. CASE UNCHANGED tip
  BY <1>2, Zenon DEF IInv, ChainInv, ValidBranch, PrevInv, QueueInv, TemplateInv, FreshInv,
              BlockConnects, Before, minerVars, queue
<1>3. ASSUME NEW t \in Txs, ReceiveTx(t) \/ ReceiveOrphanTx(t) \/ LocalTx(t)
      PROVE  UNCHANGED tip
  BY <1>3 DEF ReceiveTx, ReceiveOrphanTx, LocalTx
<1>4. ASSUME Handler PROVE UNCHANGED tip
  BY <1>4, ZenonT(30) DEF Handler, TryOrphanTx, NextTx, TxDone
<1> QED  BY <1>1, <1>2, <1>3, <1>4 DEF Next

(* A transaction that passes FetchInputs and ConnectInputs on the chain it *)
(* will be mined on is not on that chain: its inputs would be spent.       *)
LEMMA AddedIsFresh ==
    ASSUME IInv, NEW t \in Ordinary, pindexPrev = tip, thread = "collect",
           Fetched(t), Connects(t)
    PROVE  t \notin TxsOfBranch(tip)
<1> SUFFICES ASSUME t \in TxsOfBranch(tip) PROVE FALSE  OBVIOUS
<1>1. tip \in Blocks /\ ValidBranch(tip)  BY DEF IInv, ChainInv
<1>2. PICK o : o \in vin[t]
  BY CheckedAssumption, Zenon DEF CheckTransaction, Ordinary
<1>3. o[1] \in TxsOfBranch(tip) /\ o[2] \in 1..nOut[o[1]]
  BY <1>1, <1>2, InputsOnBranch
<1>4. o[1] \notin DOMAIN template  BY <1>3 DEF IInv, FreshInv
<1>5. txindex[tip][o[1]].vSpent[o[2]] = Nil
  BY <1>2, <1>4, Zenon DEF Connects
<1>6. TxIndexOf(tip)[o[1]].vSpent[o[2]] # Nil
  BY <1>1, <1>2, <1>3, SpentOnBranch, Zenon
<1> QED  BY <1>1, <1>5, <1>6, TipIndex, Zenon

(* The block with one more transaction still connects. *)
LEMMA AddedConnects ==
    ASSUME IInv, NEW t \in Ordinary, pindexPrev = tip, AddTx(t)
    PROVE  BlockConnects' /\ DOMAIN template' \cap TxsOfBranch(tip) = {}
<1>1. /\ tip \in Blocks /\ tip' = tip /\ thread = "collect"
      /\ Fetched(t) /\ Connects(t)
      /\ DOMAIN template' = DOMAIN template \cup {t}
      /\ \A u \in DOMAIN template' : template'[u] = IF u = t THEN nBlockTx + 1 ELSE template[u]
  BY DEF AddTx, vars, IInv, ChainInv
<1>2. t \notin TxsOfBranch(tip)  BY <1>1, AddedIsFresh
<1>3. DOMAIN template' \cap TxsOfBranch(tip) = {}
  BY <1>1, <1>2 DEF IInv, FreshInv
<1>4. DOMAIN txindex[tip] = TxsOfBranch(tip)  BY <1>1, IndexDomain, TipIndex, Zenon
<1>5. t \notin DOMAIN template
  BY <1>1, CheckedAssumption DEF Connects, CheckTransaction, Ordinary
<1>6. nBlockTx \in Nat /\ \A u \in DOMAIN template : template[u] \in 1..nBlockTx
  BY DEF IInv, TemplateInv
<1>7. Before(t)' = DOMAIN template
  <2>1. Before(t)' = {u \in DOMAIN template' : template'[u] < template'[t]}  BY Zenon DEF Before
  <2>2. template'[t] = nBlockTx + 1 /\ \A u \in DOMAIN template : template'[u] = template[u]
    BY <1>1, <1>5
  <2>3. ASSUME NEW u \in DOMAIN template' PROVE template'[u] < template'[t] <=> u \in DOMAIN template
    BY <1>1, <1>5, <1>6, <2>2
  <2> QED  BY <1>1, <2>1, <2>3
<1>8. ASSUME NEW u \in DOMAIN template PROVE Before(u)' = Before(u)
  BY <1>1, <1>5, <1>6 DEF Before
<1>9. BlockConnects  BY <1>1, Zenon DEF IInv, FreshInv
<1> DEFINE Checked(T, S) ==
      \A o \in vin[T] :
          /\ o[1] \in S \cup DOMAIN txindex[tip]
          /\ o[2] \in 1..nOut[o[1]]
          /\ \A u \in S : o \notin vin[u]
          /\ o[1] \notin S =>
               /\ txindex[tip][o[1]].vSpent[o[2]] = Nil
               /\ o[1] \in CoinBase \cup CoinStake =>
                    nHeight[tip] + 1 - nHeight[txindex[tip][o[1]].pos] >= nCoinbaseMaturity
<1>10. \A u \in DOMAIN template : Checked(u, Before(u))
  BY <1>9 DEF BlockConnects
<1>11. Checked(t, DOMAIN template)
  <2> SUFFICES ASSUME NEW o \in vin[t], o[1] \notin DOMAIN template,
                      o[1] \in CoinBase \cup CoinStake
               PROVE  nHeight[tip] + 1 - nHeight[txindex[tip][o[1]].pos] >= nCoinbaseMaturity
    BY <1>1, Zenon DEF Fetched, Connects
  <2> DEFINE pos == txindex[tip][o[1]].pos
  <2>1. o[1] \in TxsOfBranch(tip)  BY <1>1, <1>4, Zenon DEF Fetched
  <2>2. pos \in Branch[tip] /\ pos \in Blocks  BY <1>1, <2>1, PosOnBranch
  <2>3. nHeight[tip] \in Int /\ nHeight[pos] \in Int  BY <1>1, <2>2, HeightType, ZenonT(30)
  <2>4. Mature(pos, tip)  BY <1>1, Zenon DEF Connects
  <2> HIDE DEF pos
  <2>5. nHeight[tip] + 1 - nHeight[pos] >= nCoinbaseMaturity
    BY <1>1, <2>2, <2>4, MatureIs, Zenon
  <2> QED  BY <2>5 DEF pos
<1>12. \A u \in DOMAIN template' : u \notin DOMAIN txindex[tip] /\ Checked(u, Before(u)')
  <2> HIDE DEF Checked
  <2> QED  BY <1>1, <1>3, <1>4, <1>7, <1>8, <1>10, <1>11
<1>13. BlockConnects'
  BY <1>1, <1>12, Zenon DEF BlockConnects, NoOverwrite
<1> QED  BY <1>3, <1>13

LEMMA AddStep == ASSUME IInv, NEW t \in Txs, AddTx(t) PROVE IInv'
<1>1. t \in Ordinary  BY DEF AddTx, IInv, QueueInv, Ordinary
<1>2. UNCHANGED <<tip, thread, pindexPrev>> /\ thread = "collect"  BY DEF AddTx, vars
<1>3. ChainInv' /\ PrevInv'
  BY <1>2 DEF IInv, ChainInv, ValidBranch, PrevInv
<1>4. QueueInv'
  <2>1. Ready(t) \subseteq DOMAIN setDependsOn  BY DEF Ready
  <2>2. DOMAIN setDependsOn' \subseteq DOMAIN setDependsOn /\ freed' = freed  BY DEF AddTx
  <2>3. vecPriority' \subseteq vecPriority \cup DOMAIN setDependsOn \cup freed
    BY <2>1 DEF AddTx
  <2> QED  BY <2>2, <2>3 DEF IInv, QueueInv
<1>5. TemplateInv'
  BY <1>1, <1>2 DEF AddTx, IInv, TemplateInv
<1>6. FreshInv'
  BY <1>1, <1>2, AddedConnects DEF FreshInv
<1> QED  BY <1>3, <1>4, <1>5, <1>6, Zenon DEF IInv

(* Neither the chain nor the block has changed. *)
LEMMA SameBlock ==
    ASSUME FreshInv, thread # "idle", UNCHANGED <<tip, pindexPrev, template>>
    PROVE  FreshInv'
<1>1. BlockConnects' <=> BlockConnects  BY Zenon DEF BlockConnects, Before
<1> QED  BY <1>1, Zenon DEF FreshInv

LEMMA StepInv == IInv /\ [NextMiner]_systemVars => IInv'
<1> SUFFICES ASSUME IInv, [NextMiner]_systemVars PROVE IInv'  OBVIOUS
<1>1. CASE Next /\ UNCHANGED minerVars  BY <1>1, NodeStep
<1>2. CASE ReadBest
  <2>1. template' = template /\ DOMAIN template = {}
    BY <1>2 DEF ReadBest, IInv, TemplateInv
  <2>2. FreshInv'  BY <2>1 DEF FreshInv, BlockConnects
  <2> QED
    BY <1>2, <2>1, <2>2 DEF ReadBest, vars, queue, IInv, ChainInv, ValidBranch, PrevInv,
                            QueueInv, TemplateInv
<1>3. CASE CollectTxs
  <2>1. vecPriority' \subseteq Pooled /\ DOMAIN setDependsOn' \subseteq Pooled /\ freed' \subseteq Pooled
    BY <1>3 DEF CollectTxs, Candidates
  <2>2. QueueInv'  BY <2>1 DEF QueueInv, Pooled
  <2>3. template' = template /\ DOMAIN template = {}
    BY <1>3 DEF CollectTxs, IInv, TemplateInv
  <2>4. FreshInv'  BY <2>3 DEF FreshInv, BlockConnects
  <2> QED
    BY <1>3, <2>2, <2>3, <2>4, Zenon DEF CollectTxs, vars, IInv, ChainInv, ValidBranch, PrevInv, TemplateInv
<1>4. ASSUME NEW t \in Txs, AddTx(t) PROVE IInv'  BY <1>4, AddStep
<1>5. ASSUME NEW t \in Txs, SkipTx(t) PROVE IInv'
  <2>1. /\ UNCHANGED <<tip, pindexPrev, template, nBlockTx, thread, setDependsOn, freed>>
        /\ thread = "collect" /\ vecPriority' \subseteq vecPriority
    BY <1>5 DEF SkipTx, vars
  <2>2. ChainInv' /\ PrevInv'  BY <2>1 DEF IInv, ChainInv, ValidBranch, PrevInv
  <2>3. QueueInv' /\ TemplateInv'  BY <2>1 DEF IInv, QueueInv, TemplateInv
  <2>4. FreshInv'  BY <2>1, SameBlock DEF IInv
  <2> QED  BY <2>2, <2>3, <2>4 DEF IInv
<1>6. CASE CreateNewBlockReturns
  <2>1. /\ UNCHANGED <<tip, pindexPrev, vecPriority, template, nBlockTx>>
        /\ thread = "collect" /\ thread' = "found" /\ setDependsOn' = <<>> /\ freed' = {}
    BY <1>6 DEF CreateNewBlockReturns, vars
  <2>2. ChainInv' /\ PrevInv'  BY <2>1 DEF IInv, ChainInv, ValidBranch, PrevInv
  <2>3. QueueInv' /\ TemplateInv'  BY <2>1 DEF IInv, QueueInv, TemplateInv
  <2>4. FreshInv'  BY <2>1, SameBlock DEF IInv
  <2> QED  BY <2>2, <2>3, <2>4 DEF IInv
<1>7. ASSUME NewBlock, ChainInv' PROVE IInv'
  BY <1>7 DEF NewBlock, queue, IInv, PrevInv, QueueInv, TemplateInv, FreshInv
<1>8. CASE NotFound \/ StaleBlock
  BY <1>7, <1>8 DEF NotFound, StaleBlock, vars, IInv, ChainInv, ValidBranch
<1>9. CASE CheckWork
  <2>1. ChainInv'
    <3>1. ASSUME NEW b \in Blocks \ {Genesis}, ExtendChain(b) PROVE ChainInv'
      BY <3>1, TipMoves DEF IInv
    <3> QED  BY <1>9, <3>1, Zenon DEF CheckWork, ProcessBlock, vars, IInv, ChainInv, ValidBranch
  <2> QED  BY <1>7, <1>9, <2>1 DEF CheckWork
<1>10. CASE UNCHANGED systemVars
  BY <1>10, Zenon DEF systemVars, minerVars, queue, vars, IInv, ChainInv, ValidBranch, PrevInv, QueueInv,
               TemplateInv, FreshInv, BlockConnects, Before
<1> QED
  BY <1>1, <1>2, <1>3, <1>4, <1>5, <1>6, <1>8, <1>9, <1>10 DEF NextMiner, Collecting

(* CheckWork, CheckStake: the test for a stale block is enough.  Every     *)
(* block that passes it connects, whatever happened to the chain and to    *)
(* the pool since CreateNewBlock read pindexBest without a lock, for every *)
(* network of blocks and transactions.                                     *)
THEOREM SubmittedAlwaysConnects == SpecMiner => SubmittedConnects
<1>1. IInv /\ [NextMiner]_systemVars => [CheckWork => BlockConnects]_systemVars
  BY DEF IInv, FreshInv, CheckWork
<1> QED  BY <1>1, InitInv, StepInv, PTL DEF SpecMiner, SubmittedConnects

-----------------------------------------------------------------------------
(*                        The order of dependencies                        *)

(***************************************************************************)
(* While transactions are collected: a queued one depends on nothing that  *)
(* is not in the block, except where its COrphan was freed; a waiting one  *)
(* waits for exactly what it depends on and is not in the block.           *)
(***************************************************************************)
DependsInv ==
    thread = "collect" =>
        /\ \A t \in vecPriority \ freed : t \in Sound /\ Deps(t) \subseteq DOMAIN template
        /\ \A t \in DOMAIN setDependsOn :
              /\ t \in Sound
              /\ setDependsOn[t] = Deps(t) \ DOMAIN template
              /\ setDependsOn[t] # {}

(* What a sound transaction depends on is exactly what is not on disk. *)
LEMMA SoundDeps ==
    ASSUME NEW t \in Sound
    PROVE  /\ Deps(t) \subseteq DOMAIN template => Fetched(t)
           /\ Fetched(t) => Deps(t) \subseteq DOMAIN template
<1>1. \A o \in vin[t] : o[2] \in 1..nOut[o[1]]  BY DEF Sound
<1>2. Deps(t) = {o[1] : o \in {i \in vin[t] : i[1] \notin DOMAIN txindex[tip]}}
  BY <1>1 DEF Deps, OnDisk
<1> QED  BY <1>1, <1>2, Zenon DEF Fetched

LEMMA DependsSteps == IInv /\ PoolInv /\ DependsInv /\ [NextMiner]_systemVars => DependsInv'
<1> SUFFICES ASSUME IInv, PoolInv, DependsInv, [NextMiner]_systemVars, thread' = "collect"
             PROVE  DependsInv'
  BY DEF DependsInv
<1>1. CASE CollectTxs
  <2>1. Pooled \subseteq Sound  BY Zenon DEF Pooled, PoolInv, PoolOf
  <2>2. DOMAIN template' = {}  BY <1>1, ZenonT(30) DEF CollectTxs, IInv, TemplateInv
  <2>3. \A t : Deps(t)' = Deps(t)
    BY <1>1, ZenonT(30) DEF CollectTxs, vars, Deps, OnDisk, txindex
  <2>4. \A t \in vecPriority' : t \in Pooled /\ Deps(t) = {}
    BY <1>1, Zenon DEF CollectTxs, Candidates
  <2>5. \A t \in DOMAIN setDependsOn' : t \in Pooled /\ setDependsOn'[t] = Deps(t) /\ Deps(t) # {}
    BY <1>1 DEF CollectTxs, Candidates
  <2> QED  BY <2>1, <2>2, <2>3, <2>4, <2>5 DEF DependsInv
<1>2. ASSUME NEW t \in Txs, AddTx(t) PROVE DependsInv'
  <2>1. /\ thread = "collect" /\ DOMAIN template' = DOMAIN template \cup {t}
        /\ vecPriority' \subseteq vecPriority \cup Ready(t) \cup freed /\ freed' = freed
        /\ DOMAIN setDependsOn' = DOMAIN setDependsOn \ Ready(t)
        /\ \A x \in DOMAIN setDependsOn' : setDependsOn'[x] = setDependsOn[x] \ {t}
    BY <1>2, Zenon DEF AddTx
  <2>2. \A x : Deps(x)' = Deps(x)
    BY <1>2 DEF AddTx, vars, Deps, OnDisk, txindex
  <2>3. ASSUME NEW x \in vecPriority' \ freed'
        PROVE  x \in Sound /\ Deps(x) \subseteq DOMAIN template'
    <3>1. CASE x \in vecPriority \ freed  BY <2>1, <3>1 DEF DependsInv
    <3>2. CASE x \in Ready(t)
      <4>1. x \in DOMAIN setDependsOn /\ setDependsOn[x] = {t}  BY <3>2 DEF Ready
      <4>2. x \in Sound /\ Deps(x) \ DOMAIN template = {t}  BY <2>1, <4>1, Zenon DEF DependsInv
      <4> QED  BY <2>1, <4>2
    <3> QED  BY <2>1, <2>3, <3>1, <3>2, Zenon
  <2>4. ASSUME NEW x \in DOMAIN setDependsOn'
        PROVE  /\ x \in Sound
               /\ setDependsOn'[x] = Deps(x) \ DOMAIN template'
               /\ setDependsOn'[x] # {}
    <3>1. x \in DOMAIN setDependsOn /\ setDependsOn[x] # {t}  BY <2>1 DEF Ready
    <3>2. /\ x \in Sound /\ setDependsOn[x] = Deps(x) \ DOMAIN template
          /\ setDependsOn[x] # {}
      BY <2>1, <3>1, Zenon DEF DependsInv
    <3> QED  BY <2>1, <3>1, <3>2
  <2> QED  BY <2>2, <2>3, <2>4, Zenon DEF DependsInv
<1>3. ASSUME UNCHANGED <<tip, thread, setDependsOn, freed, template>>,
             vecPriority' \subseteq vecPriority
      PROVE  DependsInv'
  <2>1. \A t : Deps(t)' = Deps(t)  BY <1>3, Zenon DEF Deps, OnDisk, txindex
  <2> QED  BY <1>3, <2>1 DEF DependsInv
<1>4. ASSUME (\E t \in Txs : SkipTx(t)) \/ UNCHANGED systemVars PROVE DependsInv'
  BY <1>3, <1>4 DEF SkipTx, systemVars, minerVars, queue, vars
<1>5. ASSUME thread # "collect", UNCHANGED minerVars PROVE FALSE
  BY <1>5 DEF minerVars
<1>6. ASSUME ReadBest \/ CreateNewBlockReturns \/ NotFound \/ CheckWork \/ StaleBlock PROVE FALSE
  BY <1>6 DEF ReadBest, CreateNewBlockReturns, NotFound, CheckWork, StaleBlock, NewBlock
<1> QED  BY <1>1, <1>2, <1>4, <1>5, <1>6, Zenon DEF NextMiner, Collecting

(* To the rest of the node, each step of the miner is a step of its own or *)
(* none.                                                                   *)
LEMMA MinerIsNode == [NextMiner]_systemVars => [Next]_vars
<1> SUFFICES ASSUME [NextMiner]_systemVars PROVE [Next]_vars  OBVIOUS
<1>1. ASSUME ReadBest \/ CollectTxs \/ CreateNewBlockReturns \/ NotFound \/ StaleBlock
      PROVE  UNCHANGED vars
  BY <1>1, Zenon DEF ReadBest, CollectTxs, CreateNewBlockReturns, NotFound, StaleBlock
<1>2. ASSUME NEW t \in Txs, AddTx(t) \/ SkipTx(t) PROVE UNCHANGED vars
  BY <1>2 DEF AddTx, SkipTx
<1>3. CASE CheckWork  BY <1>3, Zenon DEF CheckWork, ProcessBlock, Next
<1>4. CASE UNCHANGED systemVars  BY <1>4 DEF systemVars
<1> QED  BY <1>1, <1>2, <1>3, <1>4 DEF NextMiner, Collecting

(* The invariants of the node hold beside the miner. *)
THEOREM NodeBesideMiner == SpecMiner => Spec
<1>1. InitMiner => Init  BY DEF InitMiner
<1> QED  BY <1>1, MinerIsNode, PTL DEF SpecMiner, Spec

(* CreateNewBlock, "we're already processing them in order of dependency": *)
(* what is queued finds its inputs in the block or on disk, and what waits *)
(* does not yet.  The exception is a transaction whose COrphan was freed   *)
(* while mapDependers still pointed to it.                                 *)
THEOREM DependenciesComeFirst == SpecMiner => []DependenciesFirst
<1> DEFINE Inv == IInv /\ OrphanInv /\ ChainInv /\ PoolInv /\ DependsInv
<1>1. InitMiner => Inv
  BY InitInv, OrphanInit, NodeInit DEF InitMiner, DependsInv
<1>2. Inv /\ [NextMiner]_systemVars => Inv'
  BY StepInv, OrphanStep, NodeInvStep, DependsSteps, MinerIsNode
<1>3. Inv => DependenciesFirst
  BY SoundDeps DEF DependsInv, DependenciesFirst
<1> HIDE DEF Inv
<1> QED  BY <1>1, <1>2, <1>3, PTL DEF SpecMiner
=============================================================================
