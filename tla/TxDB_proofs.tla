----------------------------- MODULE TxDB_proofs -----------------------------
(***************************************************************************)
(* Proof that CTxDB implements the transactional map TxMap, for any        *)
(* handles, keys, values and bounds.                                       *)
(***************************************************************************)
EXTENDS TxDB, TLAPS

(* Entry i of a batch is the last one for key k. *)
IsLast(s, k, i) ==
    /\ i \in DOMAIN s
    /\ s[i].key = k
    /\ \A j \in DOMAIN s : s[j].key = k => j <= i

(* A key that is found in a batch has a last entry there. *)
HasLast(s) == \A k \in Keys : Found(s, k) => \E i \in DOMAIN s : IsLast(s, k, i)

(* What is found by CHOOSE is the last entry. *)
LEMMA LastEntryIs ==
    ASSUME NEW s \in Seq(Entries), NEW k \in Keys, NEW i \in DOMAIN s, IsLast(s, k, i)
    PROVE  Found(s, k) /\ LastEntry(s, k) = i
<1> DEFINE e == LastEntry(s, k)
<1>1. e \in DOMAIN s /\ s[e].key = k /\ \A j \in DOMAIN s : s[j].key = k => j <= e
  BY DEF IsLast, LastEntry
<1>2. e <= i /\ i <= e  BY <1>1 DEF IsLast
<1>3. e \in Nat /\ i \in Nat  BY <1>1
<1> QED  BY <1>1, <1>2, <1>3 DEF Found

(* CBatchScanner after one more entry: it is the one that counts for its   *)
(* key, and no other key is affected.                                      *)
LEMMA AppendedEntry ==
    ASSUME NEW s \in Seq(Entries), HasLast(s), NEW e \in Entries, NEW k \in Keys
    PROVE  /\ k = e.key => IsLast(Append(s, e), k, Len(s) + 1)
           /\ k # e.key => /\ Found(Append(s, e), k) <=> Found(s, k)
                           /\ \A i \in DOMAIN s : IsLast(s, k, i) => IsLast(Append(s, e), k, i)
<1> DEFINE a == Append(s, e)
<1>1. /\ a \in Seq(Entries)
      /\ Len(s) \in Nat
      /\ DOMAIN s = 1..Len(s)
      /\ DOMAIN a = 1..(Len(s) + 1)
      /\ a[Len(s) + 1] = e
      /\ \A i \in 1..Len(s) : a[i] = s[i]
  OBVIOUS
<1> HIDE DEF a
<1>2. CASE k = e.key
  BY <1>1, <1>2 DEF IsLast, a
<1>3. CASE k # e.key
  <2>1. \A i \in DOMAIN a : a[i].key = k => i \in DOMAIN s /\ s[i].key = k
    BY <1>1, <1>3
  <2>2. \A i \in DOMAIN s : i \in DOMAIN a /\ a[i].key = s[i].key
    BY <1>1
  <2>3. Found(a, k) <=> Found(s, k)
    BY <2>1, <2>2 DEF Found
  <2>4. \A i \in DOMAIN s : IsLast(s, k, i) => IsLast(a, k, i)
    BY <2>1, <2>2 DEF IsLast
  <2> QED  BY <1>3, <2>3, <2>4 DEF a
<1> QED  BY <1>2, <1>3

LEMMA AppendHasLast ==
    ASSUME NEW s \in Seq(Entries), HasLast(s), NEW e \in Entries
    PROVE  HasLast(Append(s, e))
<1> SUFFICES ASSUME NEW k \in Keys, Found(Append(s, e), k)
             PROVE  \E i \in DOMAIN Append(s, e) : IsLast(Append(s, e), k, i)
  BY DEF HasLast
<1>1. CASE k = e.key
  BY <1>1, AppendedEntry DEF IsLast
<1>2. CASE k # e.key
  <2>1. PICK i \in DOMAIN s : IsLast(s, k, i)
    BY <1>2, AppendedEntry DEF HasLast
  <2>2. IsLast(Append(s, e), k, i)
    BY <1>2, <2>1, AppendedEntry
  <2> QED  BY <2>2 DEF IsLast
<1> QED  BY <1>1, <1>2

(* A batch with one more entry leaves the store it left before, but for    *)
(* the key of that entry.                                                  *)
LEMMA ApplyAppend ==
    ASSUME NEW s \in Seq(Entries), HasLast(s), NEW e \in Entries, NEW st
    PROVE  ApplyBatch(st, Append(s, e)) = [ApplyBatch(st, s) EXCEPT ![e.key] = e.val]
<1> DEFINE a == Append(s, e)
<1>1. a \in Seq(Entries) /\ a[Len(s) + 1] = e /\ Len(s) + 1 \in DOMAIN a
      /\ \A i \in DOMAIN s : i \in DOMAIN a /\ a[i] = s[i]
  OBVIOUS
<1>2. ASSUME NEW k \in Keys
      PROVE  ApplyBatch(st, a)[k] = IF k = e.key THEN e.val ELSE ApplyBatch(st, s)[k]
  <2>1. CASE k = e.key
    <3>1. IsLast(a, k, Len(s) + 1)  BY <2>1, AppendedEntry
    <3>2. Found(a, k) /\ LastEntry(a, k) = Len(s) + 1
      <4> HIDE DEF a
      <4> QED  BY <1>1, <3>1, LastEntryIs
    <3> QED  BY <1>1, <2>1, <3>2 DEF ApplyBatch
  <2>2. CASE k # e.key /\ Found(s, k)
    <3>1. PICK i \in DOMAIN s : IsLast(s, k, i)  BY <2>2 DEF HasLast
    <3>2. IsLast(a, k, i)  BY <2>2, <3>1, AppendedEntry
    <3>3. LastEntry(s, k) = i  BY <3>1, LastEntryIs
    <3>4. Found(a, k) /\ LastEntry(a, k) = i
      <4> HIDE DEF a
      <4> QED  BY <1>1, <3>1, <3>2, LastEntryIs
    <3>5. a[i] = s[i]  BY <1>1, <3>1
    <3> HIDE DEF a
    <3> QED  BY <2>2, <3>3, <3>4, <3>5 DEF ApplyBatch
  <2>3. CASE k # e.key /\ ~ Found(s, k)
    <3>1. ~ Found(a, k)  BY <2>3, AppendedEntry
    <3> HIDE DEF a
    <3> QED  BY <2>3, <3>1 DEF ApplyBatch
  <2> QED  BY <2>1, <2>2, <2>3
<1> HIDE DEF a
<1>3. e.key \in Keys  BY DEF Entries
<1>4. ApplyBatch(st, a) = [k \in Keys |-> ApplyBatch(st, a)[k]]  BY DEF ApplyBatch
<1>5. [ApplyBatch(st, s) EXCEPT ![e.key] = e.val]
        = [k \in Keys |-> IF k = e.key THEN e.val ELSE ApplyBatch(st, s)[k]]
  BY <1>3, Zenon DEF ApplyBatch
<1>6. ApplyBatch(st, a) = [ApplyBatch(st, s) EXCEPT ![e.key] = e.val]
  BY <1>2, <1>4, <1>5
<1> QED  BY <1>6 DEF a

(* An empty batch leaves the store. *)
LEMMA ApplyEmpty ==
    ASSUME NEW st \in [Keys -> Values \cup {Nil}]
    PROVE  ApplyBatch(st, <<>>) = st
<1>1. \A k \in Keys : ~ Found(<<>>, k)  BY DEF Found
<1> QED  BY <1>1 DEF ApplyBatch

(* A batch leaves a store. *)
LEMMA ApplyType ==
    ASSUME NEW st \in [Keys -> Values \cup {Nil}], NEW s \in Seq(Entries), HasLast(s)
    PROVE  ApplyBatch(st, s) \in [Keys -> Values \cup {Nil}]
<1>1. ASSUME NEW k \in Keys, Found(s, k)
      PROVE  s[LastEntry(s, k)].val \in Values \cup {Nil}
  <2>1. PICK i \in DOMAIN s : IsLast(s, k, i)  BY <1>1 DEF HasLast
  <2>2. LastEntry(s, k) = i  BY <2>1, LastEntryIs
  <2>3. s[i] \in Entries  OBVIOUS
  <2> QED  BY <2>2, <2>3 DEF Entries
<1> QED  BY <1>1 DEF ApplyBatch

-----------------------------------------------------------------------------
(*                        The inductive invariant                          *)

(* Types, and every batch knows the last entry for each of its keys. *)
IInv == TypeOK /\ \A h \in Handles : HasLast(activeBatch[h])

LEMMA EmptyHasLast == HasLast(<<>>)
BY DEF HasLast, Found

LEMMA InitInv == Init => IInv
BY EmptyHasLast DEF Init, IInv, TypeOK

(* Every call, error and crash keeps the invariant. *)
LEMMA StepInv == IInv /\ [Next]_vars => IInv'
<1> SUFFICES ASSUME IInv, [Next]_vars PROVE IInv'
  OBVIOUS
<1> USE DEF IInv
<1>1. ASSUME NEW h \in Handles, TxnBegin(h) PROVE IInv'
  BY <1>1, EmptyHasLast DEF TxnBegin, TypeOK
<1>2. ASSUME NEW h \in Handles, NEW k \in Keys, NEW v \in Values \cup {Nil}, Put(h, k, v)
      PROVE  IInv'
  <2> DEFINE e == [key |-> k, val |-> v]
  <2>1. e \in Entries  BY DEF Entries
  <2>2. CASE h \in inTxn
    <3>1. HasLast(Append(activeBatch[h], e))
      BY <2>1, AppendHasLast DEF TypeOK
    <3>2. activeBatch' = [activeBatch EXCEPT ![h] = Append(activeBatch[h], e)]
      BY <1>2, <2>2 DEF Put
    <3>3. Append(activeBatch[h], e) \in Seq(Entries)
      BY <2>1 DEF TypeOK
    <3> HIDE DEF e
    <3>4. TypeOK'  BY <1>2, <2>2, <3>2, <3>3 DEF Put, TypeOK
    <3>5. \A g \in Handles : HasLast(activeBatch'[g])
      BY <3>1, <3>2 DEF TypeOK
    <3> QED  BY <3>4, <3>5
  <2>3. CASE h \notin inTxn
    BY <1>2, <2>3 DEF Put, TypeOK
  <2> QED  BY <2>2, <2>3
<1>3. ASSUME NEW h \in Handles, h \in inTxn, DropBatch(h),
             store' \in [Keys -> Values \cup {Nil}], faults' \in Nat
      PROVE  IInv'
  BY <1>3, EmptyHasLast DEF DropBatch, TypeOK
<1>4. ASSUME NEW h \in Handles, TxnCommit(h) PROVE IInv'
  <2>1. store' \in [Keys -> Values \cup {Nil}]
    BY <1>4, ApplyType DEF TxnCommit, TypeOK
  <2> QED  BY <1>3, <1>4, <2>1 DEF TxnCommit, TypeOK
<1>5. ASSUME NEW h \in Handles, TxnAbort(h) \/ TxnCommitFails(h) PROVE IInv'
  BY <1>3, <1>5 DEF TxnAbort, TxnCommitFails, Fault, TypeOK
<1>6. ASSUME UNCHANGED <<store, inTxn, activeBatch>>, faults' \in Nat PROVE IInv'
  BY <1>6 DEF TypeOK
<1>7. ASSUME NEW h \in Handles, NEW k \in Keys,
             \/ Read(h, k) \/ ReadFails(h, k) \/ Exists(h, k) \/ ExistsFails(h, k)
             \/ PutFails(h)
      PROVE  IInv'
  BY <1>6, <1>7 DEF Read, ReadFails, Exists, ExistsFails, PutFails, Fault, TypeOK
<1>8. CASE Crash
  BY <1>8, EmptyHasLast DEF Crash, TypeOK
<1>9. CASE UNCHANGED vars
  BY <1>6, <1>9 DEF vars, TypeOK
<1>10. ASSUME NEW h \in Handles, PutFails(h) PROVE IInv'
  BY <1>6, <1>10 DEF PutFails, Fault, TypeOK
<1> QED  BY <1>1, <1>2, <1>4, <1>5, <1>7, <1>8, <1>9, <1>10 DEF Next, Call, Write, Erase

(* The types of the database are right at any time, and there is never     *)
(* more than one transaction.                                              *)
THEOREM TypeCorrect == Spec => []TypeOK
<1>1. Spec => []IInv  BY InitInv, StepInv, PTL DEF Spec
<1>2. IInv => TypeOK  BY DEF IInv
<1> QED  BY <1>1, <1>2, PTL

-----------------------------------------------------------------------------
(*                             Refinement                                  *)

(* What Read returns, with or without a transaction, is what the map holds *)
(* that the handle sees.                                                   *)
LEMMA ReadSees ==
    ASSUME IInv, NEW h \in Handles, NEW k \in Keys
    PROVE  /\ ReadValue(h, k) = M!Seen(h)[k]
           /\ h \in inTxn /\ Found(activeBatch[h], k) =>
                 ScanBatch(activeBatch[h], k) = M!Seen(h)[k]
           /\ ~ (h \in inTxn /\ Found(activeBatch[h], k)) => M!Seen(h)[k] = store[k]
BY DEF IInv, TypeOK, ReadValue, M!Seen, copyBar, ApplyBatch, ScanBatch

(* A batch that is deleted is a copy that is given up. *)
LEMMA DropCloses ==
    ASSUME IInv, NEW h \in Handles, h \in inTxn, DropBatch(h)
    PROVE  M!Close(h) /\ result' = M!NoResult
<1>1. inTxn = {h} /\ inTxn' = {}  BY DEF IInv, TypeOK, DropBatch
<1>2. copyBar' = [g \in Handles |-> M!Empty]  BY <1>1 DEF copyBar, M!Empty
<1>3. copyBar = [g \in Handles |-> IF g = h THEN ApplyBatch(store, activeBatch[h])
                                             ELSE M!Empty]
  BY <1>1 DEF copyBar, M!Empty
<1>4. copyBar' = [copyBar EXCEPT ![h] = M!Empty]  BY <1>2, <1>3, Zenon
<1> QED  BY <1>1, <1>4 DEF M!Close, DropBatch, NoResult, M!NoResult

LEMMA InitRefines == Init => M!Init
BY DEF Init, M!Init, copyBar, M!Empty, NoResult, M!NoResult

(* Every step of CTxDB is a step of the map. *)
LEMMA StepRefines == IInv /\ [Next]_vars => [M!Next]_(M!vars)
<1> SUFFICES ASSUME IInv, [Next]_vars PROVE [M!Next]_(M!vars)
  OBVIOUS
<1> USE DEF NoResult, M!NoResult
<1>1. ASSUME NEW h \in Handles, TxnBegin(h) PROVE M!Begin(h)
  <2>1. inTxn = {} /\ inTxn' = {h} /\ store' = store /\ activeBatch'[h] = <<>>
    BY <1>1 DEF TxnBegin, IInv, TypeOK
  <2>2. ApplyBatch(store, <<>>) = store  BY ApplyEmpty DEF IInv, TypeOK
  <2>3. copyBar' = [g \in Handles |-> IF g = h THEN store ELSE M!Empty]
    BY <2>1, <2>2 DEF copyBar, M!Empty
  <2>4. copyBar = [g \in Handles |-> M!Empty]
    BY <2>1 DEF copyBar, M!Empty
  <2>5. copyBar' = [copyBar EXCEPT ![h] = store]  BY <2>3, <2>4, Zenon
  <2> QED  BY <1>1, <2>1, <2>5 DEF TxnBegin, M!Begin
<1>2. ASSUME NEW h \in Handles, NEW k \in Keys, NEW v \in Values \cup {Nil}, Put(h, k, v)
      PROVE  M!Set(h, k, v)
  <2> DEFINE e == [key |-> k, val |-> v]
             s == activeBatch[h]
  <2>1. CASE h \in inTxn
    <3>1. inTxn = {h} /\ inTxn' = {h} /\ store' = store /\ result' = NoResult
          /\ faults' = faults /\ activeBatch'[h] = Append(s, e)
      BY <1>2, <2>1 DEF Put, HoldsMain, IInv, TypeOK
    <3>2. e \in Entries /\ e.key = k /\ e.val = v  BY DEF Entries
    <3>3. ApplyBatch(store, Append(s, e)) = [ApplyBatch(store, s) EXCEPT ![k] = v]
      <4>1. s \in Seq(Entries) /\ HasLast(s)  BY DEF IInv, TypeOK
      <4> HIDE DEF e, s
      <4> QED  BY <3>2, <4>1, ApplyAppend
    <3> HIDE DEF e, s
    <3>4. copyBar' = [g \in Handles |-> IF g = h THEN ApplyBatch(store, Append(s, e))
                                                 ELSE M!Empty]
      BY <3>1, Zenon DEF copyBar, M!Empty
    <3>5. copyBar = [g \in Handles |-> IF g = h THEN ApplyBatch(store, s) ELSE M!Empty]
      BY <3>1 DEF copyBar, M!Empty, s
    <3>6. copyBar' = [copyBar EXCEPT ![h] = [ApplyBatch(store, s) EXCEPT ![k] = v]]
      BY <3>3, <3>4, <3>5, Zenon
    <3>7. copyBar[h] = ApplyBatch(store, s)  BY <3>5
    <3>8. copyBar' = [copyBar EXCEPT ![h][k] = v]  BY <3>6, <3>7
    <3> QED  BY <3>1, <3>8 DEF M!Set
  <2>2. CASE h \notin inTxn
    <3>1. inTxn = {} /\ inTxn' = {}  BY <1>2, <2>2 DEF Put, HoldsMain
    <3>2. copyBar' = copyBar  BY <3>1 DEF copyBar
    <3> QED  BY <1>2, <2>2, <3>1, <3>2 DEF Put, M!Set
  <2> QED  BY <2>1, <2>2
<1>3. ASSUME UNCHANGED <<store, inTxn, activeBatch>> PROVE copyBar' = copyBar
  BY <1>3 DEF copyBar
<1>4. ASSUME NEW h \in Handles, NEW k \in Keys, Read(h, k) PROVE M!Get(h, k)
  BY <1>3, <1>4, ReadSees DEF Read, M!Get
<1>5. ASSUME NEW h \in Handles, NEW k \in Keys, Exists(h, k) PROVE M!Has(h, k)
  <2>1. ExistsValue(h, k) \in {"yes", "no"}  BY DEF ExistsValue
  <2>2. M!Seen(h)[k] # Nil => ExistsValue(h, k) = "yes"
    BY ReadSees DEF ExistsValue
  <2>3. M!Seen(h)[k] = Nil /\ store[k] = Nil => ExistsValue(h, k) = "no"
    BY ReadSees DEF ExistsValue
  <2> QED  BY <1>3, <1>5, <2>1, <2>2, <2>3 DEF Exists, M!Has
<1>6. ASSUME NEW h \in Handles, TxnCommit(h) PROVE M!Commit(h)
  <2>1. h \in inTxn /\ DropBatch(h)  BY <1>6 DEF TxnCommit
  <2>2. copyBar[h] = ApplyBatch(store, activeBatch[h])  BY <2>1 DEF copyBar
  <2> QED  BY <1>6, <2>1, <2>2, DropCloses DEF TxnCommit, M!Commit
<1>7. ASSUME NEW h \in Handles, TxnAbort(h) PROVE M!Abort(h)
  BY <1>7, DropCloses DEF TxnAbort, M!Abort
<1>8. ASSUME NEW h \in Handles, TxnCommitFails(h) PROVE M!Fail(h)
  BY <1>8, DropCloses DEF TxnCommitFails, Fault, M!Fail
<1>9. ASSUME NEW h \in Handles, PutFails(h) PROVE M!Fail(h)
  BY <1>3, <1>9 DEF PutFails, Fault, M!Fail
<1>10. ASSUME NEW h \in Handles, NEW k \in Keys, ReadFails(h, k) \/ ExistsFails(h, k)
       PROVE  M!Fail(h)
  BY <1>3, <1>10 DEF ReadFails, ExistsFails, Fault, M!Fail
<1>11. CASE Crash
  <2>1. copyBar' = [g \in Handles |-> M!Empty]  BY <1>11 DEF Crash, copyBar, M!Empty
  <2> QED  BY <1>11, <2>1 DEF Crash, M!Crash, M!Next
<1>12. CASE UNCHANGED vars
  BY <1>3, <1>12 DEF vars, M!vars
<1>13. ASSUME NEW h \in Handles, Call(h) PROVE M!Step(h)
  BY <1>1, <1>2, <1>4, <1>5, <1>6, <1>7, <1>8, <1>9, <1>10, <1>13
     DEF Call, Write, Erase, M!Step
<1> QED  BY <1>11, <1>12, <1>13 DEF Next, M!Next

(* CTxDB implements the transactional map: whatever is written, erased and *)
(* read, by whomever, and wherever the disk fails or the process stops.    *)
THEOREM Refinement == Spec => ImplementsTxMap
<1>1. Spec => []IInv  BY InitInv, StepInv, PTL DEF Spec
<1>2. Init => M!Init  BY InitRefines
<1>3. IInv /\ [Next]_vars => [M!Next]_(M!vars)  BY StepRefines
<1> QED  BY <1>1, <1>2, <1>3, PTL DEF Spec, M!Spec, ImplementsTxMap
=============================================================================
