-------------------------------- MODULE TxDB ---------------------------------
(***************************************************************************)
(* CTxDB (txdb-leveldb.h, txdb-leveldb.cpp): transactions over a LevelDB   *)
(* store that has none.  A transaction is a WriteBatch, the sequence of    *)
(* the writes and deletes made since TxnBegin; reads look through it for   *)
(* the key before they go to the store.                                    *)
(*                                                                         *)
(* The store is shared by all CTxDB objects (handles) and each of them has *)
(* a batch of its own.  Whoever writes holds cs_main, so that there is at  *)
(* most one transaction and nobody else writes while it lasts; but objects *)
(* without a transaction read at any time.                                 *)
(***************************************************************************)
EXTENDS Naturals, Sequences

CONSTANTS Handles, Keys, Values,
          Nil,          \* no value
          MaxBatch,     \* bound on the length of a batch
          MaxFaults     \* bound on disk errors

ASSUME TxDBAssumption ==
    /\ Nil \notin Values
    /\ MaxBatch \in Nat
    /\ MaxFaults \in Nat

VARIABLES
    store,          \* LevelDB: [Keys -> Values \cup {Nil}]
    inTxn,          \* the handles whose activeBatch is not NULL
    activeBatch,    \* their batches; empty for other handles
    result,         \* what the last call of Read or Exists returned
    faults          \* history: disk errors

vars == <<store, inTxn, activeBatch, result, faults>>

(* An entry of a batch: Put, or Delete when the value is Nil. *)
Entries == [key : Keys, val : Values \cup {Nil}]

NoResult == [by |-> Nil, op |-> "none", key |-> Nil, val |-> Nil]

Init ==
    /\ store \in [Keys -> Values \cup {Nil}]
    /\ inTxn = {}
    /\ activeBatch = [h \in Handles |-> <<>>]
    /\ result = NoResult
    /\ faults = 0

-----------------------------------------------------------------------------
(*                          The scan of the batch                          *)

(* CBatchScanner: foundEntry *)
Found(s, k) == \E i \in DOMAIN s : s[i].key = k

(* CBatchScanner goes through the whole batch: of the entries for the key, *)
(* the last one counts.                                                    *)
LastEntry(s, k) ==
    CHOOSE i \in DOMAIN s :
        s[i].key = k /\ \A j \in DOMAIN s : s[j].key = k => j <= i

(* Mutant: the scan stops at the first entry for the key. *)
ScanBatch_first(s, k) ==
    s[CHOOSE i \in DOMAIN s :
        s[i].key = k /\ \A j \in DOMAIN s : s[j].key = k => i <= j].val

(* CTxDB::ScanBatch, when it returns true: the value, or Nil for deleted. *)
ScanBatch(s, k) == s[LastEntry(s, k)].val

(* LevelDB applies the entries of a batch in their order, in one step. *)
ApplyBatch(st, s) ==
    [k \in Keys |-> IF Found(s, k) THEN s[LastEntry(s, k)].val ELSE st[k]]

-----------------------------------------------------------------------------
(*                           The calls of CTxDB                            *)

(* Nobody else has a transaction: the caller holds cs_main. *)
HoldsMain(h) == inTxn \subseteq {h}

TxnBegin(h) ==
    /\ inTxn = {}
    /\ inTxn' = {h}
    /\ activeBatch' = [activeBatch EXCEPT ![h] = <<>>]
    /\ result' = NoResult
    /\ UNCHANGED <<store, faults>>

(* CTxDB::Write and, with v = Nil, CTxDB::Erase *)
Put(h, k, v) ==
    /\ HoldsMain(h)
    /\ IF h \in inTxn
       THEN /\ Len(activeBatch[h]) < MaxBatch
            /\ activeBatch' = [activeBatch EXCEPT ![h] = Append(@, [key |-> k, val |-> v])]
            /\ UNCHANGED store
       ELSE /\ store' = [store EXCEPT ![k] = v]
            /\ UNCHANGED activeBatch
    /\ result' = NoResult
    /\ UNCHANGED <<inTxn, faults>>

Write(h, k, v) == v \in Values /\ Put(h, k, v)

Erase(h, k) == Put(h, k, Nil)

(* CTxDB::Read: a key that the batch deletes is not looked up on disk. *)
ReadValue(h, k) ==
    IF h \in inTxn /\ Found(activeBatch[h], k)
    THEN ScanBatch(activeBatch[h], k)
    ELSE store[k]

Read(h, k) ==
    /\ result' = [by |-> h, op |-> "Read", key |-> k, val |-> ReadValue(h, k)]
    /\ UNCHANGED <<store, inTxn, activeBatch, faults>>

(* CTxDB::Exists: a key that the batch deletes is looked up on disk. *)
ExistsValue(h, k) ==
    IF \/ h \in inTxn /\ Found(activeBatch[h], k) /\ ScanBatch(activeBatch[h], k) # Nil
       \/ store[k] # Nil
    THEN "yes" ELSE "no"

Exists(h, k) ==
    /\ result' = [by |-> h, op |-> "Exists", key |-> k, val |-> ExistsValue(h, k)]
    /\ UNCHANGED <<store, inTxn, activeBatch, faults>>

(* TxnAbort, and the destructor: the batch is deleted. *)
DropBatch(h) ==
    /\ inTxn' = inTxn \ {h}
    /\ activeBatch' = [activeBatch EXCEPT ![h] = <<>>]
    /\ result' = NoResult

TxnCommit(h) ==
    /\ h \in inTxn
    /\ store' = ApplyBatch(store, activeBatch[h])
    /\ DropBatch(h)
    /\ UNCHANGED faults

TxnAbort(h) ==
    /\ h \in inTxn
    /\ DropBatch(h)
    /\ UNCHANGED <<store, faults>>

-----------------------------------------------------------------------------
(*                              Disk errors                                *)

Fault == faults < MaxFaults /\ faults' = faults + 1

(* TxnCommit when LevelDB reports an error: the batch is deleted as well. *)
TxnCommitFails(h) ==
    /\ h \in inTxn
    /\ Fault
    /\ DropBatch(h)
    /\ UNCHANGED store

(* Write or Erase without a batch. *)
PutFails(h) ==
    /\ inTxn = {}
    /\ Fault
    /\ result' = NoResult
    /\ UNCHANGED <<store, inTxn, activeBatch>>

(* Only a key that the batch does not settle is looked up on disk.  Read   *)
(* returns false, as it does for a key that is not there; Exists returns   *)
(* true for every status but "not found".                                  *)
ReadFails(h, k) ==
    /\ ~ (h \in inTxn /\ Found(activeBatch[h], k))
    /\ Fault
    /\ result' = [by |-> h, op |-> "Read", key |-> k, val |-> Nil]
    /\ UNCHANGED <<store, inTxn, activeBatch>>

ExistsFails(h, k) ==
    /\ ~ (h \in inTxn /\ Found(activeBatch[h], k) /\ ScanBatch(activeBatch[h], k) # Nil)
    /\ Fault
    /\ result' = [by |-> h, op |-> "Exists", key |-> k, val |-> "yes"]
    /\ UNCHANGED <<store, inTxn, activeBatch>>

(* The process stops. *)
Crash ==
    /\ inTxn' = {}
    /\ activeBatch' = [h \in Handles |-> <<>>]
    /\ result' = NoResult
    /\ UNCHANGED <<store, faults>>

-----------------------------------------------------------------------------
Call(h) ==
    \/ TxnBegin(h) \/ TxnCommit(h) \/ TxnAbort(h) \/ TxnCommitFails(h) \/ PutFails(h)
    \/ \E k \in Keys : \/ \E v \in Values : Write(h, k, v)
                       \/ Erase(h, k)
                       \/ Read(h, k) \/ ReadFails(h, k)
                       \/ Exists(h, k) \/ ExistsFails(h, k)

Next == Crash \/ \E h \in Handles : Call(h)

Spec == Init /\ [][Next]_vars

-----------------------------------------------------------------------------
(*                             Properties                                  *)

(* The types of the variables; there is at most one transaction, and a     *)
(* handle without one has no batch.                                        *)
TypeOK ==
    /\ store \in [Keys -> Values \cup {Nil}]
    /\ inTxn \subseteq Handles
    /\ \A g, h \in inTxn : g = h
    /\ activeBatch \in [Handles -> Seq(Entries)]
    /\ \A h \in Handles \ inTxn : activeBatch[h] = <<>>
    /\ faults \in Nat

(* The map a transaction works on, as its batch represents it. *)
copyBar == [h \in Handles |-> IF h \in inTxn
                              THEN ApplyBatch(store, activeBatch[h])
                              ELSE [k \in Keys |-> Nil]]

M == INSTANCE TxMap WITH map <- store, open <- inTxn, copy <- copyBar, errors <- faults

(* The batch with its scans behaves as a transactional map: reads of a     *)
(* transaction see all of its own writes and deletes, the last one for a   *)
(* key; nobody else sees any of them before the commit, which stores what  *)
(* the transaction has last read; failed commits, aborts and crashes leave *)
(* no trace.                                                               *)
ImplementsTxMap == M!Spec

(* ScanBatch, "the rest of the code assumes that once a database           *)
(* transaction begins reads are consistent with it": Exists and Read agree *)
(* about a key, unless the disk fails.                                     *)
ExistsConsistent ==
    result.op = "Exists" /\ faults = 0 =>
        (result.val = "yes" <=> ReadValue(result.by, result.key) # Nil)
=============================================================================
