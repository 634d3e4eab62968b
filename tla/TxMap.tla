-------------------------------- MODULE TxMap --------------------------------
(***************************************************************************)
(* What users of the block database rely on: a map, and transactions that  *)
(* work on a copy of it taken when they begin.  A transaction reads its    *)
(* copy, a user without one reads the map; a commit puts the copy in place *)
(* of the map, in one step or, when the disk fails, not at all.            *)
(***************************************************************************)
EXTENDS Naturals

CONSTANTS Handles, Keys, Values, Nil

VARIABLES map,      \* [Keys -> Values \cup {Nil}]
          open,     \* users with a transaction
          copy,     \* the map a user reads and writes
          result,   \* what the last call returned, and to whom
          errors    \* disk errors so far

Empty == [k \in Keys |-> Nil]

NoResult == [by |-> Nil, op |-> "none", key |-> Nil, val |-> Nil]

Seen(h) == IF h \in open THEN copy[h] ELSE map

Init ==
    /\ map \in [Keys -> Values \cup {Nil}]
    /\ open = {}
    /\ copy = [h \in Handles |-> Empty]
    /\ result = NoResult
    /\ errors = 0

Begin(h) ==
    /\ open = {}
    /\ open' = {h}
    /\ copy' = [copy EXCEPT ![h] = map]
    /\ result' = NoResult
    /\ UNCHANGED <<map, errors>>

(* A key gets a value, or Nil: it is erased. *)
Set(h, k, v) ==
    /\ open \subseteq {h}
    /\ IF h \in open
       THEN copy' = [copy EXCEPT ![h][k] = v] /\ UNCHANGED map
       ELSE map' = [map EXCEPT ![k] = v] /\ UNCHANGED copy
    /\ result' = NoResult
    /\ UNCHANGED <<open, errors>>

Get(h, k) ==
    /\ result' = [by |-> h, op |-> "Read", key |-> k, val |-> Seen(h)[k]]
    /\ UNCHANGED <<map, open, copy, errors>>

(* Nobody is told that a key is missing which is there; a key may seem to  *)
(* be there that the user's own transaction has erased.                    *)
Has(h, k) ==
    /\ \E v \in {"yes", "no"} :
          /\ Seen(h)[k] # Nil => v = "yes"
          /\ Seen(h)[k] = Nil /\ map[k] = Nil => v = "no"
          /\ result' = [by |-> h, op |-> "Exists", key |-> k, val |-> v]
    /\ UNCHANGED <<map, open, copy, errors>>

Close(h) == open' = open \ {h} /\ copy' = [copy EXCEPT ![h] = Empty]

Commit(h) ==
    /\ h \in open
    /\ Close(h)
    /\ map' = copy[h]
    /\ result' = NoResult
    /\ UNCHANGED errors

Abort(h) ==
    /\ h \in open
    /\ Close(h)
    /\ result' = NoResult
    /\ UNCHANGED <<map, errors>>

(* The disk fails.  A commit that fails ends its transaction; a read that  *)
(* fails looks like a key that is not there, a test like one that is.      *)
Fail(h) ==
    /\ errors' = errors + 1
    /\ UNCHANGED map
    /\ \/ h \in open /\ Close(h) /\ result' = NoResult
       \/ \E k \in Keys :
             /\ result' \in {[by |-> h, op |-> "Read", key |-> k, val |-> Nil],
                             [by |-> h, op |-> "Exists", key |-> k, val |-> "yes"]}
             /\ UNCHANGED <<open, copy>>
       \/ result' = NoResult /\ UNCHANGED <<open, copy>>

(* The process stops: all transactions are gone. *)
Crash ==
    /\ open' = {}
    /\ copy' = [h \in Handles |-> Empty]
    /\ result' = NoResult
    /\ UNCHANGED <<map, errors>>

Step(h) ==
    \/ Begin(h) \/ Commit(h) \/ Abort(h) \/ Fail(h)
    \/ \E k \in Keys : \/ \E v \in Values \cup {Nil} : Set(h, k, v)
                       \/ Get(h, k)
                       \/ Has(h, k)

Next == Crash \/ \E h \in Handles : Step(h)

vars == <<map, open, copy, result, errors>>

Spec == Init /\ [][Next]_vars
=============================================================================
