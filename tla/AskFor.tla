-------------------------------- MODULE AskFor --------------------------------
(***************************************************************************)
(* The requests for one announced transaction (net.h, main.cpp).  Peers    *)
(* announce it; CNode::AskFor enters a request for it into mapAskFor of    *)
(* that peer, two minutes after the last one that mapAlreadyAskedFor knows *)
(* of; SendMessages sends a request once it is due, unless the transaction *)
(* has arrived meanwhile.  Peers may fail to answer, and may disconnect    *)
(* and come back.                                                          *)
(*                                                                         *)
(* Times are in minutes, relative to now.                                  *)
(***************************************************************************)
EXTENDS Integers

CONSTANTS
    Peers,
    Honest,         \* peers that answer a request while they are connected
    Retry,          \* minutes between two requests (2)
    MaxDelay,       \* bound on mapAlreadyAskedFor
    Prompt,         \* whether the message thread serves every peer in a minute
    Nil             \* no request

ASSUME AskForAssumption ==
    /\ Honest \subseteq Peers
    /\ Retry \in Nat \ {0}
    /\ MaxDelay \in Nat
    /\ Prompt \in BOOLEAN
    /\ Nil \notin Int

VARIABLES
    vNodes,                 \* connected peers
    setInventoryKnown,      \* peers that have announced it on this connection
    mapAskFor,              \* [Peers -> minutes until the request, or Nil]
    mapAlreadyAskedFor,     \* time of the last or the latest planned request
    requested,              \* connected peers that have been sent a request
    status,                 \* of the transaction: "missing", "orphan" or "pooled"
    arrived,                \* history: the transaction has once arrived
    quiet,                  \* history: minutes since the last request, up to Retry
    gap                     \* history: minutes between the last two, up to Retry

peerVars == <<vNodes, setInventoryKnown, requested>>
history == <<quiet, gap>>
vars == <<peerVars, mapAskFor, mapAlreadyAskedFor, status, arrived, history>>

AlreadyHave == status # "missing"

(* An item that mapAlreadyAskedFor does not hold counts as last asked for  *)
(* long ago.  Everything before Retry minutes ago is long ago.             *)
LongAgo == - Retry

Later(i, j) == IF i < j THEN j ELSE i

Init ==
    /\ vNodes = Peers
    /\ setInventoryKnown = {}
    /\ mapAskFor = [p \in Peers |-> Nil]
    /\ mapAlreadyAskedFor = LongAgo
    /\ requested = {}
    /\ status = "missing"
    /\ arrived = FALSE
    /\ quiet = Retry
    /\ gap = Retry

-----------------------------------------------------------------------------
(* Mutant: all peers' requests are put off. *)
AskFor_all(p) ==
    LET nRequestTime == Later(mapAlreadyAskedFor + Retry, 0)
    IN  /\ nRequestTime <= MaxDelay
        /\ mapAskFor' = [q \in Peers |-> IF q = p \/ mapAskFor[q] # Nil
                                         THEN nRequestTime ELSE Nil]
        /\ mapAlreadyAskedFor' = nRequestTime

(* CNode::AskFor, "Each retry is 2 minutes after the last" *)
AskFor(p) ==
    LET nRequestTime == Later(mapAlreadyAskedFor + Retry, 0)
    IN  /\ nRequestTime <= MaxDelay
        /\ mapAskFor' = [mapAskFor EXCEPT ![p] = nRequestTime]
        /\ mapAlreadyAskedFor' = nRequestTime

(* The peer announces it, once on a connection. *)
Inv(p) ==
    /\ p \in vNodes \ setInventoryKnown
    /\ setInventoryKnown' = setInventoryKnown \cup {p}
    /\ IF AlreadyHave THEN UNCHANGED <<mapAskFor, mapAlreadyAskedFor>> ELSE AskFor(p)
    /\ UNCHANGED <<vNodes, requested, status, arrived, history>>

(* Mutant: a request that is due after another peer has been asked is      *)
(* dropped.                                                                *)
SendMessages_drop(p) ==
    /\ p \in vNodes
    /\ mapAskFor[p] = 0
    /\ mapAskFor' = [mapAskFor EXCEPT ![p] = Nil]
    /\ IF AlreadyHave \/ requested # {}
       THEN UNCHANGED <<mapAlreadyAskedFor, requested, history>>
       ELSE /\ mapAlreadyAskedFor' = 0
            /\ requested' = requested \cup {p}
            /\ gap' = quiet
            /\ quiet' = 0
    /\ UNCHANGED <<vNodes, setInventoryKnown, status, arrived>>

(* SendMessages, once the request is due. *)
SendMessages(p) ==
    /\ p \in vNodes
    /\ mapAskFor[p] = 0
    /\ mapAskFor' = [mapAskFor EXCEPT ![p] = Nil]
    /\ IF AlreadyHave
       THEN UNCHANGED <<mapAlreadyAskedFor, requested, history>>
       ELSE /\ mapAlreadyAskedFor' = 0
            /\ requested' = requested \cup {p}
            /\ gap' = quiet
            /\ quiet' = 0
    /\ UNCHANGED <<vNodes, setInventoryKnown, status, arrived>>

(* The answer arrives: "tx".  A transaction that is accepted is forgotten  *)
(* in mapAlreadyAskedFor, an orphan or one that is refused is not.         *)
Tx(p) ==
    /\ p \in requested
    /\ requested' = requested \ {p}
    /\ IF status = "missing"
       THEN \/ status' = "pooled" /\ mapAlreadyAskedFor' = LongAgo
            \/ status' \in {"orphan", "missing"} /\ UNCHANGED mapAlreadyAskedFor
       ELSE UNCHANGED <<status, mapAlreadyAskedFor>>
    /\ arrived' = TRUE
    /\ UNCHANGED <<vNodes, setInventoryKnown, mapAskFor, history>>

(* LimitOrphanTxSize evicts it. *)
Evict ==
    /\ status = "orphan"
    /\ status' = "missing"
    /\ UNCHANGED <<peerVars, mapAskFor, mapAlreadyAskedFor, arrived, history>>

(* The CNode and its mapAskFor go; mapAlreadyAskedFor is shared and stays. *)
Disconnect(p) ==
    /\ p \in vNodes
    /\ vNodes' = vNodes \ {p}
    /\ setInventoryKnown' = setInventoryKnown \ {p}
    /\ requested' = requested \ {p}
    /\ mapAskFor' = [mapAskFor EXCEPT ![p] = Nil]
    /\ UNCHANGED <<mapAlreadyAskedFor, status, arrived, history>>

Connect(p) ==
    /\ p \notin vNodes
    /\ vNodes' = vNodes \cup {p}
    /\ UNCHANGED <<setInventoryKnown, requested, mapAskFor, mapAlreadyAskedFor, status, arrived, history>>

(* A minute passes. *)
Tick ==
    /\ Prompt => \A p \in vNodes : mapAskFor[p] # 0
    /\ mapAskFor' = [p \in Peers |-> IF mapAskFor[p] = Nil THEN Nil
                                     ELSE Later(mapAskFor[p] - 1, 0)]
    /\ mapAlreadyAskedFor' = Later(mapAlreadyAskedFor - 1, LongAgo)
    /\ quiet' = IF quiet < Retry THEN quiet + 1 ELSE Retry
    /\ UNCHANGED <<peerVars, status, arrived, gap>>

-----------------------------------------------------------------------------
Next ==
    \/ Evict
    \/ Tick
    \/ \E p \in Peers : \/ Inv(p) \/ SendMessages(p) \/ Disconnect(p) \/ Connect(p)
                        \/ p \in Honest /\ Tx(p)

Spec == Init /\ [][Next]_vars

(* Time passes, the message thread serves each peer, honest peers answer. *)
FairSpec ==
    /\ Spec
    /\ WF_vars(Tick)
    /\ \A p \in Peers : WF_vars(SendMessages(p))
    /\ \A p \in Honest : WF_vars(Tx(p))

-----------------------------------------------------------------------------
(* The types of the variables; a peer that is gone has no state. *)
TypeOK ==
    /\ vNodes \subseteq Peers
    /\ setInventoryKnown \subseteq vNodes
    /\ requested \subseteq vNodes
    /\ mapAskFor \in [Peers -> (0..MaxDelay) \cup {Nil}]
    /\ \A p \in Peers \ vNodes : mapAskFor[p] = Nil
    /\ mapAlreadyAskedFor \in LongAgo..MaxDelay
    /\ status \in {"missing", "orphan", "pooled"}
    /\ arrived \in BOOLEAN

(* AskFor and SendMessages: as long as the transaction has not arrived,    *)
(* every peer that has announced it has been asked or will be.  No         *)
(* announcement is given up because of what other peers do.                *)
StillAsking ==
    ~ arrived => \A p \in setInventoryKnown : mapAskFor[p] # Nil \/ p \in requested

(* Nor are requests put off for ever: while an honest peer that announced  *)
(* it stays connected, it arrives, however often others announce it,       *)
(* disconnect and come back, and whether they answer or not.               *)
Obtained ==
    \A p \in Honest : p \in setInventoryKnown /\ ~ arrived
                        ~> arrived \/ p \notin setInventoryKnown

(* AskFor, "Each retry is 2 minutes after the last": two requests for the  *)
(* same transaction are at least two minutes apart.                        *)
RetryInterval == gap = Retry
=============================================================================
