------------------------------ MODULE BlockSync ------------------------------
(***************************************************************************)
(* How nodes learn of each other's blocks (main.cpp, net.h, net.cpp):      *)
(* announcements ("inv"), requests ("getdata", "getblocks") and blocks, on *)
(* connections that deliver in order and may break at any time.            *)
(*                                                                         *)
(* Each node runs the same code.  Its message thread takes one message of  *)
(* one connection at a time (ProcessMessage) and sends what is due         *)
(* (SendMessages), both under cs_main.  All blocks are valid here: how a   *)
(* node decides on a block is the subject of BlockChain.  When a request   *)
(* that AskFor delays falls due is the subject of AskFor.                  *)
(*                                                                         *)
(* The chains differ by fewer blocks than the 144 and 2000 at which nodes  *)
(* stop asking or announcing, and than the 1000 inventory items that a     *)
(* message or setInventoryKnown hold.                                      *)
(***************************************************************************)
EXTENDS BlockTree, SequencesExt

CONSTANTS
    Nodes,
    Dials,              \* <<n, m>>: n opens connections to m
    Held,               \* [Nodes -> SUBSET Blocks]: the blocks held at first
    nLimit,             \* inventory items in the answer to getblocks (500)
    LocatorDense,       \* entries of a locator before its steps grow (10)
    nTime,              \* [Blocks -> Nat]: block times
    nStakeMinAge,
    Old,                \* blocks older than 8 hours: see IsInitialBlockDownload
    MaxDisconnects      \* bound on broken connections

ASSUME SyncAssumption ==
    /\ Dials \subseteq Nodes \X Nodes
    /\ \A n \in Nodes : ParentClosed(Held[n]) /\ Genesis \in Held[n]
    /\ nLimit \in Nat \ {0}
    /\ LocatorDense \in Nat \ {0}
    /\ MaxDisconnects \in Nat

VARIABLES
    mapBlockIndex,          \* [Nodes -> SUBSET Blocks]
    mapOrphanBlocks,        \* [Nodes -> SUBSET Blocks]
    pindexBest,             \* [Nodes -> Blocks]
    mapAlreadyAskedFor,     \* [Nodes -> SUBSET Blocks]: requests without an answer
    nAskedForBlocks,        \* the nodes that have once sent a getblocks at a start
    vNodes,                 \* pairs of connected nodes, both ways
    cnode,                  \* cnode[<<n, m>>]: the CNode of n for m
    wire,                   \* wire[<<n, m>>]: messages from n to m
    disconnects             \* history: broken connections

chainVars == <<mapBlockIndex, mapOrphanBlocks, pindexBest>>
vars == <<chainVars, mapAlreadyAskedFor, nAskedForBlocks, vNodes, cnode, wire, disconnects>>

Links == Nodes \X Nodes

Peers(n) == {m \in Nodes : <<n, m>> \in vNodes}

IsProofOfStake(b) == proofOfStake[b] # Nil

(* The constructor of CNode.  mapAskFor is split into the requests that    *)
(* are due and those that a former request of the same block delays.       *)
NewCNode ==
    [nVersion          |-> "none",
     setInventoryKnown |-> {},
     vInventoryToSend  |-> <<>>,
     hashContinue      |-> Nil,
     lastGetBlocks     |-> <<Nil, Nil>>,
     due               |-> <<>>,
     delayed           |-> <<>>]

Heaviest(S) == CHOOSE b \in S : \A a \in S : nChainTrust[a] <= nChainTrust[b]

Init ==
    /\ mapBlockIndex = Held
    /\ mapOrphanBlocks = [n \in Nodes |-> {}]
    /\ pindexBest = [n \in Nodes |-> Heaviest(Held[n])]
    /\ mapAlreadyAskedFor = [n \in Nodes |-> {}]
    /\ nAskedForBlocks = {}
    /\ vNodes = {}
    /\ cnode = [l \in Links |-> NewCNode]
    /\ wire = [l \in Links |-> <<>>]
    /\ disconnects = 0

-----------------------------------------------------------------------------
(*                  What a handler does to its connection                  *)

(* A handler works on its CNode, the messages it sends and the map of      *)
(* requests, gathered in one record.                                       *)
Local(n, m) == [cn |-> cnode[<<n, m>>], out |-> <<>>, asked |-> mapAlreadyAskedFor[n]]

AddInventoryKnown(c, b) == [c EXCEPT !.cn.setInventoryKnown = @ \cup {b}]

PushMessage(c, msg) == [c EXCEPT !.out = Append(@, msg)]

(* CNode::PushGetBlocks filters out a request that repeats the last one. *)
PushGetBlocks(c, begin, stop) ==
    IF c.cn.lastGetBlocks = <<begin, stop>>
    THEN c
    ELSE PushMessage([c EXCEPT !.cn.lastGetBlocks = <<begin, stop>>],
                     [type |-> "getblocks", begin |-> begin, stop |-> stop])

(* CNode::AskFor: a retry waits for two minutes after the last request. *)
AskFor(c, b) ==
    IF b \in c.asked
    THEN [c EXCEPT !.cn.delayed = Append(@, b)]
    ELSE [c EXCEPT !.cn.due = Append(@, b), !.asked = @ \cup {b}]

(* CNode::PushInventory *)
PushInventory(cn, b) ==
    IF b \in cn.setInventoryKnown
    THEN cn
    ELSE [cn EXCEPT !.vInventoryToSend = Append(@, b)]

PushAll(cn, s) == FoldLeft(PushInventory, cn, s)

-----------------------------------------------------------------------------
(*                         What a node knows                               *)

AlreadyHave(n, b) == b \in mapBlockIndex[n] \cup mapOrphanBlocks[n]

MainChain(n) == Branch[pindexBest[n]]

(* The blocks of a branch after the genesis block, in order. *)
BranchSeq[b \in Blocks] ==
    IF b = Genesis THEN <<>> ELSE Append(BranchSeq[hashPrevBlock[b]], b)

(* The first block of an orphan's chain of orphans: GetOrphanRoot. *)
OrphanRoot(orphans, b) ==
    CHOOSE r \in Branch[b] : /\ Branch[b] \ Branch[r] \subseteq orphans \cup {b}
                             /\ r \in orphans \cup {b}
                             /\ Parent(r) \notin orphans

(* CBlockLocator::Set: the block and its ancestors, in steps of one and    *)
(* then of 2, 4, 8..., and the genesis block.                              *)
Locator(begin) ==
    {a \in Branch[begin] :
        LET back == nHeight[begin] - nHeight[a]
        IN  \/ back <= LocatorDense
            \/ \E k \in 1..back : back = LocatorDense - 1 + 2^k
            \/ a = Genesis}

(* CBlockLocator::GetBlockIndex *)
LocatorIndex(n, begin) ==
    CHOOSE a \in Locator(begin) \cap MainChain(n) :
        \A x \in Locator(begin) \cap MainChain(n) : nHeight[x] <= nHeight[a]

(* The blocks of the main chain after block a. *)
After(n, a) ==
    SubSeq(BranchSeq[pindexBest[n]], nHeight[a] + 1, nHeight[pindexBest[n]])

(* GetLastBlockIndex(pindexBest, false) *)
LastProofOfWork(n) ==
    CHOOSE b \in MainChain(n) :
        /\ ~ IsProofOfStake(b) \/ b = Genesis
        /\ \A x \in MainChain(n) : nHeight[x] > nHeight[b] => IsProofOfStake(x)

(* IsInitialBlockDownload is true for 15 seconds after an old block has    *)
(* become the best; whether they have passed is left open.                 *)
InitialBlockDownload(n) == IF pindexBest[n] \in Old THEN BOOLEAN ELSE {FALSE}

-----------------------------------------------------------------------------
(*                              Connections                                *)

Version(n) == [type |-> "version", nStartingHeight |-> nHeight[pindexBest[n]]]

(* ConnectNode of n and the accept of m; the side that connects sends its  *)
(* version at once.                                                        *)
Connect(n, m) ==
    /\ <<n, m>> \in Dials
    /\ <<n, m>> \notin vNodes
    /\ vNodes' = vNodes \cup {<<n, m>>, <<m, n>>}
    /\ cnode' = [cnode EXCEPT ![<<n, m>>] = [NewCNode EXCEPT !.nVersion = "outbound"],
                              ![<<m, n>>] = [NewCNode EXCEPT !.nVersion = "inbound"]]
    /\ wire' = [wire EXCEPT ![<<n, m>>] = <<Version(n)>>, ![<<m, n>>] = <<>>]
    /\ UNCHANGED <<chainVars, mapAlreadyAskedFor, nAskedForBlocks, disconnects>>

(* Mutant: the side that did not connect keeps its CNode. *)
Disconnect_kept(n, m) ==
    /\ <<n, m>> \in Dials
    /\ <<n, m>> \in vNodes
    /\ disconnects < MaxDisconnects
    /\ disconnects' = disconnects + 1
    /\ vNodes' = vNodes \ {<<n, m>>, <<m, n>>}
    /\ cnode' = [cnode EXCEPT ![<<n, m>>] = NewCNode]
    /\ wire' = [wire EXCEPT ![<<n, m>>] = <<>>, ![<<m, n>>] = <<>>]
    /\ UNCHANGED <<chainVars, mapAlreadyAskedFor, nAskedForBlocks>>

(* The connection breaks: what is under way on it is lost, and so is all   *)
(* that either side remembers of the other.                                *)
Disconnect(n, m) ==
    /\ <<n, m>> \in Dials
    /\ <<n, m>> \in vNodes
    /\ disconnects < MaxDisconnects
    /\ disconnects' = disconnects + 1
    /\ vNodes' = vNodes \ {<<n, m>>, <<m, n>>}
    /\ cnode' = [cnode EXCEPT ![<<n, m>>] = NewCNode, ![<<m, n>>] = NewCNode]
    /\ wire' = [wire EXCEPT ![<<n, m>>] = <<>>, ![<<m, n>>] = <<>>]
    /\ UNCHANGED <<chainVars, mapAlreadyAskedFor, nAskedForBlocks>>

-----------------------------------------------------------------------------
(*                               Messages                                  *)

(* Node n has the first message from m, of some type, in hand. *)
Receives(n, m, type) ==
    /\ <<n, m>> \in vNodes
    /\ wire[<<m, n>>] # <<>>
    /\ Head(wire[<<m, n>>]).type = type

Message(n, m) == Head(wire[<<m, n>>])

(* The handler of n for m ends with c. *)
Ends(n, m, c) ==
    /\ wire' = [wire EXCEPT ![<<m, n>>] = Tail(@), ![<<n, m>>] = @ \o c.out]
    /\ mapAlreadyAskedFor' = [mapAlreadyAskedFor EXCEPT ![n] = c.asked]

(* "version": an inbound peer is answered with ours, and the first peer,   *)
(* or an only one, is asked for blocks.                                    *)
ReceiveVersion(n, m) ==
    /\ Receives(n, m, "version")
    /\ LET c  == Local(n, m)
           c1 == IF c.cn.nVersion = "inbound" THEN PushMessage(c, Version(n)) ELSE c
           c2 == [c1 EXCEPT !.cn.nVersion = "known"]
           asks == n \notin nAskedForBlocks \/ Cardinality(Peers(n)) <= 1
           c3 == IF asks THEN PushGetBlocks(c2, pindexBest[n], Nil) ELSE c2
       IN /\ Ends(n, m, c3)
          /\ cnode' = [cnode EXCEPT ![<<n, m>>] = c3.cn]
          /\ nAskedForBlocks' = IF asks THEN nAskedForBlocks \cup {n} ELSE nAskedForBlocks
    /\ UNCHANGED <<chainVars, vNodes, disconnects>>

(* One item of an "inv" message: a new block is asked for, an orphan makes *)
(* the node ask for what it lacks, and the last item, if it is known, for  *)
(* what follows it.                                                        *)
Announced(n, c, b, last) ==
    LET c1 == AddInventoryKnown(c, b)
    IN  CASE ~ AlreadyHave(n, b) -> AskFor(c1, b)
          [] b \in mapOrphanBlocks[n] ->
               PushGetBlocks(c1, pindexBest[n], OrphanRoot(mapOrphanBlocks[n], b))
          [] b \in mapBlockIndex[n] \ mapOrphanBlocks[n] /\ last -> PushGetBlocks(c1, b, Nil)
          [] OTHER -> c1

ReceiveInv(n, m) ==
    /\ Receives(n, m, "inv")
    /\ LET s == Message(n, m).blocks
           c == FoldLeftDomain(LAMBDA a, i : Announced(n, a, s[i], i = Len(s)), Local(n, m), s)
       IN /\ Ends(n, m, c)
          /\ cnode' = [cnode EXCEPT ![<<n, m>>] = c.cn]
    /\ UNCHANGED <<chainVars, nAskedForBlocks, vNodes, disconnects>>

(* "getblocks": the blocks after the last common one are announced, up to  *)
(* the one the peer has as an orphan, or to the limit.  At the former the  *)
(* best block is announced too, if it is young enough; the latter is       *)
(* remembered in hashContinue.                                             *)
Answer(n, cn, begin, stop) ==
    LET s      == After(n, LocatorIndex(n, begin))
        stops  == {i \in DOMAIN s : s[i] = stop}
        reach  == IF \E i \in stops : i <= nLimit THEN (CHOOSE i \in stops : TRUE) - 1
                                                   ELSE Min({nLimit, Len(s)})
        told   == PushAll(cn, SubSeq(s, 1, reach))
    IN  CASE reach < nLimit /\ \E i \in stops : i = reach + 1 ->
               IF stop # pindexBest[n] /\ nTime[stop] + nStakeMinAge > nTime[pindexBest[n]]
               THEN PushInventory(told, pindexBest[n]) ELSE told
          [] reach = nLimit -> [told EXCEPT !.hashContinue = s[reach]]
          [] OTHER -> told

ReceiveGetBlocks(n, m) ==
    /\ Receives(n, m, "getblocks")
    /\ LET msg == Message(n, m)
       IN  cnode' = [cnode EXCEPT ![<<n, m>>] = Answer(n, @, msg.begin, msg.stop)]
    /\ Ends(n, m, Local(n, m))
    /\ UNCHANGED <<chainVars, nAskedForBlocks, vNodes, disconnects>>

(* Mutant: the last block of a batch is sent as any other. *)
Requested_end(n, c, b) ==
    IF b \notin mapBlockIndex[n] THEN c ELSE PushMessage(c, [type |-> "block", block |-> b])

(* One item of "getdata": with the block that ended a batch of "getblocks" *)
(* comes the announcement of the last proof-of-work block, for the peer to *)
(* ask for the next batch.                                                 *)
Requested(n, c, b) ==
    LET c1 == PushMessage(c, [type |-> "block", block |-> b])
    IN  CASE b \notin mapBlockIndex[n] -> c
          [] b \in mapBlockIndex[n] /\ b = c.cn.hashContinue ->
               PushMessage([c1 EXCEPT !.cn.hashContinue = Nil],
                           [type |-> "inv", blocks |-> <<LastProofOfWork(n)>>])
          [] OTHER -> c1

ReceiveGetData(n, m) ==
    /\ Receives(n, m, "getdata")
    /\ LET c == FoldLeft(LAMBDA a, b : Requested(n, a, b), Local(n, m), Message(n, m).blocks)
       IN /\ Ends(n, m, c)
          /\ cnode' = [cnode EXCEPT ![<<n, m>>] = c.cn]
    /\ UNCHANGED <<chainVars, nAskedForBlocks, vNodes, disconnects>>

-----------------------------------------------------------------------------
(*                                Blocks                                   *)

(* The orphans that block b connects, directly or through each other, and  *)
(* b itself, in the order of the work queue of ProcessBlock.               *)
Unorphaned(n, b) ==
    SetToSortSeq({b} \cup {x \in mapOrphanBlocks[n] :
                             b \in Branch[x] /\ Branch[x] \ Branch[b] \subseteq mapOrphanBlocks[n]},
                 LAMBDA x, y : nHeight[x] < nHeight[y])

(* The best blocks one after the other while they are accepted. *)
BestBlocks(n, s) ==
    FoldLeft(LAMBDA h, x : IF nChainTrust[x] > nChainTrust[Last(h)] THEN Append(h, x) ELSE h,
             <<pindexBest[n]>>, s)

(* ProcessBlock and AcceptBlock for a block whose parent is indexed, and   *)
(* the announcement of each new best block to all peers; cn is what the    *)
(* handler has made of the CNodes.                                         *)
AcceptBlock(n, b, cn) ==
    LET s    == Unorphaned(n, b)
        best == BestBlocks(n, s)
    IN  /\ mapBlockIndex' = [mapBlockIndex EXCEPT ![n] = @ \cup ToSet(s)]
        /\ mapOrphanBlocks' = [mapOrphanBlocks EXCEPT ![n] = @ \ ToSet(s)]
        /\ pindexBest' = [pindexBest EXCEPT ![n] = Last(best)]
        /\ cnode' = [l \in Links |-> IF l \in vNodes /\ l[1] = n
                                     THEN PushAll(cn[l], Tail(best))
                                     ELSE cn[l]]

(* The CNodes while the handler of n for m has c. *)
With(n, m, c) == [cnode EXCEPT ![<<n, m>>] = c.cn]

Erased(c, b) == [c EXCEPT !.asked = @ \ {b}]

(* "block": one that is known already; *)
ReceiveKnownBlock(n, m) ==
    /\ Receives(n, m, "block")
    /\ AlreadyHave(n, Message(n, m).block)
    /\ LET c == AddInventoryKnown(Local(n, m), Message(n, m).block)
       IN  Ends(n, m, c) /\ cnode' = With(n, m, c)
    /\ UNCHANGED <<chainVars, nAskedForBlocks, vNodes, disconnects>>

(* one that connects; *)
ReceiveBlock(n, m) ==
    /\ Receives(n, m, "block")
    /\ LET b == Message(n, m).block
           c == AddInventoryKnown(Local(n, m), b)
       IN /\ ~ AlreadyHave(n, b)
          /\ hashPrevBlock[b] \in mapBlockIndex[n]
          /\ Ends(n, m, Erased(c, b))
          /\ AcceptBlock(n, b, With(n, m, c))
    /\ UNCHANGED <<nAskedForBlocks, vNodes, disconnects>>

(* Mutant: the peer is not asked for what an orphan lacks. *)
Orphaned_silent(n, c, b, download) == c

(* "Ask this guy to fill in what we're missing" *)
Orphaned(n, c, b, download) ==
    LET root == OrphanRoot(mapOrphanBlocks[n], b)
        c1   == PushGetBlocks(c, pindexBest[n], root)
    IN  IF download THEN c1 ELSE AskFor(c1, Parent(root))

(* and one whose parent is not known. *)
ReceiveOrphanBlock(n, m) ==
    /\ Receives(n, m, "block")
    /\ \E download \in InitialBlockDownload(n) :
          LET b == Message(n, m).block
              c == Orphaned(n, AddInventoryKnown(Local(n, m), b), b, download)
          IN /\ ~ AlreadyHave(n, b)
             /\ hashPrevBlock[b] \notin mapBlockIndex[n]
             /\ mapOrphanBlocks' = [mapOrphanBlocks EXCEPT ![n] = @ \cup {b}]
             /\ Ends(n, m, Erased(c, b))
             /\ cnode' = With(n, m, c)
    /\ UNCHANGED <<mapBlockIndex, pindexBest, nAskedForBlocks, vNodes, disconnects>>

(* A block found by the node itself (CheckWork, CheckStake). *)
NewBlock(n, b) ==
    /\ \A m \in Nodes : ~ AlreadyHave(m, b)
    /\ hashPrevBlock[b] = pindexBest[n]
    /\ AcceptBlock(n, b, cnode)
    /\ UNCHANGED <<mapAlreadyAskedFor, nAskedForBlocks, vNodes, wire, disconnects>>

-----------------------------------------------------------------------------
(*                             SendMessages                                *)

(* The items of a sequence that pass a test, without repetition. *)
Fresh(s, known) ==
    FoldLeft(LAMBDA r, b : IF b \in known \cup ToSet(r) THEN r ELSE Append(r, b), <<>>, s)

(* A message with a list of blocks, unless there are none. *)
Listing(type, s) == IF s = <<>> THEN <<>> ELSE <<[type |-> type, blocks |-> s]>>

SendMessages(n, m) ==
    LET cn       == cnode[<<n, m>>]
        vInv     == Fresh(cn.vInventoryToSend, cn.setInventoryKnown)
        vGetData == SelectSeq(cn.due, LAMBDA b : ~ AlreadyHave(n, b))
    IN  /\ <<n, m>> \in vNodes
        /\ cn.nVersion = "known"
        /\ cn.vInventoryToSend # <<>> \/ cn.due # <<>>
        /\ wire' = [wire EXCEPT ![<<n, m>>] = @ \o Listing("inv", vInv)
                                                 \o Listing("getdata", vGetData)]
        /\ cnode' = [cnode EXCEPT ![<<n, m>>].setInventoryKnown = @ \cup ToSet(vInv),
                                  ![<<n, m>>].vInventoryToSend = <<>>,
                                  ![<<n, m>>].due = <<>>]
        /\ mapAlreadyAskedFor' = [mapAlreadyAskedFor EXCEPT ![n] = @ \cup ToSet(vGetData)]
        /\ UNCHANGED <<chainVars, nAskedForBlocks, vNodes, disconnects>>

(* Mutant: a second request waits for the answer to the first. *)
FallsDue_answered(n, m) ==
    /\ cnode[<<n, m>>].delayed # <<>>
    /\ Head(cnode[<<n, m>>].delayed) \notin mapAlreadyAskedFor[n]
    /\ cnode' = [cnode EXCEPT ![<<n, m>>].due = Append(@, Head(cnode[<<n, m>>].delayed)),
                              ![<<n, m>>].delayed = Tail(@)]
    /\ UNCHANGED <<chainVars, mapAlreadyAskedFor, nAskedForBlocks, vNodes, wire, disconnects>>

(* Two minutes have passed: a delayed request falls due. *)
FallsDue(n, m) ==
    /\ cnode[<<n, m>>].delayed # <<>>
    /\ cnode' = [cnode EXCEPT ![<<n, m>>].due = Append(@, Head(cnode[<<n, m>>].delayed)),
                              ![<<n, m>>].delayed = Tail(@)]
    /\ UNCHANGED <<chainVars, mapAlreadyAskedFor, nAskedForBlocks, vNodes, wire, disconnects>>

-----------------------------------------------------------------------------
ProcessMessage(n, m) ==
    \/ ReceiveVersion(n, m) \/ ReceiveInv(n, m) \/ ReceiveGetBlocks(n, m)
    \/ ReceiveGetData(n, m) \/ ReceiveKnownBlock(n, m) \/ ReceiveBlock(n, m)
    \/ ReceiveOrphanBlock(n, m)

Next ==
    \/ \E n, m \in Nodes : \/ Connect(n, m) \/ Disconnect(n, m)
                           \/ ProcessMessage(n, m) \/ SendMessages(n, m) \/ FallsDue(n, m)
    \/ \E n \in Nodes, b \in Blocks \ {Genesis} : NewBlock(n, b)

Spec == Init /\ [][Next]_vars

(* The message thread goes round all connections, a broken one is opened   *)
(* again, and time passes.                                                 *)
FairSpec ==
    /\ Spec
    /\ \A n \in Nodes : \A m \in Nodes \ {n} :
          /\ WF_vars(ProcessMessage(n, m))
          /\ WF_vars(SendMessages(n, m))
          /\ WF_vars(FallsDue(n, m))
          /\ WF_vars(Connect(n, m))

-----------------------------------------------------------------------------
(*                             Properties                                  *)

(* The types of the variables. *)
TypeOK ==
    /\ mapBlockIndex \in [Nodes -> SUBSET Blocks]
    /\ mapOrphanBlocks \in [Nodes -> SUBSET Blocks]
    /\ pindexBest \in [Nodes -> Blocks]
    /\ mapAlreadyAskedFor \in [Nodes -> SUBSET Blocks]
    /\ nAskedForBlocks \subseteq Nodes
    /\ vNodes \subseteq Links
    /\ \A l \in Links \ vNodes : cnode[l] = NewCNode /\ wire[l] = <<>>

(* Nothing is under way on any connection, and every one is open. *)
Quiet ==
    /\ Dials \subseteq vNodes
    /\ \A l \in vNodes : /\ wire[l] = <<>>
                         /\ cnode[l].vInventoryToSend = <<>>
                         /\ cnode[l].due = <<>>
                         /\ cnode[l].delayed = <<>>

Synced == \A n, m \in Nodes : nChainTrust[pindexBest[n]] = nChainTrust[pindexBest[m]]

(* getblocks: "When this block is requested, we'll send an inv that'll     *)
(* make them getblocks the next batch of inventory."  Nodes fall silent    *)
(* only when they agree on the trust of the best chain.                    *)
SilentWhenSynced == Quiet => Synced

(* No orphan is left once nothing is under way: each one makes its node    *)
(* ask, until its ancestors have come.                                     *)
NoOrphanWhenQuiet == Quiet => \A n \in Nodes : mapOrphanBlocks[n] = {}

(* The nodes come to rest, and on chains of the same trust.  *)
EventuallySynced == <>[](Quiet /\ Synced)
=============================================================================
