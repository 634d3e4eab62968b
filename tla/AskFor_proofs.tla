---------------------------- MODULE AskFor_proofs -----------------------------
(***************************************************************************)
(* No announcement is given up, for any number of peers, whatever they do. *)
(***************************************************************************)
EXTENDS AskFor, TLAPS

(* What is held has arrived: otherwise an announcement might be ignored    *)
(* for a transaction that has not.                                         *)
HeldArrived == AlreadyHave => arrived

IInv == TypeOK /\ StillAsking /\ HeldArrived

(* At first nobody has announced anything. *)
LEMMA InitIInv == Init => IInv
<1> SUFFICES ASSUME Init PROVE IInv  OBVIOUS
<1>1. LongAgo \in LongAgo..MaxDelay  BY AskForAssumption DEF LongAgo
<1>2. arrived \in BOOLEAN  BY Zenon DEF Init
<1>3. TypeOK  BY <1>1, <1>2 DEF Init, TypeOK
<1> QED  BY <1>3 DEF Init, IInv, StillAsking, HeldArrived, AlreadyHave

(* The later of two times is one of them. *)
LEMMA LaterType ==
    ASSUME NEW i \in Int, NEW j \in Int
    PROVE  /\ Later(i, j) \in Int
           /\ Later(i, j) >= j
           /\ Later(i, j) >= i
           /\ Later(i, j) \in {i, j}
BY DEF Later

(* The types are kept by every step. *)
LEMMA TypeStep == TypeOK /\ [Next]_vars => TypeOK'
<1> SUFFICES ASSUME TypeOK, [Next]_vars PROVE TypeOK'  OBVIOUS
<1> USE AskForAssumption DEF TypeOK
<1>t. LongAgo \in Int /\ LongAgo < 0 /\ Retry \in Int  BY DEF LongAgo
<1>1. ASSUME NEW p \in Peers, Inv(p) PROVE TypeOK'
  <2>1. CASE AlreadyHave  BY <1>1, <2>1 DEF Inv, history
  <2>2. CASE ~ AlreadyHave
    <3> DEFINE t == Later(mapAlreadyAskedFor + Retry, 0)
    <3>1. mapAlreadyAskedFor + Retry \in Int  BY <1>t
    <3>2. t \in Int /\ t >= 0  BY <3>1, LaterType
    <3>3. t <= MaxDelay /\ mapAskFor' = [mapAskFor EXCEPT ![p] = t] /\ mapAlreadyAskedFor' = t
      BY <1>1, <2>2 DEF Inv, AskFor
    <3>4. t \in 0..MaxDelay /\ t \in LongAgo..MaxDelay  BY <3>2, <3>3, <1>t
    <3> HIDE DEF t
    <3> QED  BY <1>1, <3>3, <3>4 DEF Inv, history
  <2> QED  BY <2>1, <2>2
<1>2. ASSUME NEW p \in Peers, SendMessages(p) PROVE TypeOK'
  BY <1>2, <1>t DEF SendMessages, history
<1>3. ASSUME NEW p \in Peers, Disconnect(p) PROVE TypeOK'
  BY <1>3 DEF Disconnect, history
<1>4. ASSUME NEW p \in Peers, Connect(p) PROVE TypeOK'
  BY <1>4 DEF Connect, history
<1>5. ASSUME NEW p \in Peers, Tx(p) PROVE TypeOK'
  BY <1>5, <1>t DEF Tx, history
<1>6. CASE Evict  BY <1>6 DEF Evict, peerVars, history
<1>7. CASE Tick
  <2>1. ASSUME NEW p \in Peers, mapAskFor[p] # Nil
        PROVE  Later(mapAskFor[p] - 1, 0) \in 0..MaxDelay
    BY <2>1 DEF Later
  <2>2. Later(mapAlreadyAskedFor - 1, LongAgo) \in LongAgo..MaxDelay
    BY <1>t DEF Later
  <2> QED  BY <1>7, <2>1, <2>2 DEF Tick, peerVars
<1>8. CASE UNCHANGED vars  BY <1>8 DEF vars, peerVars, history
<1> QED  BY <1>1, <1>2, <1>3, <1>4, <1>5, <1>6, <1>7, <1>8 DEF Next

(* A peer leaves the asked and the planned only by disconnecting, or when  *)
(* the transaction arrives.                                                *)
LEMMA AskingStep == IInv /\ [Next]_vars => StillAsking' /\ HeldArrived'
<1> SUFFICES ASSUME IInv, [Next]_vars PROVE StillAsking' /\ HeldArrived'  OBVIOUS
<1> USE AskForAssumption DEF IInv, TypeOK, StillAsking, HeldArrived, AlreadyHave
<1>1. ASSUME NEW p \in Peers, Inv(p) PROVE StillAsking' /\ HeldArrived'
  <2>1. CASE AlreadyHave  BY <1>1, <2>1 DEF Inv, history
  <2>2. CASE ~ AlreadyHave
    <3> DEFINE t == Later(mapAlreadyAskedFor + Retry, 0)
    <3>1. mapAlreadyAskedFor + Retry \in Int  BY DEF LongAgo
    <3>2. t # Nil  BY <3>1, LaterType
    <3>3. mapAskFor' = [mapAskFor EXCEPT ![p] = t]  BY <1>1, <2>2 DEF Inv, AskFor
    <3> HIDE DEF t
    <3> QED  BY <1>1, <3>2, <3>3 DEF Inv, history
  <2> QED  BY <2>1, <2>2
<1>2. ASSUME NEW p \in Peers, SendMessages(p) PROVE StillAsking' /\ HeldArrived'
  BY <1>2 DEF SendMessages, history
<1>3. ASSUME NEW p \in Peers, Disconnect(p) PROVE StillAsking' /\ HeldArrived'
  BY <1>3 DEF Disconnect, history
<1>4. ASSUME NEW p \in Peers, Connect(p) PROVE StillAsking' /\ HeldArrived'
  BY <1>4 DEF Connect, history
<1>5. ASSUME NEW p \in Peers, Tx(p) PROVE StillAsking' /\ HeldArrived'
  BY <1>5 DEF Tx, history
<1>6. CASE Evict  BY <1>6 DEF Evict, peerVars, history
<1>7. CASE Tick
  <2>1. ASSUME NEW p \in Peers, mapAskFor[p] # Nil
        PROVE  Later(mapAskFor[p] - 1, 0) # Nil
    BY <2>1 DEF Later
  <2> QED  BY <1>7, <2>1 DEF Tick, peerVars
<1>8. CASE UNCHANGED vars  BY <1>8 DEF vars, peerVars, history
<1> QED  BY <1>1, <1>2, <1>3, <1>4, <1>5, <1>6, <1>7, <1>8 DEF Next

(* AskFor and SendMessages: while the transaction has not arrived, every   *)
(* peer that has announced it has been asked or will be.                   *)
THEOREM EveryAnnouncementCounts == Spec => []StillAsking
<1>1. IInv /\ [Next]_vars => IInv'  BY TypeStep, AskingStep DEF IInv
<1>2. IInv => StillAsking  BY DEF IInv
<1> QED  BY InitIInv, <1>1, <1>2, PTL DEF Spec
=============================================================================
