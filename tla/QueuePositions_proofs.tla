----------------------- MODULE QueuePositions_proofs ------------------------
(***************************************************************************)
(* Proof that the places told to the queue are never too good, for any     *)
(* number of clients and any threshold of updateQueuePositions; and that a *)
(* server that tells them is the one of Server, so that every theorem      *)
(* about that holds of this one.                                           *)
(***************************************************************************)
EXTENDS QueuePositions, Server_proofs

\* NeverTooGood, and that what was told is a number.
PositionsInv ==
  /\ DOMAIN position = Connections
  /\ \A i \in DOMAIN playerQueue :
       position[playerQueue[i]] \in Nat /\ i <= position[playerQueue[i]]

\* Whoever is the i-th of those that stay was the i-th or a later one before.
LEMMA IncreasingIsAbove ==
  ASSUME NEW n \in Nat, NEW at, \A i \in 1 .. n : at[i] \in Nat /\ at[i] >= 1,
         \A i, j \in 1 .. n : i < j => at[i] < at[j]
  PROVE  \A i \in 1 .. n : i <= at[i]
<1> DEFINE Below == {i \in 1 .. n : at[i] < i}
<1> SUFFICES ASSUME Below # {} PROVE FALSE
  OBVIOUS
<1>1. PICK m \in Below : \A y \in Below : m <= y
  <2>1. Below \in SUBSET Nat
    OBVIOUS
  <2> QED
    BY <2>1, FirstOfMember
<1>2. m \in 1 .. n /\ at[m] < m
  BY <1>1
<1>3. CASE m = 1
  BY <1>2, <1>3
<1>4. CASE m # 1
  <2>1. m - 1 \in 1 .. n /\ m - 1 < m
    BY <1>2, <1>4
  <2>2. m - 1 \notin Below
    BY <1>1, <1>2
  <2>3. m - 1 <= at[m - 1]
    BY <2>1, <2>2
  <2>4. at[m - 1] < at[m]
    BY <1>2, <2>1
  <2> QED
    BY <1>2, <2>1, <2>3, <2>4
<1> QED
  BY <1>3, <1>4

LEMMA PositionsStepIsServerStep ==
  ASSUME [PositionsNext]_allVars
  PROVE  [Next]_vars
BY DEF PositionsNext, Next, UpdateAndTell, AcceptAndTell, allVars

\* What the steps but those that tell places do to the queue.
LEMMA QueueKeptOrPopped ==
  ASSUME NEW c \in Connections,
         \/ AcceptError \/ ReadClosed(c) \/ ReadError(c) \/ PingTimeout(c)
         \/ ReadReady(c) \/ ReadTurn(c) \/ Answer(c) \/ Close(c)
  PROVE  playerQueue' = playerQueue \/ (playerQueue # <<>> /\ playerQueue' = Tail(playerQueue))
<1>1. CASE ReadClosed(c) \/ PingTimeout(c)
  BY <1>1 DEF ReadClosed, PingTimeout, HandleDisconnect, OnDisconnect
<1>2. CASE AcceptError \/ ReadError(c) \/ ReadReady(c) \/ ReadTurn(c) \/ Answer(c) \/ Close(c)
  BY <1>2 DEF AcceptError, ReadError, ReadReady, ReadTurn, Answer, Close, serverVars
<1> QED
  BY <1>1, <1>2

LEMMA ToldTheirPlaces ==
  ASSUME NEW p, Tell(p), playerQueue' \in Seq(Connections)
  PROVE  /\ DOMAIN position' = Connections
         /\ \A i \in DOMAIN playerQueue' : position'[playerQueue'[i]] = p[playerQueue'[i]]
<1>1. DOMAIN position' = Connections
  BY DEF Tell
<1>2. ASSUME NEW i \in DOMAIN playerQueue', NEW d \in Connections, d = playerQueue'[i]
      PROVE  position'[d] = p[d]
  BY <1>2 DEF Tell, Queued
<1> QED
  BY <1>1, <1>2

\* Nobody is told anything: who stays in the queue is where it was, or one place on.
LEMMA UntoldStep ==
  ASSUME TypeOK, TypeOK', PositionsInv, Tell(position),
         playerQueue' = playerQueue \/ (playerQueue # <<>> /\ playerQueue' = Tail(playerQueue))
  PROVE  PositionsInv'
<1>1. playerQueue \in Seq(Connections) /\ playerQueue' \in Seq(Connections)
  BY DEF TypeOK
<1>2. SUFFICES ASSUME NEW i \in DOMAIN playerQueue'
               PROVE  /\ position'[playerQueue'[i]] \in Nat
                      /\ i <= position'[playerQueue'[i]]
  BY ToldTheirPlaces, <1>1 DEF PositionsInv
<1>3. PICK k \in DOMAIN playerQueue : i <= k /\ k \in Nat /\ i \in Nat /\ playerQueue'[i] = playerQueue[k]
  <2>1. CASE playerQueue' = playerQueue
    BY <1>1, <1>2, <2>1
  <2>2. CASE playerQueue # <<>> /\ playerQueue' = Tail(playerQueue)
    <3>1. i \in 1 .. Len(playerQueue) - 1 /\ Len(playerQueue) \in Nat
          /\ playerQueue'[i] = playerQueue[i + 1]
      BY <1>1, <1>2, <2>2, QueueFacts
    <3>2. i + 1 \in DOMAIN playerQueue /\ i <= i + 1 /\ i + 1 \in Nat /\ i \in Nat
      BY <1>1, <3>1
    <3> QED
      BY <3>1, <3>2
  <2> QED
    BY <2>1, <2>2
<1>4. position'[playerQueue'[i]] = position[playerQueue[k]]
  BY <1>1, <1>2, <1>3, ToldTheirPlaces
<1> QED
  BY <1>3, <1>4 DEF PositionsInv

\* The one appended is told its place, the others keep theirs.
LEMMA AcceptTellStep ==
  ASSUME TypeOK, TypeOK', QueueOK, PositionsInv, NEW c \in Connections, AcceptAndTell(c)
  PROVE  PositionsInv'
<1>1. /\ playerQueue \in Seq(Connections)
      /\ playerQueue' \in Seq(Connections)
      /\ c \notin accepted
      /\ playerQueue' = playerQueue \/ playerQueue' = Append(playerQueue, c)
  BY DEF TypeOK, AcceptAndTell, Accept
<1>2. \A k \in DOMAIN playerQueue : playerQueue[k] \in Connections /\ playerQueue[k] # c
  BY <1>1 DEF QueueOK
<1>3. SUFFICES ASSUME NEW i \in DOMAIN playerQueue'
               PROVE  /\ position'[playerQueue'[i]] \in Nat
                      /\ i <= position'[playerQueue'[i]]
  BY ToldTheirPlaces, <1>1 DEF PositionsInv, AcceptAndTell
<1>4. position'[playerQueue'[i]] = [position EXCEPT ![c] = Len(playerQueue')][playerQueue'[i]]
  <2> DEFINE p == [position EXCEPT ![c] = Len(playerQueue')]
  <2>1. Tell(p)
    BY DEF AcceptAndTell
  <2> HIDE DEF p
  <2>2. position'[playerQueue'[i]] = p[playerQueue'[i]]
    BY <1>1, <1>3, <2>1, ToldTheirPlaces
  <2> QED
    BY <2>2 DEF p
<1>5. DOMAIN position = Connections
  BY DEF PositionsInv
<1>6. CASE i \in DOMAIN playerQueue
  <2>1. playerQueue'[i] = playerQueue[i]
    BY <1>1, <1>6
  <2>2. position'[playerQueue'[i]] = position[playerQueue[i]]
    BY <1>2, <1>4, <1>5, <1>6, <2>1
  <2> QED
    BY <1>6, <2>2 DEF PositionsInv
<1>7. CASE i \notin DOMAIN playerQueue
  <2>1. i = Len(playerQueue') /\ playerQueue'[i] = c /\ i \in Nat
    BY <1>1, <1>3, <1>7
  <2> QED
    BY <1>4, <1>5, <2>1
<1> QED
  BY <1>6, <1>7

\* The timer's update: who stays is told its place, or keeps one that was no better.
LEMMA UpdateTellStep ==
  ASSUME TypeOK, TypeOK', PositionsInv, NobodyIsLost', UpdateAndTell
  PROVE  PositionsInv'
<1> DEFINE alive == {i \in DOMAIN playerQueue : clientIsConnected[playerQueue[i]]}
<1>1. playerQueue \in Seq(Connections) /\ playerQueue' \in Seq(Connections)
  BY DEF TypeOK
<1>0. PICK n \in 0 .. Len(playerQueue) : \E at \in [1 .. n -> alive] :
        /\ \A i, j \in 1 .. n : i < j => at[i] < at[j]
        /\ playerQueue' = [i \in 1 .. n |-> playerQueue[at[i]]]
  BY DEF UpdateAndTell, UpdateQueuePositions
<1>2. PICK at \in [1 .. n -> alive] :
        /\ \A i, j \in 1 .. n : i < j => at[i] < at[j]
        /\ playerQueue' = [i \in 1 .. n |-> playerQueue[at[i]]]
  BY <1>0
<1>3. n \in Nat /\ \A i \in 1 .. n : at[i] \in DOMAIN playerQueue /\ at[i] \in Nat /\ at[i] >= 1
  BY <1>1, <1>2
<1>4. \A i \in 1 .. n : i <= at[i]
  BY <1>2, <1>3, IncreasingIsAbove
<1>5. SUFFICES ASSUME NEW i \in DOMAIN playerQueue'
               PROVE  /\ position'[playerQueue'[i]] \in Nat
                      /\ i <= position'[playerQueue'[i]]
  BY ToldTheirPlaces, <1>1 DEF PositionsInv, UpdateAndTell
<1>6. /\ i \in 1 .. n /\ DOMAIN playerQueue' = 1 .. n
      /\ playerQueue'[i] = playerQueue[at[i]]
      /\ playerQueue'[i] \in Connections
  BY <1>1, <1>2, <1>3, <1>5
<1>7. CASE ~ ShouldTell(Len(playerQueue'))
  <2>1. position'[playerQueue'[i]] = position[playerQueue[at[i]]]
    BY <1>1, <1>5, <1>6, <1>7, ToldTheirPlaces DEF UpdateAndTell
  <2>2. position[playerQueue[at[i]]] \in Nat /\ at[i] <= position[playerQueue[at[i]]]
    BY <1>3, <1>6 DEF PositionsInv
  <2> QED
    BY <1>3, <1>4, <1>6, <2>1, <2>2
<1>8. CASE ShouldTell(Len(playerQueue'))
  <2>1. position'[playerQueue'[i]] = CHOOSE j \in DOMAIN playerQueue' : playerQueue'[j] = playerQueue'[i]
    BY <1>1, <1>5, <1>6, <1>8, ToldTheirPlaces DEF UpdateAndTell, Places
  <2>2. \A j \in DOMAIN playerQueue' : playerQueue'[j] = playerQueue'[i] => j = i
    BY <1>5 DEF NobodyIsLost
  <2>3. position'[playerQueue'[i]] = i
    BY <1>5, <2>1, <2>2
  <2> QED
    BY <1>6, <2>3
<1> QED
  BY <1>7, <1>8

LEMMA PositionsStep ==
  ASSUME IInv, PositionsInv, [PositionsNext]_allVars
  PROVE  PositionsInv'
<1>1. TypeOK /\ TypeOK' /\ QueueOK /\ IInv'
  BY PositionsStepIsServerStep, NextStep DEF IInv
<1>2. CASE UpdateAndTell
  BY <1>1, <1>2, UpdateTellStep DEF IInv
<1>3. ASSUME NEW c \in Connections, AcceptAndTell(c)
      PROVE  PositionsInv'
  BY <1>1, <1>3, AcceptTellStep
<1>4. ASSUME Tell(position), NEW c \in Connections,
             \/ AcceptError \/ ReadClosed(c) \/ ReadError(c) \/ PingTimeout(c)
             \/ ReadReady(c) \/ ReadTurn(c) \/ Answer(c) \/ Close(c)
      PROVE  PositionsInv'
  BY <1>1, <1>4, QueueKeptOrPopped, UntoldStep
<1>5. ASSUME Tell(position), AcceptError
      PROVE  PositionsInv'
  <2>1. playerQueue' = playerQueue
    BY <1>5 DEF AcceptError
  <2> QED
    BY <1>1, <1>5, <2>1, UntoldStep
<1>6. CASE UNCHANGED allVars
  BY <1>6 DEF allVars, vars, serverVars, queueVars, PositionsInv
<1> QED
  BY <1>2, <1>3, <1>4, <1>5, <1>6 DEF PositionsNext
-----------------------------------------------------------------------------
\* Telling places does not disturb the server: with notifyQueuePosition it does what it
\* does without, so that all that is proved of Server holds here.
THEOREM PositionsKeepTheServer == PositionsSpec => Spec
<1>1. PositionsInit => Init
  BY DEF PositionsInit
<1>2. [PositionsNext]_allVars => [Next]_vars
  BY PositionsStepIsServerStep
<1> QED
  BY <1>1, <1>2, PTL DEF PositionsSpec, Spec

\* Whatever is told and not told to a long queue by updateQueuePositions, and whoever
\* came, left or was seated since, nobody has been told a better place than it has.
THEOREM NobodyIsToldTooGood == PositionsSpec => []NeverTooGood
<1>1. PositionsInit => PositionsInv
  BY DEF PositionsInit, Init, PositionsInv
<1>2. IInv /\ PositionsInv /\ [PositionsNext]_allVars => PositionsInv'
  BY PositionsStep
<1>3. IInv /\ PositionsInv => NeverTooGood
  BY DEF IInv, TypeOK, PositionsInv, NeverTooGood, NotTold
<1> QED
  BY <1>1, <1>2, <1>3, PositionsKeepTheServer, Inductive, PTL DEF PositionsSpec
=============================================================================
