--------------------------- MODULE QueuePositions ---------------------------
(***************************************************************************)
(* What the clients in the queue are told of their place: addToQueue, and  *)
(* the whole of updateQueuePositions (server/src/server.cpp), which tells  *)
(* nobody anything when the queue is long and has changed little.          *)
(***************************************************************************)
EXTENDS Server

CONSTANT SmallQueue   \* the 10 of updateQueuePositions: queues shorter than that,
                      \* and changes that great, are always told

ASSUME PositionsAssumption == SmallQueue \in Nat \ {0}

VARIABLES
  lastQueueSize,   \* Server::lastQueueSize
  position         \* what each connection was last told by notifyQueuePosition

queueVars == <<lastQueueSize, position>>
allVars == <<vars, queueVars>>

NotTold == 0

PositionsInit ==
  /\ Init
  /\ lastQueueSize = 0
  /\ position = [c \in Connections |-> NotTold]

Difference(m, n) == IF m > n THEN m - n ELSE n - m

\* The places after a step in which those of the queue are told p; the place of who is
\* not in the queue any more is forgotten.
Tell(p) == position' = [c \in Connections |-> IF Queued(c)' THEN p[c] ELSE NotTold]

\* Who is appended to the queue is told its size; a seat is told otherwise.
AcceptAndTell(c) ==
  /\ Accept(c)
  /\ Tell([position EXCEPT ![c] = Len(playerQueue')])
  /\ UNCHANGED lastQueueSize

PlacesFromZero(q) == [c \in Connections |-> CHOOSE i \in 0 .. Len(q) - 1 : q[i + 1] = c]

\* The places in queue q, counted from 1.
Places(q) == [c \in Connections |-> CHOOSE i \in DOMAIN q : q[i] = c]

ShouldTell(size) ==
  size > 0 /\ (size < SmallQueue \/ Difference(size, lastQueueSize) >= SmallQueue)

\* updateQueuePositions.
UpdateAndTell ==
  /\ UpdateQueuePositions
  /\ Tell(IF ShouldTell(Len(playerQueue')) THEN Places(playerQueue') ELSE position)
  /\ lastQueueSize' = Len(playerQueue')

PositionsNext ==
  \/ UpdateAndTell
  \/ \E c \in Connections : AcceptAndTell(c)
  \/ /\ \/ AcceptError
        \/ \E c \in Connections :
             \/ ReadClosed(c) \/ ReadError(c) \/ PingTimeout(c)
             \/ ReadReady(c) \/ ReadTurn(c) \/ Answer(c) \/ Close(c)
     /\ Tell(position)
     /\ UNCHANGED lastQueueSize

PositionsSpec == PositionsInit /\ [][PositionsNext]_allVars
-----------------------------------------------------------------------------
\* Nobody in the queue has been told a better place than it has: whatever was told
\* before others came, left, or were popped, one only ever moves up from there.
NeverTooGood ==
  \A i \in DOMAIN playerQueue : LET c == playerQueue[i]
    IN  i <= position[c] /\ position[c] # NotTold
=============================================================================
