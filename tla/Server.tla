------------------------------- MODULE Server -------------------------------
(***************************************************************************)
(* The server: class Server (server/src/server.cpp), its lobbies and the   *)
(* Connection of each client (server/src/connection.cpp).  One io_context  *)
(* run by one thread executes every handler to completion, so an action    *)
(* is one handler with all the signals it raises; handlers interleave.     *)
(*                                                                         *)
(* The clients are there as far as they drive the server: a ConsoleClient  *)
(* answers each prompt with one message, whenever its user wants, or       *)
(* leaves.  A prompt takes effect when the server sends it: its delay on   *)
(* the way cannot be told from a delay of the answer in toServer.          *)
(*                                                                         *)
(* Connections are never destroyed once they have joined a lobby (the      *)
(* slots they give it hold shared_from_this, in spite of track_foreign)    *)
(* and their sockets are never closed: both facts are part of the model.   *)
(***************************************************************************)
EXTENDS GameLobby, Sequences

CONSTANTS
  MaxLobbies,      \* Server::maxLobbies
  FalseTimeouts    \* whether pings may time out for a client that is there

ASSUME ServerAssumption ==
  /\ MaxLobbies \in Nat \ {0}
  /\ FalseTimeouts \in BOOLEAN

VARIABLES
  accepting,          \* an async_accept is outstanding
  lobbies,            \* Server::lobbies
  playerQueue,        \* Server::playerQueue
  accepted,           \* connections passed to onConnectionAccepted
  id, lobby,          \* Connection::id and the index of Connection::lobby
  clientIsConnected, clientIsReady,
  reading,            \* an async_read is outstanding on the socket
  prompt,             \* what the client's user is asked for
  toServer,           \* messages of the client that are not read yet
  closed              \* the client has left

serverVars == <<accepting, lobbies, playerQueue>>
connVars == <<accepted, id, lobby, clientIsConnected, clientIsReady, reading>>
clientVars == <<prompt, toServer, closed>>
vars == <<serverVars, connVars, clientVars>>

NoLobby == 0
NoId == 0
Lobbies == DOMAIN lobbies

AttachedAnywhere(l) == {c \in accepted : lobby[c] # NoLobby}

\* Whom the signals of lobby l reach: every connection that ever joined it.
Attached(l) == {c \in accepted : lobby[c] = l}

CalledAll(l, i) == Attached(l)

\* The connections of lobby l that go by player id i.
Called(l, i) == {c \in Attached(l) : id[c] = i}

\* The prompts after "what" is sent to the connections in C: sendMessage sends
\* nothing for one that is disconnected, nobody reads it when the client left.
Told(C, what, connected) ==
  [c \in Connections |-> IF c \in C /\ connected[c] /\ ~ closed[c]
                         THEN what ELSE prompt[c]]

Init ==
  /\ accepting = TRUE
  /\ lobbies = <<>>
  /\ playerQueue = <<>>
  /\ accepted = {}
  /\ id = [c \in Connections |-> NoId]
  /\ lobby = [c \in Connections |-> NoLobby]
  /\ clientIsConnected = [c \in Connections |-> TRUE]
  /\ clientIsReady = [c \in Connections |-> FALSE]
  /\ reading = [c \in Connections |-> FALSE]
  /\ prompt = [c \in Connections |-> "none"]
  /\ toServer = [c \in Connections |-> <<>>]
  /\ closed = [c \in Connections |-> FALSE]
-----------------------------------------------------------------------------
(***************************************************************************)
(* Accepting a connection.                                                 *)
(***************************************************************************)

AvailableLobbiesAny == {l \in Lobbies : ~ lobbies[l].isPlayingGame}

AvailableLobbies == {l \in Lobbies : ~ IsFull(lobbies[l])}

\* c is given the first free seat of lobby l, its id, and the prompt of a
\* client that learns its id; "others" are the lobbies besides l.
Join(c, l, others) ==
  LET g == IF l \in DOMAIN others THEN others[l] ELSE NewLobby
      added == AddPlayer(g, c)
  IN  /\ lobbies' = IF l \in DOMAIN others THEN [others EXCEPT ![l] = added]
                                           ELSE Append(others, added)
      /\ IF CanAddPlayers(g)
         THEN /\ id' = [id EXCEPT ![c] = IF @ = NoId THEN NewId(g) ELSE @]
              /\ lobby' = [lobby EXCEPT ![c] = l]
         ELSE UNCHANGED <<id, lobby>>

\* c joins the first lobby with room, or a new one, or else the queue.
Accept(c) ==
  /\ accepting
  /\ c \notin accepted
  /\ accepted' = accepted \cup {c}
  /\ reading' = [reading EXCEPT ![c] = TRUE]
  /\ \/ /\ AvailableLobbies # {}
        /\ Join(c, FirstOf(AvailableLobbies), lobbies)
        /\ UNCHANGED playerQueue
     \/ /\ AvailableLobbies = {}
        /\ Len(lobbies) < MaxLobbies
        /\ Join(c, Len(lobbies) + 1, lobbies)
        /\ UNCHANGED playerQueue
     \/ /\ AvailableLobbies = {}
        /\ Len(lobbies) >= MaxLobbies
        /\ playerQueue' = Append(playerQueue, c)
        /\ UNCHANGED <<lobbies, id, lobby>>
  /\ prompt' = IF id'[c] # NoId THEN Told({c}, "ready", clientIsConnected) ELSE prompt
  /\ UNCHANGED <<accepting, clientIsConnected, clientIsReady, toServer, closed>>

\* A failed accept: the handler returns without waiting for the next one.
AcceptError ==
  /\ accepting
  /\ accepting' = FALSE
  /\ UNCHANGED <<lobbies, playerQueue, connVars, clientVars>>
-----------------------------------------------------------------------------
(***************************************************************************)
(* A connection ends.                                                      *)
(***************************************************************************)

OnDisconnect(c, l) ==
  LET g == lobbies[l]
      s == FirstOf(SeatsWithId(g, id, id[c]))
      wasReady == clientIsReady[g.players[s]]
      left == Release(g, s, wasReady)
      open == IF g.isPlayingGame THEN GameOver(left) ELSE left
      ended == IF g.isPlayingGame THEN Attached(l) ELSE {}
  IN  IF SeatsWithId(g, id, id[c]) = {}
      THEN UNCHANGED <<lobbies, playerQueue, id, lobby, clientIsReady, prompt>>
      ELSE /\ clientIsReady' = [d \in Connections |-> d \notin ended /\ clientIsReady[d]]
           /\ IF CanAddPlayers(open) /\ playerQueue # <<>>
              THEN /\ Join(Head(playerQueue), l, [lobbies EXCEPT ![l] = open])
                   /\ playerQueue' = Tail(playerQueue)
                   /\ prompt' = Told(ended \cup {Head(playerQueue)}, "ready", clientIsConnected')
              ELSE /\ lobbies' = [lobbies EXCEPT ![l] = open]
                   /\ prompt' = Told(ended, "ready", clientIsConnected')
                   /\ UNCHANGED <<playerQueue, id, lobby>>

HandleDisconnectAgain(c) ==
  /\ clientIsConnected' = [clientIsConnected EXCEPT ![c] = FALSE]
  /\ IF lobby[c] = NoLobby
     THEN UNCHANGED <<lobbies, playerQueue, id, lobby, clientIsReady, prompt>>
     ELSE OnDisconnect(c, lobby[c])

\* clientIsConnected makes a second report of the same end a no-op.  Only a
\* connection that joined a lobby has a slot on its disconnected signal.
HandleDisconnect(c) ==
  IF clientIsConnected[c]
  THEN /\ clientIsConnected' = [clientIsConnected EXCEPT ![c] = FALSE]
       /\ IF lobby[c] = NoLobby
          THEN UNCHANGED <<lobbies, playerQueue, id, lobby, clientIsReady, prompt>>
          ELSE OnDisconnect(c, lobby[c])
  ELSE UNCHANGED <<lobbies, playerQueue, id, lobby, clientIsConnected, clientIsReady, prompt>>

\* The read ends with eof, connection_aborted or connection_reset.  A reset
\* drops what the client still had under way.
ReadClosed(c) ==
  /\ reading[c]
  /\ closed[c]
  /\ HandleDisconnect(c)
  /\ reading' = [reading EXCEPT ![c] = FALSE]
  /\ toServer' = [toServer EXCEPT ![c] = <<>>]
  /\ UNCHANGED <<accepting, accepted, closed>>

\* The read ends with another error: nothing reads this socket any more.
ReadError(c) ==
  /\ reading[c]
  /\ reading' = [reading EXCEPT ![c] = FALSE]
  /\ UNCHANGED <<serverVars, accepted, id, lobby, clientIsConnected, clientIsReady, clientVars>>

\* The client of c cannot be heard any more: nothing reads its socket, or it
\* has left and all it sent has been read.
Unheard(c) == ~ reading[c] \/ (closed[c] /\ toServer[c] = <<>>)

PingTimeoutIfReading(c) ==
  /\ c \in accepted
  /\ clientIsConnected[c]
  /\ reading[c]
  /\ FalseTimeouts \/ Unheard(c)
  /\ HandleDisconnect(c)
  /\ UNCHANGED <<accepting, accepted, reading, toServer, closed>>

\* The fourth pong in a row is missed: the client is unheard, or (a false
\* timeout) its user kept it from answering, or its answers came too late.
PingTimeout(c) ==
  /\ c \in accepted
  /\ clientIsConnected[c]
  /\ FalseTimeouts \/ Unheard(c)
  /\ HandleDisconnect(c)
  /\ UNCHANGED <<accepting, accepted, reading, toServer, closed>>
-----------------------------------------------------------------------------
(***************************************************************************)
(* A message of the client is read.                                        *)
(***************************************************************************)

\* onReadSocket takes the next message of c and, while the client counts as
\* connected, reads on.
Reads(c, what) ==
  /\ reading[c]
  /\ toServer[c] # <<>> /\ Head(toServer[c]) = what
  /\ toServer' = [toServer EXCEPT ![c] = Tail(@)]
  /\ reading' = [reading EXCEPT ![c] = clientIsConnected[c]]

\* onReady counts messages, not connections: the seat it looks for is the one
\* that goes by the id of c.  The last of a full lobby starts the game.
ReadReady(c) ==
  LET l == lobby[c]
      g == lobbies[l]
      counted == CountReady(g)
  IN  /\ Reads(c, "ready")
      /\ clientIsReady' = [clientIsReady EXCEPT ![c] = TRUE]
      /\ IF SeatsWithId(g, id, id[c]) = {}
         THEN UNCHANGED <<lobbies, prompt>>
         ELSE IF CanStart(counted)
         THEN \E first \in 1 .. MaxPlayers :
                /\ lobbies' = [lobbies EXCEPT ![l] = StartGame(counted, first)]
                /\ prompt' = IF g.isPlayingGame THEN prompt
                             ELSE Told(Called(l, first), "turn", clientIsConnected)
         ELSE /\ lobbies' = [lobbies EXCEPT ![l] = counted]
              /\ UNCHANGED prompt
      /\ UNCHANGED <<accepting, playerQueue, accepted, id, lobby, clientIsConnected, closed>>

\* A turn outside a game, which the client does not repeat.
TurnRefused(c, l) ==
  /\ ~ lobbies[l].isPlayingGame
  /\ UNCHANGED <<lobbies, clientIsReady, prompt>>

\* A turn out of turn, or in a full column: the client asks its user again.
TurnRejected(c, l) ==
  /\ lobbies[l].isPlayingGame
  /\ prompt' = Told(Called(l, id[c]), "turn", clientIsConnected)
  /\ UNCHANGED <<lobbies, clientIsReady>>

\* The turn is accepted and the game goes on with the next player.
TurnAccepted(c, l) ==
  LET next == NextPlayer(id[c], MaxPlayers)
  IN  /\ lobbies[l].isPlayingGame
      /\ id[c] = lobbies[l].currentPlayer
      /\ lobbies' = [lobbies EXCEPT ![l].currentPlayer = next]
      /\ prompt' = Told(Called(l, next), "turn", clientIsConnected)
      /\ UNCHANGED clientIsReady

TurnEndsGameKeepsReady(c, l) ==
  /\ lobbies[l].isPlayingGame
  /\ id[c] = lobbies[l].currentPlayer
  /\ lobbies' = [lobbies EXCEPT ![l] = GameOver(@)]
  /\ prompt' = Told(Attached(l), "ready", clientIsConnected)
  /\ UNCHANGED clientIsReady

\* The turn is accepted and wins the game or fills the board.
TurnEndsGame(c, l) ==
  /\ lobbies[l].isPlayingGame
  /\ id[c] = lobbies[l].currentPlayer
  /\ lobbies' = [lobbies EXCEPT ![l] = GameOver(@)]
  /\ clientIsReady' = [d \in Connections |-> d \notin Attached(l) /\ clientIsReady[d]]
  /\ prompt' = Told(Attached(l), "ready", clientIsConnected)

ReadTurn(c) ==
  /\ Reads(c, "turn")
  /\ \/ TurnRefused(c, lobby[c])
     \/ TurnRejected(c, lobby[c])
     \/ TurnAccepted(c, lobby[c])
     \/ TurnEndsGame(c, lobby[c])
  /\ UNCHANGED <<accepting, playerQueue, accepted, id, lobby, clientIsConnected, closed>>
-----------------------------------------------------------------------------
\* The 30 s timer drops the queued connections known to have ended; those that
\* stay, at positions "at", keep their order.
UpdateQueuePositions ==
  LET alive == {i \in DOMAIN playerQueue : clientIsConnected[playerQueue[i]]}
  IN  \E n \in 0 .. Len(playerQueue) : \E at \in [1 .. n -> alive] :
        /\ \A i, j \in 1 .. n : i < j => at[i] < at[j]
        /\ \A k \in alive : \E i \in 1 .. n : at[i] = k
        /\ playerQueue' = [i \in 1 .. n |-> playerQueue[at[i]]]
        /\ UNCHANGED <<accepting, lobbies, connVars, clientVars>>

(***************************************************************************)
(* The client.                                                             *)
(***************************************************************************)

\* The user answers the prompt: "ready" or "rematch", or a column.
Answer(c) ==
  /\ prompt[c] # "none"
  /\ toServer' = [toServer EXCEPT ![c] = Append(@, prompt[c])]
  /\ prompt' = [prompt EXCEPT ![c] = "none"]
  /\ UNCHANGED <<serverVars, connVars, closed>>

\* The user quits, or the client's process or host fails.
Close(c) ==
  /\ c \in accepted
  /\ ~ closed[c]
  /\ closed' = [closed EXCEPT ![c] = TRUE]
  /\ prompt' = [prompt EXCEPT ![c] = "none"]
  /\ UNCHANGED <<serverVars, connVars, toServer>>
-----------------------------------------------------------------------------
Next ==
  \/ AcceptError
  \/ UpdateQueuePositions
  \/ \E c \in Connections :
       \/ Accept(c) \/ ReadClosed(c) \/ ReadError(c) \/ PingTimeout(c)
       \/ ReadReady(c) \/ ReadTurn(c)
       \/ Answer(c) \/ Close(c)

Spec == Init /\ [][Next]_vars

\* asio runs every handler that is ready; a client connects in the end.  Users
\* owe the server neither answers nor their presence.  The ping timer is set
\* again until its connection counts as disconnected.
Fairness ==
  \A c \in Connections :
    /\ WF_vars(Accept(c))
    /\ WF_vars(ReadClosed(c) \/ ReadReady(c) \/ ReadTurn(c))
    /\ WF_vars(Unheard(c) /\ PingTimeout(c))

FairSpec == Spec /\ Fairness
-----------------------------------------------------------------------------
(***************************************************************************)
(* Correctness.                                                            *)
(***************************************************************************)

TypeOK ==
  /\ accepting \in BOOLEAN
  /\ lobbies \in Seq(Lobby) /\ Len(lobbies) <= MaxLobbies
  /\ playerQueue \in Seq(Connections)
  /\ accepted \subseteq Connections
  /\ id \in [Connections -> 0 .. MaxPlayers]
  /\ lobby \in [Connections -> 0 .. Len(lobbies)]
  /\ clientIsConnected \in [Connections -> BOOLEAN]
  /\ clientIsReady \in [Connections -> BOOLEAN]
  /\ reading \in [Connections -> BOOLEAN]
  /\ prompt \in [Connections -> {"none", "ready", "turn"}]
  /\ toServer \in [Connections -> Seq({"ready", "turn"})]
  /\ closed \in [Connections -> BOOLEAN]

PlayersOf(l) == {lobbies[l].players[s] : s \in Occupied(lobbies[l])}

Queued(c) == \E i \in DOMAIN playerQueue : playerQueue[i] = c

\* The lobby finds its players by id: that names the right one only if the
\* connection in seat s of lobby l belongs to l and goes by id s + 1.  So no
\* connection has two seats, and onDisconnect never empties another's seat.
SeatsAreOwn ==
  \A l \in Lobbies : \A s \in Occupied(lobbies[l]) :
    LET c == lobbies[l].players[s]
    IN  c \in accepted /\ lobby[c] = l /\ id[c] = s + 1

\* numPlayers, kept beside the list of players, is the number of seats taken:
\* a lobby that is not full has a free seat, and getFirstAvailableId does not
\* run off the end of the list.
SeatCount ==
  \A l \in Lobbies : Counted(lobbies[l])

\* addPlayer returns without a word when the lobby takes no player; even so a
\* connection that was accepted and has not ended is always in one place,
\* a seat or the queue, and in the queue once.
NobodyIsLost ==
  /\ \A c \in accepted : clientIsConnected[c] =>
       (Queued(c) <=> \A l \in Lobbies : c \notin PlayersOf(l))
  /\ \A i, j \in DOMAIN playerQueue : playerQueue[i] = playerQueue[j] => i = j

\* Nobody waits while there is room: when anyone is queued every lobby exists
\* and is full.  So nobody who connects later can overtake the queue.
QueueOnlyWhenFull ==
  playerQueue # <<>> =>
    /\ Len(lobbies) = MaxLobbies
    /\ \A l \in Lobbies : IsFull(lobbies[l])

\* A game is played by a full lobby of connections that have not ended: the
\* end of one, seen at any time, ends the game in the same step.
PlayersArePresent ==
  \A l \in Lobbies : lobbies[l].isPlayingGame =>
    /\ IsFull(lobbies[l])
    /\ \A c \in PlayersOf(l) : clientIsConnected[c]

\* numReady counts ready messages, but it is always the number of seated players
\* that said they are ready since the last game, and a game is under way exactly
\* while they all are: it starts with the last ready, without another trigger.
ReadyIsExact ==
  \A l \in Lobbies :
    LET g == lobbies[l]
    IN  /\ g.numReady = Cardinality({c \in PlayersOf(l) : clientIsReady[c]})
        /\ g.isPlayingGame <=> g.numReady = MaxPlayers

Pending(c, what) ==
  {i \in DOMAIN toServer[c] : toServer[c][i] = what}
    \cup (IF prompt[c] = what THEN {0} ELSE {})

\* During a game one seated player is to move and, unless gone, has one turn to
\* make, shown to the user or sent; nobody else has any: no turn left over from an
\* earlier game or position is taken in this one, and wrongPlayer is never answered.
OneTurnAsked ==
  \A l \in Lobbies : lobbies[l].isPlayingGame =>
    \E mover \in PlayersOf(l) :
      /\ id[mover] = lobbies[l].currentPlayer
      /\ Cardinality(Pending(mover, "turn")) <= 1
      /\ closed[mover] \/ Pending(mover, "turn") # {}
      /\ \A c \in PlayersOf(l) \ {mover} : Pending(c, "turn") = {}

\* Between games every seated player that is still there and not ready has one
\* ready to give, shown to the user or sent: no lobby waits for a player that was
\* never asked, whatever order disconnects, games and the queue come in.
EveryoneIsAsked ==
  \A l \in Lobbies : ~ lobbies[l].isPlayingGame =>
    \A c \in PlayersOf(l) : clientIsConnected[c] /\ ~ closed[c] =>
      Cardinality(Pending(c, "ready")) = (IF clientIsReady[c] THEN 0 ELSE 1)

(***************************************************************************)
(* An inductive invariant, whether or not pings time out falsely: besides  *)
(* the properties above, what makes them last.                             *)
(***************************************************************************)

\* Every lobby is sound, and each of its seats is that of the connection in it;
\* stated of the state's four parts so that it can be stated of steps between.
LobbiesOK(ls, acc, i, lo) ==
  \A l \in DOMAIN ls :
    /\ LobbyOK(ls[l])
    /\ \A s \in Occupied(ls[l]) :
         LET c == ls[l].players[s] IN c \in acc /\ lo[c] = l /\ i[c] = s + 1

\* Who is queued, or not accepted yet, has no lobby and no id.
Unplaced(c) == lobby[c] = NoLobby /\ id[c] = NoId
QueueOK ==
  /\ \A k \in DOMAIN playerQueue : playerQueue[k] \in accepted /\ Unplaced(playerQueue[k])
  /\ \A c \in Connections \ accepted : Unplaced(c)

\* Only who has joined a lobby is ever asked, so nobody else sends anything.
OnlyPlayersAreAsked ==
  \A c \in Connections :
    prompt[c] # "none" \/ toServer[c] # <<>> => lobby[c] # NoLobby

IInv ==
  /\ TypeOK
  /\ LobbiesOK(lobbies, accepted, id, lobby)
  /\ QueueOK
  /\ OnlyPlayersAreAsked
  /\ NobodyIsLost
  /\ QueueOnlyWhenFull

(***************************************************************************)
(* An inductive invariant for what the lobbies play, where no ping times   *)
(* out falsely: where each player is in its exchange with the lobby.       *)
(***************************************************************************)

\* Nothing is asked of c, and nothing of it is under way.
Idle(c) == toServer[c] = <<>> /\ prompt[c] = "none"

\* c is to be ready: it is asked, unless it has left or has answered.  A turn it sent too
\* late for its last game may be before its answer.
IsToBeReady(c) ==
  /\ toServer[c] \in {<<>>, <<"turn">>, <<"ready">>, <<"turn", "ready">>}
  /\ prompt[c] = IF ~ closed[c] /\ toServer[c] \in {<<>>, <<"turn">>} THEN "ready" ELSE "none"

\* c is to move: it is asked, unless it has left or has answered.
IsToMove(c) ==
  /\ toServer[c] \in {<<>>, <<"turn">>}
  /\ prompt[c] = IF ~ closed[c] /\ toServer[c] = <<>> THEN "turn" ELSE "none"

\* Player c of lobby g is where the lobby has it.
InStep(c, g) ==
  IF g.isPlayingGame
  THEN IF id[c] = g.currentPlayer THEN IsToMove(c) ELSE Idle(c)
  ELSE IF clientIsReady[c] THEN Idle(c) ELSE IsToBeReady(c)

ReadyPlayers(l) == {c \in PlayersOf(l) : clientIsReady[c]}

LobbyInStep(l) ==
  /\ \A c \in PlayersOf(l) : IF clientIsConnected[c] THEN InStep(c, lobbies[l])
                                                     ELSE ~ clientIsReady[c]
  /\ lobbies[l].numReady = Cardinality(ReadyPlayers(l))
  /\ lobbies[l].isPlayingGame <=> lobbies[l].numReady = MaxPlayers
  /\ lobbies[l].isPlayingGame => lobbies[l].currentPlayer # NoPlayer

\* Who ended is not heard again, who left is not asked, who never joined is not ready.
ConnectionsInStep ==
  \A c \in Connections :
    /\ ~ clientIsConnected[c] => c \in accepted /\ Unheard(c)
    /\ reading[c] => c \in accepted
    /\ closed[c] => prompt[c] = "none"
    /\ lobby[c] = NoLobby => ~ clientIsReady[c]

PlayInv == ConnectionsInStep /\ \A l \in Lobbies : LobbyInStep(l)

(***************************************************************************)
(* What the server promises to those it brings together.                   *)
(***************************************************************************)

Matching == INSTANCE Matchmaking WITH
  arrived <- accepted,
  waiting <- playerQueue,
  seated  <- [l \in 1 .. MaxLobbies |-> IF l \in Lobbies THEN PlayersOf(l) ELSE {}],
  playing <- {l \in Lobbies : lobbies[l].isPlayingGame}

\* Whoever comes first is seated first, the next free seat is given away in the handler
\* that frees it, and a game keeps all its players to its end: across lobbies, the queue
\* and its timer, and whether or not ends of connections are seen late, or falsely.
ImplementsMatchmaking == Matching!Spec

Seated(c) == \E l \in Lobbies : c \in PlayersOf(l)

\* A client that leaves gives its seat up in the end, also one that was popped from the
\* queue after it left, and even when the read that would have told fails in a way the
\* server does not take for an end.  (The one that the server knew to have ended when it
\* popped it keeps its seat: FullMeansConnected of MCServer.)
SeatsAreFreed ==
  \A c \in Connections : (Seated(c) /\ closed[c] /\ clientIsConnected[c]) ~> ~ Seated(c)
=============================================================================
