------------------------------- MODULE Session -------------------------------
(***************************************************************************)
(* One lobby and its clients with the messages between them, in order:     *)
(* what GameLobby (server/src/gamelobby.cpp) signals, what each Connection *)
(* (server/src/connection.cpp) makes of it, and what class Client          *)
(* (client/src/client.cpp) does with each message: its player id, its copy *)
(* of the game and the prompts that ConsoleClient shows.                   *)
(*                                                                         *)
(* Server has the prompts take effect when they are sent; here they are on *)
(* their way, behind the messages before them.  A connection ends when its *)
(* client's end is read: failures to notice that are in Server, the pings  *)
(* are in ConsoleClient.                                                   *)
(*                                                                         *)
(* A game is its number, the turns taken and the player to move; columns   *)
(* are left out, since what they decide (is a turn accepted, does it end   *)
(* the game) is decided once, by the lobby.                                *)
(***************************************************************************)
EXTENDS GameLobby, Sequences

CONSTANTS
  MaxGames,   \* bound: games the lobby starts
  MaxTurns    \* turns after which the board is full

ASSUME SessionAssumption == MaxGames \in Nat /\ MaxTurns \in Nat \ {0}

VARIABLES
  g,                                     \* the lobby
  game,                                  \* GameLobby::game
  joined,                                \* connections that joined the lobby
  id, clientIsConnected, clientIsReady,  \* of each Connection
  toClient, toServer,                    \* messages not read yet
  playerId,                              \* Client::playerId
  copy,                                  \* Client::game
  prompt,                                \* what the client's user is asked for
  closed                                 \* the client has left

lobbyVars == <<g, game, joined>>
connVars == <<id, clientIsConnected, clientIsReady>>
clientVars == <<playerId, copy, prompt, closed>>
vars == <<lobbyVars, connVars, clientVars, toClient, toServer>>

NoId == 0

NewGame(no, first) == [no |-> no, turns |-> 0, current |-> first]

\* A null pointer to a game; of the lobby's games, "no" numbers those that were.
NoGame(no) == NewGame(no, NoPlayer)

Exists(copied) == copied.current # NoPlayer

\* A game after the turn of its current player.
Advance(position) ==
  [position EXCEPT !.turns = @ + 1, !.current = NextPlayer(@, MaxPlayers)]

Init ==
  /\ g = NewLobby
  /\ game = NoGame(0)
  /\ joined = {}
  /\ id = [c \in Connections |-> NoId]
  /\ clientIsConnected = [c \in Connections |-> TRUE]
  /\ clientIsReady = [c \in Connections |-> FALSE]
  /\ toClient = [c \in Connections |-> <<>>]
  /\ toServer = [c \in Connections |-> <<>>]
  /\ playerId = [c \in Connections |-> NoId]
  /\ copy = [c \in Connections |-> NoGame(0)]
  /\ prompt = [c \in Connections |-> "none"]
  /\ closed = [c \in Connections |-> FALSE]
-----------------------------------------------------------------------------
(***************************************************************************)
(* The lobby and its connections.  A message names its type, the player it *)
(* is about, and (of gameStart) the number of the game.                    *)
(***************************************************************************)

Message(type, player) == [type |-> type, player |-> player, no |-> 0]

\* The channels after each connection c of the lobby is sent the messages ms[c]:
\* sendMessage sends nothing to one that has ended, nobody reads what a client is
\* sent after it left.
Sent(ms) ==
  [c \in Connections |-> IF c \in joined' /\ clientIsConnected'[c] /\ ~ closed[c]
                         THEN toClient[c] \o ms[c] ELSE toClient[c]]

ToAll(m) == [c \in Connections |-> <<m>>]

\* onTurn: the one who goes by the id of the player to move is asked.
ToMover(player) ==
  [c \in Connections |-> IF id[c] = player THEN <<Message("takeTurn", player)>> ELSE <<>>]

ToldOthers(player) ==
  [c \in Connections |-> IF id[c] = player THEN <<>> ELSE <<Message("update", player)>>]

\* onUpdate, for an accepted turn: its player is told the result, the others the turn.
ToldTurn(player) ==
  [c \in Connections |-> <<Message(IF id[c] = player THEN "success" ELSE "update", player)>>]

\* onUpdate, for another result: only its player is told.
ToPlayer(type, player) ==
  [c \in Connections |-> IF id[c] = player THEN <<Message(type, player)>> ELSE <<>>]

ThenUnordered(ms, others) == [c \in Connections |-> others[c] \o ms[c]]

\* Two signals, one after the other.
Then(ms, others) == [c \in Connections |-> ms[c] \o others[c]]

GameStarted(no, first) ==
  Then(ToAll([Message("gameStart", first) EXCEPT !.no = no]), ToMover(first))

\* onConnectionAccepted, while the lobby has room: addPlayer and setId.
Arrive(c) ==
  /\ c \notin joined /\ ~ closed[c]
  /\ CanAddPlayers(g)
  /\ joined' = joined \cup {c}
  /\ g' = AddPlayer(g, c)
  /\ id' = [id EXCEPT ![c] = NewId(g)]
  /\ UNCHANGED <<game, clientIsConnected, clientIsReady, clientVars, toServer>>
  /\ toClient' = Sent([d \in Connections |->
                         IF d = c THEN <<Message("connected", NewId(g))>> ELSE <<>>])

EndGameUntold(lobbyThen, winner, told) ==
  /\ g' = GameOver(lobbyThen)
  /\ game' = NoGame(game.no)
  /\ clientIsReady' = [c \in Connections |-> c \notin joined /\ clientIsReady[c]]
  /\ toClient' = Sent(told)

\* onGameOver, the winner or 0 in the message; "told" was sent before it.
EndGame(lobbyThen, winner, told) ==
  /\ g' = GameOver(lobbyThen)
  /\ game' = NoGame(game.no)
  /\ clientIsReady' = [c \in Connections |-> c \notin joined /\ clientIsReady[c]]
  /\ toClient' = Sent(Then(told, ToAll(Message("gameEnd", winner))))

\* The read ends, since the client has left: what it sent last may be lost.
ReadClosed(c) ==
  /\ c \in joined /\ closed[c] /\ clientIsConnected[c]
  /\ clientIsConnected' = [clientIsConnected EXCEPT ![c] = FALSE]
  /\ toServer' = [toServer EXCEPT ![c] = <<>>]
  /\ UNCHANGED <<joined, id, clientVars>>
  /\ LET s == FirstOf(SeatsWithId(g, id, id[c]))
         left == Release(g, s, clientIsReady[g.players[s]])
     IN  IF g.isPlayingGame
         THEN EndGame(left, NoWinner, [d \in Connections |-> <<>>])
         ELSE g' = left /\ UNCHANGED <<game, clientIsReady, toClient>>

\* The next message of c is read, and is meant: it carries the id of c.
Reads(c, type) ==
  /\ c \in joined /\ clientIsConnected[c]
  /\ toServer[c] # <<>>
  /\ Head(toServer[c]).type = type /\ Head(toServer[c]).player = id[c]
  /\ toServer' = [toServer EXCEPT ![c] = Tail(@)]
  /\ UNCHANGED <<joined, id, clientIsConnected, clientVars>>

ReadReady(c) ==
  LET counted == CountReady(g)
  IN  /\ Reads(c, "ready")
      /\ clientIsReady' = [clientIsReady EXCEPT ![c] = TRUE]
      /\ IF CanStart(counted)
         THEN \E first \in 1 .. MaxPlayers :
                /\ game.no < MaxGames
                /\ g' = StartGame(counted, first)
                /\ game' = NewGame(game.no + 1, first)
                /\ toClient' = Sent(GameStarted(game.no + 1, first))
         ELSE g' = counted /\ UNCHANGED <<game, toClient>>

\* A turn outside a game.
TurnRefused(c) ==
  /\ ~ g.isPlayingGame
  /\ toClient' = Sent(ToPlayer("error", id[c]))
  /\ UNCHANGED <<g, game, clientIsReady>>

\* A turn out of turn, or in a full column.
TurnRejected(c) ==
  /\ g.isPlayingGame
  /\ toClient' = Sent(ToPlayer("rejected", id[c]))
  /\ UNCHANGED <<g, game, clientIsReady>>

TurnAccepted(c) ==
  LET next == Advance(game)
  IN  /\ g.isPlayingGame /\ id[c] = game.current
      /\ next.turns < MaxTurns
      /\ g' = [g EXCEPT !.currentPlayer = next.current]
      /\ game' = next
      /\ toClient' = Sent(Then(ToldTurn(id[c]), ToMover(next.current)))
      /\ UNCHANGED clientIsReady

\* The turn wins the game, or fills the board.
TurnEndsGame(c) ==
  /\ g.isPlayingGame /\ id[c] = game.current
  /\ \E winner \in {NoWinner, id[c]} :
       /\ winner = NoWinner => game.turns + 1 = MaxTurns
       /\ EndGame(g, winner, ToldTurn(id[c]))

ReadTurn(c) ==
  /\ Reads(c, "takeTurn")
  /\ TurnRefused(c) \/ TurnRejected(c) \/ TurnAccepted(c) \/ TurnEndsGame(c)
-----------------------------------------------------------------------------
(***************************************************************************)
(* The client.                                                             *)
(***************************************************************************)

\* FourAcross::takeTurn on a copy, which rejects the turn of who is not to move.
TakeTurn(copied, player) ==
  IF copied.current = player THEN Advance(copied) ELSE copied

ClientOf(c) == [playerId |-> playerId[c], copy |-> copy[c]]

\* What handleRead makes of message m: the client's id, its copy of the game ...
Learns(m, client) ==
  [playerId |-> IF m.type = "connected" THEN m.player ELSE client.playerId,
   copy |->
     CASE m.type = "gameStart" -> NewGame(m.no, m.player)
       [] m.type = "success" -> TakeTurn(client.copy, client.playerId)
       [] m.type = "update" -> TakeTurn(client.copy, m.player)
       [] OTHER -> client.copy]

\* ... and what its user is asked for.
Asks(m, mine, asked) ==
  CASE m.type \in {"connected", "gameEnd"} -> "ready"
    [] m.type = "rejected" \/ (m.type = "takeTurn" /\ m.player = mine) -> "turn"
    [] OTHER -> asked

HandleRead(c) ==
  /\ toClient[c] # <<>> /\ ~ closed[c]
  /\ LET new == Learns(Head(toClient[c]), ClientOf(c))
     IN  /\ playerId' = [playerId EXCEPT ![c] = new.playerId]
         /\ copy' = [copy EXCEPT ![c] = new.copy]
  /\ prompt' = [prompt EXCEPT ![c] = Asks(Head(toClient[c]), playerId[c], @)]
  /\ toClient' = [toClient EXCEPT ![c] = Tail(@)]
  /\ UNCHANGED <<lobbyVars, connVars, closed, toServer>>

\* toggleReady or sendTurn: the user answers, looking at the copy of the game.
Answer(c) ==
  /\ prompt[c] # "none"
  /\ prompt' = [prompt EXCEPT ![c] = "none"]
  /\ toServer' = [toServer EXCEPT ![c] =
       Append(@, [type |-> IF prompt[c] = "turn" THEN "takeTurn" ELSE "ready",
                  player |-> playerId[c], seen |-> copy[c]])]
  /\ UNCHANGED <<lobbyVars, connVars, playerId, copy, closed, toClient>>

Close(c) ==
  /\ c \in joined /\ ~ closed[c]
  /\ closed' = [closed EXCEPT ![c] = TRUE]
  /\ prompt' = [prompt EXCEPT ![c] = "none"]
  /\ toClient' = [toClient EXCEPT ![c] = <<>>]
  /\ UNCHANGED <<lobbyVars, connVars, playerId, copy, toServer>>
-----------------------------------------------------------------------------
Next ==
  \E c \in Connections :
    \/ Arrive(c) \/ ReadClosed(c) \/ ReadReady(c) \/ ReadTurn(c)
    \/ HandleRead(c) \/ Answer(c) \/ Close(c)

Spec == Init /\ [][Next]_vars

\* asio runs every handler that is ready; users who stay answer in the end.
Fairness ==
  \A c \in Connections :
    /\ WF_vars(ReadClosed(c) \/ ReadReady(c) \/ ReadTurn(c))
    /\ WF_vars(HandleRead(c)) /\ WF_vars(Answer(c))

FairSpec == Spec /\ Fairness
-----------------------------------------------------------------------------
(***************************************************************************)
(* Correctness.                                                            *)
(***************************************************************************)

Game == [no : 0 .. MaxGames, turns : 0 .. MaxTurns, current : 0 .. MaxPlayers]

MessageTypes == {"connected", "gameStart", "takeTurn", "success", "update",
                 "rejected", "error", "gameEnd"}
Messages == [type : MessageTypes, player : 0 .. MaxPlayers, no : 0 .. MaxGames]
Answers == [type : {"ready", "takeTurn"}, player : 1 .. MaxPlayers, seen : Game]

TypeOK ==
  /\ g \in Lobby
  /\ game \in Game
  /\ joined \subseteq Connections
  /\ id \in [Connections -> 0 .. MaxPlayers]
  /\ playerId \in [Connections -> 0 .. MaxPlayers]
  /\ clientIsConnected \in [Connections -> BOOLEAN]
  /\ clientIsReady \in [Connections -> BOOLEAN]
  /\ closed \in [Connections -> BOOLEAN]
  /\ prompt \in [Connections -> {"none", "ready", "turn"}]
  /\ copy \in [Connections -> Game]
  /\ toClient \in [Connections -> Seq(Messages)]
  /\ toServer \in [Connections -> Seq(Answers)]

PlayersOf == {g.players[s] : s \in Occupied(g)}

\* Message m finds the client as handleRead, which checks little of it, needs it: there
\* is a game to print or move in, the turn told is that of the copy's player to move,
\* and who is asked to move is on turn in its own copy.
Fits(m, client) ==
  CASE m.type = "update" ->
         Exists(client.copy) /\ client.copy.current = m.player /\ m.player # client.playerId
    [] m.type \in {"success", "takeTurn", "rejected"} ->
         Exists(client.copy) /\ client.copy.current = client.playerId /\ m.player = client.playerId
    [] OTHER -> TRUE

\* What a client is when it has handled the first i of the messages ms, for each i.
Replayed(client, ms) ==
  LET at[i \in 0 .. Len(ms)] == IF i = 0 THEN client ELSE Learns(ms[i], at[i - 1])
  IN  at

Replay(c) == Replayed(ClientOf(c), toClient[c])

\* The copy of c when it has handled all it was sent.
LastCopy(c) == Replay(c)[Len(toClient[c])].copy

\* "assume all turns sent to us from server are good" (client.cpp:308), and that there is
\* a game to take them in: whatever games, ends and players came before.
MessagesFit ==
  \A c \in Connections : \A i \in DOMAIN toClient[c] : Fits(toClient[c][i], Replay(c)[i - 1])

\* During a game the copy of each player, brought up to date by what is on its way, is
\* the lobby's game: the same turns taken, the same player to move, of the same game.
CopyIsExact ==
  g.isPlayingGame => \A c \in PlayersOf : ~ closed[c] => LastCopy(c) = game

\* A turn that reaches the lobby during a game was chosen by a user who saw the position
\* it is played in: none from an earlier position or game is played in this one.
TurnsAreCurrent ==
  g.isPlayingGame =>
    \A c \in PlayersOf : \A i \in DOMAIN toServer[c] :
      toServer[c][i].type = "takeTurn" /\ toServer[c][i].seen = game

\* A full lobby whose players stay and answer comes to play, however often it has
\* played or changed its players: each of them is asked, and each answer is counted.
FullLobbyPlays ==
  (IsFull(g) /\ ~ g.isPlayingGame /\ game.no < MaxGames)
    ~> (g.isPlayingGame \/ \E c \in PlayersOf : closed[c])

(***************************************************************************)
(* An inductive invariant: where each player is in its exchange with the   *)
(* lobby.  Its asks stand in a line: answers in toServer, then the prompt, *)
(* then the messages that ask in toClient.                                 *)
(***************************************************************************)

Client == [playerId : 0 .. MaxPlayers, copy : Game]

\* What handling the message will ask its user for.
AskedBy(m) ==
  CASE m.type \in {"connected", "gameEnd"} -> "ready"
    [] m.type \in {"rejected", "takeTurn"} -> "turn"
    [] OTHER -> "none"

AskedIn(ms, what) == {i \in DOMAIN ms : AskedBy(ms[i]) = what}

NothingIsSent(c) == AskedIn(toClient[c], "turn") = {} /\ AskedIn(toClient[c], "ready") = {}

OnlyTurns(c) == \A i \in DOMAIN toServer[c] : toServer[c][i].type = "takeTurn"

\* Nothing is asked of c, and nothing of it is under way.
Idle(c) == toServer[c] = <<>> /\ prompt[c] = "none" /\ NothingIsSent(c)

\* From its i-th message on the copy of c is the game.
SeesGame(c, i) == \A j \in i .. Len(toClient[c]) : Replay(c)[j].copy = game

\* c is to move: it has answered, is asked, or will be, and sees the game from then on.
IsToMove(c) ==
  \/ /\ Len(toServer[c]) = 1
     /\ toServer[c][1].type = "takeTurn" /\ toServer[c][1].seen = game
     /\ prompt[c] = "none" /\ NothingIsSent(c)
  \/ toServer[c] = <<>> /\ prompt[c] = "turn" /\ NothingIsSent(c) /\ SeesGame(c, 0)
  \/ /\ toServer[c] = <<>> /\ prompt[c] = "none" /\ AskedIn(toClient[c], "ready") = {}
     /\ \E k \in DOMAIN toClient[c] : AskedIn(toClient[c], "turn") = {k} /\ SeesGame(c, k)
  \/ closed[c] /\ toServer[c] = <<>>

\* c is to be ready: of all it is asked this is the last.  There may be turns before it, asked
\* or sent in games that are over.
IsToBeReady(c) ==
  \/ /\ \E n \in DOMAIN toServer[c] :
          /\ n = Len(toServer[c]) /\ toServer[c][n].type = "ready"
          /\ \A i \in 1 .. n - 1 : toServer[c][i].type = "takeTurn"
     /\ prompt[c] = "none" /\ NothingIsSent(c)
  \/ OnlyTurns(c) /\ prompt[c] = "ready" /\ NothingIsSent(c)
  \/ /\ OnlyTurns(c) /\ prompt[c] # "ready"
     /\ \E k \in DOMAIN toClient[c] :
          AskedIn(toClient[c], "ready") = {k} /\ \A j \in AskedIn(toClient[c], "turn") : j < k
  \/ closed[c] /\ OnlyTurns(c)

\* Player c is where the lobby has it.
InStep(c) ==
  IF g.isPlayingGame
  THEN IF id[c] = game.current THEN IsToMove(c) ELSE Idle(c)
  ELSE IF clientIsReady[c] THEN Idle(c) ELSE IsToBeReady(c)

\* The client can handle the messages ms, and goes by "me" as soon as it has handled one.
Handles(client, me, ms) ==
  /\ \A i \in 0 .. Len(ms) : Replayed(client, ms)[i] \in Client
  /\ \A i \in 1 .. Len(ms) : Replayed(client, ms)[i].playerId = me
  /\ \A i \in 1 .. Len(ms) : Fits(ms[i], Replayed(client, ms)[i - 1])

\* c can handle all that was sent to it, which tells it its id first of all.
Informed(c) ==
  /\ Handles(ClientOf(c), id[c], toClient[c])
  /\ closed[c] \/ playerId[c] = id[c] \/ (prompt[c] = "none" /\ toClient[c] # <<>>)
  /\ \A i \in DOMAIN toServer[c] : toServer[c][i].player = id[c]

\* The players are those who joined and have not been seen to leave, each in its seat.
Seating ==
  /\ LobbyOK(g)
  /\ \A s \in Occupied(g) :
       LET c == g.players[s] IN c \in joined /\ clientIsConnected[c] /\ id[c] = s + 1
  /\ \A c \in joined : clientIsConnected[c] =>
       id[c] \in 1 .. MaxPlayers /\ g.players[id[c] - 1] = c

ReadyPlayers == {c \in PlayersOf : clientIsReady[c]}

GameInStep ==
  /\ g.numReady = Cardinality(ReadyPlayers)
  /\ g.isPlayingGame <=> g.numReady = MaxPlayers
  /\ g.isPlayingGame <=> Exists(game)
  /\ g.isPlayingGame => g.currentPlayer = game.current /\ game.turns < MaxTurns

\* Who has not joined is not told anything and sends nothing, nor does who has left.
Outside(c) ==
  /\ c \notin joined => /\ id[c] = NoId /\ playerId[c] = NoId
                        /\ toClient[c] = <<>> /\ toServer[c] = <<>> /\ prompt[c] = "none"
                        /\ clientIsConnected[c] /\ ~ clientIsReady[c] /\ ~ closed[c]
  /\ ~ clientIsConnected[c] => closed[c] /\ toServer[c] = <<>>
  /\ closed[c] => prompt[c] = "none" /\ toClient[c] = <<>>

SessionInv ==
  /\ TypeOK
  /\ Seating
  /\ GameInStep
  /\ \A c \in Connections : Informed(c) /\ Outside(c)
  /\ \A c \in PlayersOf : InStep(c)
  /\ CopyIsExact
=============================================================================
