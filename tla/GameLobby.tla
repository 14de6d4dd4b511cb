----------------------------- MODULE GameLobby ------------------------------
(***************************************************************************)
(* The state of one GameLobby (server/src/gamelobby.cpp) and what each of  *)
(* its members does to it, as operators from lobby to lobby.  The signals  *)
(* a member raises reach the connections and the server: Server composes   *)
(* them with these operators into whole handlers.                          *)
(*                                                                         *)
(* A lobby is started by makeNewLobby before anyone sees it, so            *)
(* lobbyIsOpen is always true here and is left out.  The game is kept as   *)
(* its currentPlayer, which is all the lobby lets depend on it (TurnGame); *)
(* NoPlayer when there is none.                                            *)
(***************************************************************************)
EXTENDS TurnOrder, FiniteSets

CONSTANTS
  Connections,   \* the connections clients may open
  Nobody,        \* an empty shared_ptr in the list of players
  MaxPlayers     \* GameLobby::maxPlayers

ASSUME LobbyAssumption ==
  /\ Nobody \notin Connections
  /\ MaxPlayers \in MinNumPlayers .. 254

NoPlayer == 0

\* Indices of the list of players; a player's id is its index plus one.
Seats == 0 .. MaxPlayers - 1

Lobby == [players       : [Seats -> Connections \cup {Nobody}],
          numPlayers    : 0 .. MaxPlayers,
          numReady      : UInt8,
          isPlayingGame : BOOLEAN,
          currentPlayer : 0 .. MaxPlayers]

NewLobby == [players       |-> [s \in Seats |-> Nobody],
             numPlayers    |-> 0,
             numReady      |-> 0,
             isPlayingGame |-> FALSE,
             currentPlayer |-> NoPlayer]

IsFull(g) == g.numPlayers = MaxPlayers

CanAddPlayers(g) == ~ g.isPlayingGame /\ ~ IsFull(g)

AllPlayersAreReady(g) == g.numReady = g.numPlayers

CanStartShort(g) == AllPlayersAreReady(g)

CanStart(g) == AllPlayersAreReady(g) /\ IsFull(g)

Occupied(g) == {s \in Seats : g.players[s] # Nobody}

FirstOf(S) == CHOOSE s \in S : \A t \in S : s <= t

FirstAvailableIdByCount(g) == g.numPlayers

FirstAvailableId(g) == FirstOf(Seats \ Occupied(g))

NewIdByCount(g) == g.numPlayers + 1

\* The id of the player who gets that seat.
NewId(g) == FirstAvailableId(g) + 1

\* The seats onReady and onDisconnect search for: those of players whose id
\* is i, whichever connection asks.
SeatsWithId(g, id, i) == {s \in Occupied(g) : id[g.players[s]] = i}

AddPlayer(g, c) ==
  IF CanAddPlayers(g)
  THEN [g EXCEPT !.players[FirstAvailableId(g)] = c, !.numPlayers = @ + 1]
  ELSE g

ReleaseKeepsReady(g, s, wasReady) ==
  [g EXCEPT !.players[s] = Nobody,
            !.numPlayers = IF @ > 0 THEN @ - 1 ELSE @]

\* onDisconnect's first half: the seat is emptied and the counts follow.
Release(g, s, wasReady) ==
  [g EXCEPT !.players[s] = Nobody,
            !.numPlayers = IF @ > 0 THEN @ - 1 ELSE @,
            !.numReady   = IF wasReady /\ @ > 0 THEN @ - 1 ELSE @]

GameOverKeepsPlaying(g) == [g EXCEPT !.numReady = 0, !.currentPlayer = NoPlayer]

GameOverKeepsReady(g) == [g EXCEPT !.isPlayingGame = FALSE, !.currentPlayer = NoPlayer]

GameOver(g) ==
  [g EXCEPT !.isPlayingGame = FALSE, !.numReady = 0, !.currentPlayer = NoPlayer]

CountReady(g) == [g EXCEPT !.numReady = (@ + 1) % 256]

StartGame(g, first) == [g EXCEPT !.isPlayingGame = TRUE, !.currentPlayer = first]

\* numPlayers is kept beside the list of players and should agree with it.
Counted(g) == g.numPlayers = Cardinality(Occupied(g))

\* A lobby whose count is right and whose games are only played when it is full.
LobbyOK(g) ==
  /\ g \in Lobby
  /\ Counted(g)
  /\ g.isPlayingGame => IsFull(g)
=============================================================================
