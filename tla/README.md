# Verification of the Four-Across game and its server

TLA+ models of the program in `src/`: the rules of the game, the lobbies, the
server, its connections and its queue, the messages between lobby and clients, and
the two threads of a client. TLC checks them on small instances. TLAPS proves, for
every number of clients, lobbies and seats, the invariants that hold the server
together and that it implements an abstract matchmaker; that the game names the
right winner on every board; that the clients' copies of a game never part from the
lobby's; and that the two threads of a client lose no prompt, no pong and no thread.
Every safety property that a run finds to hold is a theorem; liveness is model-checked.

## The system

| Part | Keeps | Does | Talks to |
|---|---|---|---|
| `Board` (game/src/board.cpp) | dimensions, columns, height of each column | drops disks, says what is full | called by `FourAcross` |
| `FourAcross` (game/src/game.cpp) | players, current player, turns, winner, board | `takeTurn`, `checkForWinner`, rotation | one per game in `GameLobby`, a copy in each `Client` |
| `GameLobby` (server/src/gamelobby.cpp) | list of seats, `numPlayers`, `numReady`, `isPlayingGame`, the game | adds and releases players, counts readies, starts, runs and ends games | slots on the connections' signals; signals `takeTurn`, `tookTurn`, `gameStarted`, `gameEnded` to the connections, `lobbyAvailable` to the server |
| `Connection` (server/src/connection.cpp) | socket, id, lobby, `clientIsConnected`, `clientIsReady`, ping state | reads and writes messages, pings | signals `disconnected`, `readied`, `tookTurn` to the lobby |
| `Server` (server/src/server.cpp) | lobbies, queue of connections | accepts, places in a lobby or the queue, drops ended connections from the queue | calls lobbies; is called back on `lobbyAvailable` |
| `Client` (client/src/client.cpp) | socket, id, copy of the game | handles messages, sends ready and turns, pongs | TCP to its `Connection` |
| `ConsoleClient`, `InputWorker` (client/src/consoleclient.cpp) | an input thread | prompts the user, starts and stops the thread | overrides the handlers of `Client` |
| messaging, signals-helper, type-utility, logging, `main` | – | message layout, signals, casts, output, start-up | |

What is hard here:

* **Interleaving.** One thread runs the server's `io_context`, so each handler runs
  to completion, with every signal it raises; but handlers of different clients
  interleave at will. A ready, a turn, a disconnect and a new connection may come
  in any order, and a message may be on its way while what it answers has ended.
* **Two copies of one fact.** `numPlayers` and the list of players, `numReady` and
  the flags `clientIsReady`, the game's current player and who was prompted, the
  seat of a player and its id.
* **Search by id.** `onReady` and `onDisconnect` look for *the seat whose player has
  this id*, not for the connection that called.
* **Ends.** The end of a connection is seen by its read or by the ping timer, both,
  or late; a read may fail in a way the server does not take for an end; a ping may
  time out for a client that is there, whose messages then go on being handled.
* **Silent returns.** `addPlayer` does nothing when the lobby takes nobody; a failed
  accept ends the accept loop.
* **Messages on their way.** A client keeps a copy of the game that it builds from
  messages, and dereferences it without asking whether it is there. A turn may be on
  its way to a lobby whose game has ended, and another begun, meanwhile.
* **Two threads in the client.** The input thread waits in `std::cin` and shares the
  socket, the context's stopped flag and `running` with the main thread, with no lock.
  The main thread joins it, and answers no ping until the join returns.
* **Timers.** Missed pongs are counted to four; queue positions are told every 30 s,
  and not always.
* **Arithmetic in eight bits**, in the rotation of the turn.

What makes each part correct: a game is won by exactly who has four in a row, turns
rotate fairly and the board fills exactly when it should (`FourAcross`); seats, ids
and counts agree, a game is played by a full lobby of present, ready players, and
one of them is asked to move (`GameLobby`, `Connection`); no client is lost, nobody
waits while there is room, is overtaken in the queue, or is told a better place than it
has (`Server`); a client's copy of the game is the lobby's, and its user decides on the
position that the turn is played in (`Client`); its threads are joined, its prompts
shown, its loss noticed, and it exits when it should (`ConsoleClient`, `Connection`).

## The modules

| Module | Models | State and actions |
|---|---|---|
| `TurnOrder` | ids, `noWinner`, `getNextPlayer` in eight bits | operators shared by game and lobby |
| `TurnGame` | abstract game: rotation, who can win, no move after the end | `Move` |
| `FourAcross` | `Board` and `FourAcross` | `numColumns` to `winner` are the data members; `AcceptedTurn`, `RejectedTurn` are `takeTurn`; `CheckForWinner` is `checkForWinner` |
| `GameLobby` | the data members of one lobby as a record, each member function as an operator | `AddPlayer`, `Release`, `CountReady`, `StartGame`, `GameOver`, ... |
| `Matchmaking` | abstract server: who has come, who waits, who is seated where, which lobbies play | `Arrive`, `Depart`, `Start`, `End`, `GiveUp` |
| `Server` | `Server`, its lobbies and their connections, the clients as far as they drive it | one action per handler, below; implements `Matchmaking` |
| `QueuePositions` | `Server` with `lastQueueSize` and what the queue was told | the actions of `Server`, with the notices they send |
| `Session` | one lobby, its connections and class `Client`, with every message on its way | below |
| `ConsoleClient` | one client process with both threads, and the pings of its `Connection` | below |
| `FourAcross_proofs`, `GameLobby_proofs`, `Server_proofs`, `Play_proofs`, `Matchmaking_proofs`, `QueuePositions_proofs`, `Session_proofs`, `ConsoleClient_proofs` | lemmas and theorems | |
| `MCFourAcross`, `MCServer`, `MCQueuePositions`, `MCSession`, `MCConsoleClient` | model values, bounds, and what comments say that the code does not do | |

`Server` and `Session` both stand on `GameLobby`. `Server` has many lobbies, the queue and
every way in which a connection ends, with prompts that take effect when they are sent;
`Session` has one lobby and puts the messages between. `ConsoleClient` goes the other way:
one client in full, and of the server only what can happen to it.

### Server

Each action is a whole handler with its signals.

| Action | Code |
|---|---|
| `Accept`, `AcceptError` | `Server::onConnectionAccepted`, with `addPlayer`, `setId`, `setGameLobby` |
| `ReadClosed` | a read ends with eof, aborted or reset: `handleDisconnect`, `GameLobby::onDisconnect`, and within it `onGameOver`, `lobbyAvailable`, `onLobbyAvailable`, `addPlayer` |
| `ReadError` | a read ends with any other error: nothing more is read |
| `PingTimeout` | the fourth missed pong: the same handler as above |
| `ReadReady` | `handleClientReady`, `GameLobby::onReady`, `startGame` |
| `ReadTurn` | `GameLobby::onTakeTurn`: refused, rejected, accepted, or ending the game |
| `UpdateQueuePositions` | the 30 s timer's `remove_if` |
| `Answer`, `Close` | the client: its user answers a prompt; it leaves or fails |

`OnDisconnect` follows the order of the code: the seat is emptied and the counts
follow, a game under way is over (which clears every ready flag of the lobby), and
then the queue's front is put in the seat, still within the same handler.

Facts of the code that the model keeps although they look like details:

* Slots are never disconnected. `track_foreign` is given, but the bound function holds
  `shared_from_this()` itself, so a connection lives as long as its lobby, and
  `Attached(l)` is everyone who *ever* joined: a released connection still has its
  flags cleared and could be prompted (but for `clientIsConnected`).
* `sendMessage` sends nothing to a connection known to have ended.
* `clientIsReady` is cleared at the end of a game only.
* After a ping timeout the outstanding read stays, and one more message is handled
  before `waitForMessages` declines to read on.

Left out of `Server`: pongs and the count of missed ones (`PingTimeout` is enabled when
the client cannot be heard, and always when `FalseTimeouts` is set; `ConsoleClient` shows
that both happen). The game within a lobby is its current player and, at each turn,
whether it ends, which is what `TurnGame` promises; the `games` run and
`GameRefinesTurnGame` show that `FourAcross` keeps that promise. `GameLobby` never opens or
closes after `makeNewLobby`, so `lobbyIsOpen` is left out. Construction in every lobby
uses `maxPlayers = 2`; it is a constant here.

`QueuePositions` adds what `addToQueue` and `updateQueuePositions` tell: the newcomer its
place at once, and every 30 s all of the queue, or nobody when the queue is
not small and its size has changed little. `SmallQueue` is the code's 10, which is written
there twice.

### Session

| Action | Code |
|---|---|
| `Arrive` | `addPlayer`, `setId`, and the `connected` message with the id |
| `ReadReady` | `onReady`, `startGame`: `gameStart` to all, then `takeTurn` to the first |
| `ReadTurn` | `onTakeTurn` and the connections' `onUpdate`, `onTurn`, `onGameEnded`: result to the mover, `update` to the others, then the next request or `gameEnd` |
| `ReadClosed` | `onDisconnect` with the game over |
| `HandleRead` | `Client::handleRead` and the handlers it calls |
| `Answer`, `Close` | the user: `toggleReady` or `sendTurn`; leaving |

A game is its number, the turns taken and the player to move. Its columns are left out:
what they decide (a turn is accepted, or ends the game) is decided once, by the lobby, and
the client follows the result. `seen` is no field of the code: it remembers which copy of
the game the user was looking at, for `TurnsAreCurrent`.

### ConsoleClient

| Action | Code |
|---|---|
| `ReadCompletes`, `HandleMessage` | the main thread: a read completes, `handleRead` and the overridden handlers up to a join |
| `HandleError` | `handleRead` with an error: `onDisconnect`, `InputWorker::stop` |
| `CheckSocket`, `UseSocket` | `if (socket)` and the use, in `sendPong` and `waitForMessages` |
| `Join` | `inputThread.join()` returns; `restart` starts the next |
| `RunReturns` | `ioContext.run()` returns and the client is destroyed |
| `Enter`, `Call`, `Loop` | the input thread: `std::cin`, the callback's choice, `while (running)` |
| `CheckSend`, `UseSend` | `sendMessage` from the input thread |
| `CloseSocket`, `ResetSocket`, `StopContext` | the three statements of `Client::stop` |
| `OthersStep`, `ReceiveReady`, `ReceiveTurn` | the lobby, as far as this client can tell |
| `ReceivePong`, `PingTimer`, `ReadClosed` | `Connection`: the pong in `onReadSocket`, `pingOnTimer`, the end of its read |
| `WireFails` | the network breaks without a word, or the server's process ends |

The steps are as fine as the accesses to what the threads share. A null socket
dereferenced, and a thread overwritten before it is joined, end the process; `crashed`
says so and stops the client's steps.

## The runs

| Run | Question | Instance |
|---|---|---|
| `games` | is the winner exactly who has a line; do disks stack, turns rotate, full boards end; is it a `TurnGame` | 5x4 board: all games of two players to ten turns; whole games (20 turns) of 2 and of 3 players filling columns from the left, at most two under way |
| `queue` | the invariants of the server with a queue, and what the queue is told | 4 clients, 1 lobby of 2, at most 3 of them leave or are not read any more; `SmallQueue = 2` |
| `lobbies` | do lobbies disturb each other; `PlayInv`; is it a `Matchmaking` | 4 clients, 2 lobbies of 2, at most 2 leave or are not read; a seat for everyone, so no queue |
| `ghosts` | seats and queue when pings time out falsely and accepts fail; `IInv`; is it still a `Matchmaking` | 3 clients, 1 lobby of 2, no bound |
| `fair` | is a departed client's seat freed | 3 clients, 1 lobby of 2, at most 2 leave or are not read, fairness, no symmetry |
| `session` | do the clients' copies follow the lobby's game; `SessionInv`; does a full lobby come to play | 3 clients, 1 lobby of 2, 2 games of up to 3 turns, fairness |
| `client` | threads, prompts, pings, exit; `DialogueInv` | one client, `MaxMissed = 3`, `MaxPings = 5`, all words, fairness |
| `deadseat`, `unready`, `served`, `socket`, `dropped` | where the code and its words part, below | as small |

Bounds, and why they are enough. The state of `Server` is finite without a bound:
clients answer each prompt once and a closed one does not come back. Four clients
with one lobby of two give two players and a queue of two, so that a seat is filled from
the queue, twice, while the other player is in any state, and the popped client may
have ended. Two lobbies need four clients to play both. `TwoFail` and `ThreeFail` bound how
many clients end, and have the accept loop go on; `ghosts` has neither bound. In `fair` the
bound of `TwoFail` is in the next-state relation (`FairTwoFail`): it cuts off failures, none of the steps that
fairness is about, and two failures are enough for a client to leave its seat and another to leave
while it is queued for that.
With `SmallQueue = 2` a queue of two is already one that is not always told.
`games` reaches turns enough for both players to have the disks for lines in
every direction, at edges and completed in the middle; `LeftToRight` trades the freedom of
the columns for length, up to full boards. In `session` the third client joins when one of the two
leaves, with messages of the first game still on their way to and from the other; two games are what
it takes to confuse one with the next, and three turns rotate past the first player again.
In `client`, misses end at the fourth, but a pong in between starts the count anew and leaves the older pings
to be answered: `MaxPings` bounds the pings under way when one more is sent. Four lie before a client that misses four pongs, and
a fifth lets a late pong be read with pings of before and after under way. Its server plays on for good.
`FalseTimeouts` is `FALSE` where a property is false otherwise; those are the findings below.
Symmetry is used in safety runs only: connections are interchangeable.

### Properties that hold

Of the game: `Stacked`; `WinnerHasTheLine`; `FairTurns`; `FullAfterEverySlot`;
`ImplementsTurnGame`.

Of the server:

* `SeatsAreOwn`: the connection in seat s of lobby l belongs to l and has id s + 1, so
  the search by id finds the right seat.
* `SeatCount`: `numPlayers` is the number of seats taken.
* `NobodyIsLost`: a connection that has not ended is in one seat or in the queue, once.
* `QueueOnlyWhenFull`: while anyone is queued, all lobbies exist and are full.
* `PlayersArePresent`: a game is played by a full lobby of connections that have not ended.
* `ReadyIsExact`: `numReady` is the number of seated players whose flag is set, and a
  game is under way exactly when that is all of them.
* `OneTurnAsked`: during a game the seated player to move has one turn to make, shown
  to its user or sent, and no other player has any, from this game or an earlier one.
* `EveryoneIsAsked`: between games each seated player that is there and not ready has
  exactly one ready to give.
* `ImplementsMatchmaking`: newcomers are seated only when nobody waits, wait only when there
  is no room, and the first who waits gets a seat in the step that frees it; a game
  starts with a full lobby and ends when one of its players departs.
* `NeverTooGood`: nobody in the queue was last told a better place than it now has, although
  notices are skipped and the queue shrinks and grows between them.
* `SeatsAreFreed` (liveness): a client that leaves gives up its seat in the end, unless the server
  knew that it had ended before it was seated. It holds for one that left while it was
  queued and is popped before that is noticed; for one that is popped after, it is false, which is
  the `deadseat` finding below.

Of lobby and clients (`Session`):

* `MessagesFit`: whatever is on its way to a client finds it as `handleRead` needs it: there is
  a game where it is dereferenced, and a turn told is the next in the copy.
* `CopyIsExact`: each player's copy, with what is on its way, is the lobby's game.
* `TurnsAreCurrent`: no turn is played in a position its user did not see.
* `FullLobbyPlays` (liveness): a full lobby whose players stay and answer comes to play.

Of one client (`ConsoleClient`):

* `ThreadIsAccountedFor`: the input thread is joined before the next starts, once, and
  before the client is gone, although `running` stays set when the thread ends by itself.
* `PromptIsShown`: once the client has handled all it was sent, its user is asked for
  what the server waits for, or the answer is on its way.
* `MissesAreUnderWay`: each miss that `missedPongs` counts is of a ping still under way, and so is the
  last one. Pongs carry no number, so a late one stands for any ping and starts the count anew; it
  may so hide a miss, but no miss is made up.
* `OnlyTheSilentAreDropped`: a client that is there is given up only with more than `MaxMissed` pings unanswered;
  and if threads and network had the time to do all but wait for the user, only in the join below.
* `LostIsNoticed`, `ClientEnds` (liveness): a broken wire is noticed; a client whose user
  quits or whose server ends comes to its end (or to the crash of `socket`).

The inductive invariants of the proofs are checked too, before they are proved: `IInv` (`ghosts`),
`PlayInv` (`lobbies`), `SessionInv` (`session`), `DialogueInv` (`client`).

Fairness. asio runs each ready handler in the end: weak fairness of a connection's
read handlers (as one: a socket has one outstanding read) and of accepting a client that
connects. The ping timer sets itself again while its connection counts as connected,
so `PingTimeout` of a client that cannot be heard is weakly fair. In `Server`, users owe
nothing: `Answer` and `Close` have no fairness, nor have failures. `FullLobbyPlays` is about
users who answer, so `Session` has weak fairness of `Answer`, and of `HandleRead`, which asio
runs. `ClientEnds` needs the user to enter something in the end (`Enter`), since the input
thread can be woken by nothing else; both threads are scheduled. The ping timer of
`ConsoleClient` sets itself again too, so `PingTimer` is weakly fair. It expires at any point of what the
client, its user and the network are at, as it does in the code: nothing is assumed of how long ten seconds
are. Only `dropped` assumes that they are long (`UnhurriedSpec`), so that what it finds does not
rest on a hurried timer.

### Where the code and its words part

| Run | Says | Does |
|---|---|---|
| `deadseat` | gamelobby.hpp:53: full means connected players | a connection that ended in the queue is given a seat and keeps it for good |
| `unready` | README.md:38: starts once both are ready | after a false ping timeout, the ready of the one who lost the seat counts for its next player |
| `served` | README.md:38: clients are put in a lobby or the queue | after one failed accept, never |
| `socket` | client.hpp:52: `stop` is useful to external threads | the main thread may have compared the socket with null and then use it after `reset` |
| `dropped` | connection.cpp:323: four missed pongs, the client is lost | a client whose main thread waits for its user in a join is there, and can be reached, however fast threads and network are |

More were met without a run of their own:

* board.hpp:21 says the constructor throws below 7x6; it accepts 5x4, its default.
* README.md:38 has players asked to be ready once there are two; they are asked on joining.
* gameEnd carries 0 for a full board and for a disconnect; consoleclient.cpp:67 tells
  the user of both that the opponent disconnected (README.md:40 knows draws).
* `isEmpty` (gamelobby.hpp:50, "true if no players are connected") asks for the length of
  the list of seats, which never is 0, and nothing calls it.
* "start process of closing connection" (gamelobby.cpp:134) closes nothing, since the
  read under way and the slots keep the connection. So a client that was given up is
  never told: it goes on waiting at an open socket.
* client.hpp:34 has the client receive queue position updates; with ten or more in the
  queue and a change of less than ten, nobody receives any.

## What is proved

| Module | Theorems |
|---|---|
| `FourAcross_proofs` | `TypeOK`, `Stacked`, `WinnerHasTheLine`, `FairTurns`, `FullAfterEverySlot`, `ImplementsTurnGame` |
| `GameLobby_proofs` | what the lobby's operators do |
| `Server_proofs` | `IInv`, and from it `TypeOK`, `SeatsAreOwn`, `SeatCount`, `NobodyIsLost`, `QueueOnlyWhenFull` |
| `Play_proofs` | without false timeouts `PlayInv`, and from it `PlayersArePresent`, `ReadyIsExact`, `OneTurnAsked`, `EveryoneIsAsked` |
| `Matchmaking_proofs` | `Spec => ImplementsMatchmaking` |
| `QueuePositions_proofs` | `PositionsSpec => Spec`, so all of the above again, and `NeverTooGood` |
| `Session_proofs` | `SessionInv`, and from it `TypeOK`, `MessagesFit`, `CopyIsExact`, `TurnsAreCurrent` |
| `ConsoleClient_proofs` | `TypeOK`, `ThreadIsAccountedFor`; `DialogueInv`, and from it `PromptIsShown`; `MissesAreUnderWay`, and from it `OnlyTheSilentAreDropped` |

**Seats and queue.** `Server_proofs` proves `Spec => []IInv` for every set of connections, every
`MaxLobbies >= 1`, every `MaxPlayers` in 2..254 and both values of `FalseTimeouts`. The
assumptions are `LobbyAssumption` and `ServerAssumption`: the ranges of these constants,
and that the empty pointer is not a connection. `maxPlayers` is a `uint8_t`; 255 is
left out because `CountReady` and the seats are then at the edge of eight bits, which no
lobby of the program gets near.

None of the five is inductive alone. `onDisconnect` empties the seat it finds by id, so
`SeatCount` needs `SeatsAreOwn`; that a free seat exists where `addPlayer` looks for one needs
`SeatCount`; that a popped connection has no id yet (`setId` ignores a second one, so its id
would not be its seat's) needs that whoever is queued has joined nothing, `QueueOK`;
that a message is read for a connection with a lobby (the code would call no slot otherwise)
needs `OnlyPlayersAreAsked`; that whoever is accepted finds a lobby that takes it needs that
a lobby which is not full is not playing, in `LobbyOK`; that `lobbyAvailable` leaves every lobby full
again needs `QueueOnlyWhenFull`. `IInv` is the conjunction of these. The proof has one
lemma per action. Two carry it: `JoinStep` (a new player gets a seat of its own and takes
nobody's) and `LeaveStep` (a seat is taken from its player and nobody else's), stated of
any lobbies so that `DisconnectStep` can apply them one after the other within a handler.
Steps that move nobody reduce to `QuietStep`. `GameLobby_proofs` has the lemmas about the lobby's
operators; the count of seats rests on the library's facts about finite sets.

**Play.** `Play_proofs` proves `~ FalseTimeouts => (Spec => []PlayInv)` on top of `IInv`, for the same
constants. The four properties count: messages against flags, prompts against turns. None
follows from the others or survives a handler by itself. `PlayInv` says where every player
is, one by one: `LobbyInStep`, that a lobby which plays is full of present, ready players of
whom only the one to move has anything to answer, and that one which does not play has
asked exactly those who are not ready; `ConnectionsInStep`, that who ended is not heard again, who
left is not asked, and who never joined is not ready. Since `PlayInv` speaks of each player by itself,
a handler that touches one lobby leaves it true of the rest; `numReady` is the one count left in it,
as the cardinality of the set of ready players. The hypothesis is needed: the `unready` run is
its counterexample.

**Matchmaking.** The refinement holds with false timeouts too. Each handler maps to one step
or none: `AcceptMatches`, `DisconnectMatches` (`Depart`, with the queue's front moving up in the
same step), `ReadReadyMatches` (`Start`), `ReadTurnMatches` (`End`), `TimerMatches` (`GiveUp`). It rests on `IInv`: that
the lobby `onConnectionAccepted` picks is one that nobody waits for is `QueueOnlyWhenFull`, that a lobby
with room is not playing is in `LobbyOK`, that the seat found by id is the departing one's is
`SeatsAreOwn`.

**The game.** `FourAcross_proofs` proves, for every board and number of players its
constructors accept (`ArgsAssumption`: the arguments are `uint8_t`): `TypeOK`, `Stacked`,
`WinnerHasTheLine`, and `Spec => ImplementsTurnGame`. `TypeOK` is inductive as it stands, and
`Stacked` and `WinnerHasTheLine` are with it. The argument for the winner is in three lemmas.
`ScansAreExact`: the two loops along a direction count four exactly when some four
slots through the last disk, wherever in the four it is, have one owner.
`NewLineIsThrough`: nobody had a line before the turn, so a line on the new board holds the
dropped slot. `ThroughIsLine`: four slots through a disk are a line on the board. The
refinement is step by step: an accepted turn is a `Move`, anything else a stutter.

**Turns and disks.** `FairTurns` and `FullAfterEverySlot` count, and hold by `CountInv`, in two parts:
`TurnsCounted`, that `numTurns` is the number of slots taken, and `RoundInv`, that there is a player
with whom the rounds begin, such that who had its turn in this round has one disk more than who has
not. From any first player and in eight bits, `getNextPlayer` keeps that. With `Stacked`, a
board whose columns are all full has no free slot, and one with a free slot has a column that is not.

**Queue positions.** A notice changes nothing of `Server` (`PositionsKeepTheServer`), so `IInv` holds. On it stands
`PositionsInv`, that a queued connection was told a place and has that or a better one: whoever is
popped or dropped leaves the rest in order, so nobody moves back (`IncreasingIsAbove`).

**The session.** `Session_proofs` proves `Spec => []SessionInv` for every set of connections, every
`MaxPlayers` that `LobbyAssumption` allows, and any bounds on games and turns. The properties speak of what a client
makes of its messages in the end, so the invariant has to say where each player is *with* what is on
its way. `Informed`: each client can handle, one after another, all it was sent, and knows its id
when it has. `InStep`: what a player is asked stands in a line, answers sent before the prompt shown before
the requests on their way, and that line is what the lobby waits for: one turn, chosen in a copy that is the game
(`IsToMove`); one ready, behind turns left from games that are over (`IsToBeReady`); or nothing (`Idle`). `Seating` and
`GameInStep` are the lobby's own part, `Outside` is about those who have not come or have gone.
`CopyIsExact` is a conjunct: it is needed for the next turn to fit all copies. That a turn left over is never
played in a later game follows from the line, since such a turn is read before the ready that starts it.

`Replayed` is a recursive function. That it is what it says at each index (`ReplayedStep`) and what becomes of it
when a message is appended or handled (`ReplayedPrefix`, `HandlesOneMore`, `HandlesTail`) is proved by induction over the
index. `NaturalInduction` is stated there of a set, not of a predicate, and proved from its least counterexample, since the
library's has an operator as parameter. Then each step of the lobby is taken player by player, and `Assemble` puts
`SessionInv` together again from that; a client's own step leaves everyone else's line alone (`OwnStep`).

**The input thread.** `ThreadIsAccountedFor` relates the thread to `running`, which is clear for
the length of a join; `ClientInv` adds that (a `restart` whose join returns must not find
`running` set), that a handler has a message to handle, and that nobody is given up with
fewer misses, which bounds `missedPongs`. `MaxMissed`, the words a user may enter and the bound `MaxPings` are arbitrary:
any behaviour of the code up to some moment is one of the model's with `MaxPings` large enough.

**Prompts and pings.** `DialogueInv` holds on top of `ClientInv`, as long as the client is there, the wire is up and the
socket is open; all three are for good once lost (`LiveStays`). `Dialogue` lists the eleven stages
that server, input thread and the messages both ways can be at together: a turn request may be on its way,
handled, answered, or overtaken by the end of its game at any point of that, in which case a turn that comes too late
may still be sent while the main thread waits in the join. Pings and pongs lie anywhere between: `Only`, `One` and `Two`
say what a channel holds beside them, and `NoiseChangesNothing` that one more or less changes none of that, so
that only steps that move another message change the stage (`DialogueGoesOn`). `HeadTells` and `HeadSays` read the stage off the
first message. `PromptIsShown` is what is left of the stages when the client has handled everything.

`MissesAreUnderWay` is inductive on top of `ClientInv` and does not need the stages. Every step of the client hands a ping from one
place to the next (`ClientKeepsPings`), and what players bring about leaves the pings alone (`ServerKeepsPings`). The timer adds a ping and at
most one miss (`TimerCounts`); it is where an answer that was read resets the count. When it gives the client up, `Pings` is
at least the count it has come to, so more than `MaxMissed`. If only the user is waited for, none
of these can be anywhere but before a main thread that does not read, which is the join: this is `OnlyTheSilentAreDropped`.

Only model-checked: the liveness properties (`SeatsAreFreed`, `FullLobbyPlays`, `LostIsNoticed`, `ClientEnds`), which
are out of the prover's reach, and the counterexamples of the five runs that find a violation.

## Not modelled

* The conversions in type-utility, logging, start-up (`main.cpp`), the build.
* The layout of messages. Two writes to one socket may be outstanding at once
  (connection.cpp:150); asio may then interleave their parts. Messages are 17 bytes, and whether
  a write of those is ever split depends on the socket's buffer. In the models messages are whole.
* The board's dimensions in `gameStart`, and the columns of a turn in `Session`.
* Printing, copying and moving of boards and games; what the user reads.
* `Client::connect` failing before there is a connection: the client then exits.
* `running` is atomic and `std::cin` is read by one thread at a time. The accesses to the
  socket are not synchronised; the models order them, each whole, which is the mildest outcome and
  already shows the crash of `socket`.

## Plan

All of the plan is done: the game and its proofs; lobbies, server and `IInv`; then the
pings, the client's threads, the session of messages, the queue's notices, the abstract matchmaker,
and the proofs of play, of the refinement, of the session and of the conversation. What remains would be
an abstract specification of a session (a lobby whose clients share one game) that `Session` is
proved to implement, as `Server` implements `Matchmaking`.
