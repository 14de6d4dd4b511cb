--------------------------- MODULE ConsoleClient ---------------------------
(***************************************************************************)
(* One client process and the Connection the server keeps for it: class    *)
(* Client (client/src/client.cpp), ConsoleClient with its InputWorker      *)
(* (client/src/consoleclient.cpp), and the pings and prompts of Connection *)
(* (server/src/connection.cpp).                                            *)
(*                                                                         *)
(* The client has two threads.  The main thread runs ioContext: it handles *)
(* one message after another, and starts, stops and joins the other.  The  *)
(* input thread waits in std::cin and passes each word the user enters to  *)
(* a callback, which sends an answer or closes the socket under the main   *)
(* thread.  Their steps interleave between any two accesses to what they   *)
(* share: running, socket and the stopped flag of ioContext.  The check of *)
(* socket # nullptr and its use are two steps, as they are in the code.    *)
(*                                                                         *)
(* Of the server there is what this client can tell: its lobby asks it to  *)
(* be ready, plays, asks for turns and ends games, at any time that other  *)
(* players may bring about.  Messages that are only printed (inQueue,      *)
(* gameStart, update, the result of an accepted turn) are left out.        *)
(***************************************************************************)
EXTENDS Naturals, Sequences, FiniteSets

CONSTANTS
  MaxMissed,   \* missed pongs the server puts up with: 3 in pingOnTimer
  MaxPings,    \* bound: how many pings are under way when one more is sent
  Words        \* what the user may enter: a subset of AllWords

AllWords == {"valid", "invalid", "quit"}

ASSUME ClientAssumption ==
  /\ MaxMissed \in Nat
  /\ MaxPings \in Nat /\ MaxPings > MaxMissed
  /\ Words \subseteq AllWords

VARIABLES
  io,         \* where the main thread is
  after,      \* what it does once it has joined the input thread
  reading,    \* an async_read is outstanding on the client's socket
  socket,     \* Client::socket: "open", "closed" or "null"
  stopped,    \* ioContext was stopped
  crashed,    \* "null": a null socket was dereferenced; "terminate": a thread
              \* was overwritten before it was joined
  input,      \* where the input thread is; "none" when no thread is joinable
  word,       \* what the user entered last
  callback,   \* what the input thread asks for: "ready" or "turn"
  running,    \* InputWorker::running
  phase,      \* the player in the server's eyes
  clientIsConnected, receivedPong, missedPongs,   \* of its Connection
  toClient, toServer,
  wire        \* "up"; "broken": it delivers nothing, and neither end is told;
              \* "ended": the server's process is gone, which the client can read

mainVars == <<io, after, reading>>
inputVars == <<input, word, callback>>
sharedVars == <<socket, stopped, crashed, running>>
serverVars == <<phase, clientIsConnected, receivedPong, missedPongs>>
wireVars == <<toClient, toServer, wire>>
vars == <<mainVars, inputVars, sharedVars, serverVars, wireVars>>

\* onAccept has sent the first ping; connect has called waitForMessages.
Init ==
  /\ io = "rearm" /\ after = "done" /\ reading = FALSE
  /\ socket = "open" /\ stopped = FALSE /\ crashed = "no"
  /\ input = "none" /\ word \in Words /\ callback = "ready" /\ running = FALSE
  /\ phase = "queued"
  /\ clientIsConnected = TRUE /\ receivedPong = FALSE /\ missedPongs = 0
  /\ toClient = <<"ping">> /\ toServer = <<>> /\ wire = "up"
-----------------------------------------------------------------------------
(***************************************************************************)
(* The main thread.                                                        *)
(***************************************************************************)

\* InputWorker::start: nothing when running, else a thread that asks for cb.
\* Assigning to a thread that was not joined ends the process.
Start(cb) ==
  IF running
  THEN UNCHANGED <<input, callback, running, crashed>>
  ELSE /\ running' = TRUE
       /\ input' = "reading" /\ callback' = cb
       /\ crashed' = IF input = "none" THEN crashed ELSE "terminate"

StartAndReadOn(cb) ==
  /\ Start(cb)
  /\ io' = "rearm" /\ UNCHANGED after

\* InputWorker::stop, up to the join.
Stop(next, otherwise) ==
  /\ IF running THEN io' = "join" /\ after' = next
                ELSE io' = otherwise /\ UNCHANGED after
  /\ running' = FALSE
  /\ UNCHANGED <<input, callback, crashed>>

RestartUnjoined(cb) ==
  /\ running' = TRUE
  /\ input' = "reading" /\ callback' = cb
  /\ crashed' = IF input = "none" THEN crashed ELSE "terminate"
  /\ io' = "rearm" /\ UNCHANGED after

\* InputWorker::restart, up to the join.
Restart(cb) == IF running THEN Stop(cb, "rearm") ELSE StartAndReadOn(cb)

TurnRequestStarts == StartAndReadOn("turn")

\* handleTurnRequest.
TurnRequest == Restart("turn")

InRun == io = "run" /\ ~ stopped /\ reading

\* The outstanding read has a whole message; its handler is next, unless ioContext
\* is stopped before.
ReadCompletes ==
  /\ InRun
  /\ socket = "open" /\ toClient # <<>>
  /\ io' = "handle" /\ reading' = FALSE
  /\ UNCHANGED <<after, inputVars, sharedVars, serverVars, wireVars>>

\* handleRead, up to waitForMessages.
HandleMessage ==
  /\ io = "handle" /\ ~ stopped
  /\ toClient' = Tail(toClient)
  /\ LET m == Head(toClient)
     IN  \/ m = "connected" /\ StartAndReadOn("ready")
         \/ m = "gameEnd" /\ Restart("ready")
         \/ m \in {"takeTurn", "rejected"} /\ TurnRequest
         \/ /\ m = "ping"
            /\ io' = "pong"
            /\ UNCHANGED <<after, input, callback, running, crashed>>
  /\ UNCHANGED <<reading, word, socket, stopped, serverVars, toServer, wire>>

\* The read ends with an error: the socket was closed, or the server is gone.
ReadFails ==
  /\ InRun
  /\ socket # "open" \/ (wire = "ended" /\ toClient = <<>>)

HandleErrorReadsOn ==
  /\ ReadFails
  /\ reading' = FALSE
  /\ Stop("rearm", "rearm")
  /\ UNCHANGED <<word, socket, stopped, serverVars, wireVars>>

\* handleRead with an error: onDisconnect.
HandleError ==
  /\ ReadFails
  /\ reading' = FALSE
  /\ Stop("run", "run")
  /\ UNCHANGED <<word, socket, stopped, serverVars, wireVars>>

\* sendPong and waitForMessages: first the socket is compared with nullptr ...
CheckSocket ==
  /\ \/ io = "pong" /\ io' = IF socket = "null" THEN "rearm" ELSE "usePong"
     \/ io = "rearm" /\ io' = IF socket = "null" THEN "run" ELSE "useRead"
  /\ UNCHANGED <<after, reading, inputVars, sharedVars, serverVars, wireVars>>

\* What a write to the socket makes of toServer.
Written(m) == IF socket = "open" /\ wire = "up" THEN Append(toServer, m) ELSE toServer

UseCrashes == crashed' = IF socket = "null" THEN "null" ELSE crashed

\* ... and then dereferenced.
UseSocket ==
  /\ UseCrashes
  /\ \/ io = "usePong" /\ io' = "rearm" /\ toServer' = Written("pong") /\ UNCHANGED reading
     \/ io = "useRead" /\ io' = "run" /\ reading' = TRUE /\ UNCHANGED toServer
  /\ UNCHANGED <<after, inputVars, socket, stopped, running, serverVars, toClient, wire>>

\* The join returns when the input thread has; restart then starts the next.
Join ==
  /\ io = "join" /\ input = "finished"
  /\ IF after \in {"ready", "turn"}
     THEN /\ io' = "rearm"
          /\ running' = TRUE /\ input' = "reading" /\ callback' = after
     ELSE /\ io' = after
          /\ input' = "none"
          /\ UNCHANGED <<running, callback>>
  /\ UNCHANGED <<after, reading, word, socket, stopped, crashed, serverVars, wireVars>>

\* run returns: the context was stopped or has no work.  The client goes out of
\* scope in runClient, and ~InputWorker stops the input thread.
RunReturns ==
  /\ io \in {"run", "handle"}
  /\ stopped \/ (io = "run" /\ ~ reading)
  /\ Stop("done", "done")
  /\ UNCHANGED <<reading, word, socket, stopped, serverVars, wireVars>>

MainStep ==
  /\ crashed = "no"
  /\ \/ ReadCompletes \/ HandleMessage \/ HandleError
     \/ CheckSocket \/ UseSocket \/ Join \/ RunReturns
-----------------------------------------------------------------------------
(***************************************************************************)
(* The input thread: readUntilDone and the callbacks.                      *)
(***************************************************************************)

InputGoes(from, to) == input = from /\ input' = to

\* The user enters a word.
Enter ==
  /\ crashed = "no"
  /\ InputGoes("reading", "entered")
  /\ word' \in Words
  /\ UNCHANGED <<mainVars, callback, sharedVars, serverVars, wireVars>>

\* "running && callback(input)", and what the callback makes of the word: only a
\* ready prompt knows "quit".
Call ==
  /\ \/ ~ running /\ InputGoes("entered", "finished")
     \/ running /\ word = "valid" /\ InputGoes("entered", "send")
     \/ running /\ word = "quit" /\ callback = "ready" /\ InputGoes("entered", "close")
     \/ /\ running
        /\ word = "invalid" \/ (word = "quit" /\ callback = "turn")
        /\ InputGoes("entered", "loop")
  /\ UNCHANGED <<mainVars, word, callback, sharedVars, serverVars, wireVars>>

\* toggleReady or sendTurn, through sendMessage: the check and the use.  The
\* callback then returns true and the thread ends; running stays true.
CheckSend ==
  /\ InputGoes("send", IF socket = "null" THEN "finished" ELSE "useSend")
  /\ UNCHANGED <<mainVars, word, callback, sharedVars, serverVars, wireVars>>

UseSend ==
  /\ InputGoes("useSend", "finished")
  /\ UseCrashes
  /\ toServer' = Written(callback)
  /\ UNCHANGED <<mainVars, word, callback, socket, stopped, running, serverVars, toClient, wire>>

\* Client::stop: socket->close() ...
CloseSocket ==
  /\ InputGoes("close", "reset")
  /\ UseCrashes
  /\ socket' = IF socket = "null" THEN "null" ELSE "closed"
  /\ UNCHANGED <<mainVars, word, callback, stopped, running, serverVars, wireVars>>

\* ... socket.reset() ...
ResetSocket ==
  /\ InputGoes("reset", "stop")
  /\ socket' = "null"
  /\ UNCHANGED <<mainVars, word, callback, stopped, crashed, running, serverVars, wireVars>>

\* ... and ioContext.stop(), after which the callback returns false.
StopContext ==
  /\ InputGoes("stop", "loop")
  /\ stopped' = TRUE
  /\ UNCHANGED <<mainVars, word, callback, socket, crashed, running, serverVars, wireVars>>

\* "while (running)".
Loop ==
  /\ InputGoes("loop", IF running THEN "reading" ELSE "finished")
  /\ UNCHANGED <<mainVars, word, callback, sharedVars, serverVars, wireVars>>

InputStep ==
  /\ crashed = "no"
  /\ \/ Call \/ CheckSend \/ UseSend
     \/ CloseSocket \/ ResetSocket \/ StopContext \/ Loop
-----------------------------------------------------------------------------
(***************************************************************************)
(* The server, towards this client.                                        *)
(***************************************************************************)

Serving == clientIsConnected /\ wire # "ended"

\* The player passes from one phase to the next and is told in ms.
Turns(from, to, ms) ==
  /\ phase \in from
  /\ phase' = to
  /\ toClient' = IF wire = "up" THEN toClient \o ms ELSE toClient

\* A game starts, or goes on: its next turn is this player's, or another's.
Plays(from) == Turns(from, "game", <<>>) \/ Turns(from, "asked", <<"takeTurn">>)

\* What other clients bring about: a seat is found; the last player of the lobby is
\* ready; another player moves; another player wins, fills the board or leaves.
OthersStep ==
  /\ Serving
  /\ \/ Turns({"queued"}, "lobby", <<"connected">>)
     \/ Plays({"ready"})
     \/ Turns({"game"}, "asked", <<"takeTurn">>)
     \/ Turns({"game", "asked"}, "lobby", <<"gameEnd">>)
  /\ UNCHANGED <<mainVars, inputVars, sharedVars, clientIsConnected, receivedPong,
                 missedPongs, toServer, wire>>

\* The next message of the client is read.
Receives(m) ==
  /\ Serving
  /\ toServer # <<>> /\ Head(toServer) = m
  /\ toServer' = Tail(toServer)
  /\ UNCHANGED <<mainVars, inputVars, sharedVars, clientIsConnected, missedPongs, wire>>

\* It may be the last ready of the lobby.
ReceiveReady ==
  /\ Receives("ready")
  /\ Turns({"lobby"}, "ready", <<>>) \/ Plays({"lobby"})
  /\ UNCHANGED receivedPong

\* A turn is accepted, ends the game, or is rejected; outside a game it is
\* answered by an error, which the client does not follow up.
ReceiveTurn ==
  /\ Receives("turn")
  /\ \/ Turns({"asked"}, "game", <<>>)
     \/ Turns({"asked"}, "lobby", <<"gameEnd">>)
     \/ Turns({"asked"}, "asked", <<"rejected">>)
     \/ phase # "asked" /\ UNCHANGED <<phase, toClient>>
  /\ UNCHANGED receivedPong

ReceivePongUnnoticed ==
  /\ Receives("pong")
  /\ UNCHANGED <<receivedPong, phase, toClient>>

ReceivePong ==
  /\ Receives("pong")
  /\ receivedPong' = TRUE
  /\ UNCHANGED <<phase, toClient>>

\* The client's end is closed: eof, or a reset that drops what was under way.
ReadClosed ==
  /\ Serving
  /\ wire = "up" /\ (socket # "open" \/ io = "done" \/ crashed # "no")
  /\ clientIsConnected' = FALSE
  /\ toServer' = <<>>
  /\ UNCHANGED <<mainVars, inputVars, sharedVars, phase, receivedPong, missedPongs,
                 toClient, wire>>

\* How often m is in q.
Count(q, m) == Cardinality({i \in DOMAIN q : q[i] = m})

\* The pings under way: sent, and their pong not read.
Pings ==
  Count(toClient, "ping") + Count(toServer, "pong")
    + (IF io \in {"pong", "usePong"} THEN 1 ELSE 0)

Ping ==
  /\ receivedPong' = FALSE
  /\ toClient' = IF wire = "up" THEN Append(toClient, "ping") ELSE toClient
  /\ UNCHANGED clientIsConnected

MissedNeverForgiven == IF receivedPong THEN missedPongs ELSE missedPongs + 1

MissedWrapsAround == IF receivedPong \/ missedPongs = MaxMissed THEN 0 ELSE missedPongs + 1

\* missedPongs when the timer expires: the last ping was answered, or it was not.
Missed == IF receivedPong THEN 0 ELSE missedPongs + 1

TooManyAndOne(n) == n > MaxMissed + 1

TooMany(n) == n > MaxMissed

\* pingOnTimer.  The timer expires whatever the client, its user and the messages under
\* way are at; MaxPings bounds how many pings a client may leave lying.
PingTimer ==
  /\ Serving
  /\ missedPongs' = Missed
  /\ \/ TooMany(Missed) /\ clientIsConnected' = FALSE /\ UNCHANGED <<receivedPong, toClient>>
     \/ ~ TooMany(Missed) /\ Pings < MaxPings /\ Ping
  /\ UNCHANGED <<mainVars, inputVars, sharedVars, phase, toServer, wire>>

ServerReads == ReceiveReady \/ ReceiveTurn \/ ReceivePong \/ ReadClosed
-----------------------------------------------------------------------------
\* The network or the client's host fails silently; or the server's process ends.
WireFails ==
  /\ wire = "up"
  /\ \/ /\ wire' = "broken"
        /\ toClient' = IF io = "handle" THEN <<Head(toClient)>> ELSE <<>>
     \/ wire' = "ended" /\ UNCHANGED toClient
  /\ toServer' = <<>>
  /\ UNCHANGED <<mainVars, inputVars, sharedVars, serverVars>>

Next ==
  MainStep \/ Enter \/ InputStep \/ OthersStep \/ ServerReads \/ PingTimer \/ WireFails

Spec == Init /\ [][Next]_vars

\* Both threads run, the user goes on typing, the server reads what it receives.
\* The ping timer sets itself again, and expires after ten seconds.
Fairness ==
  /\ WF_vars(MainStep) /\ WF_vars(InputStep) /\ WF_vars(Enter)
  /\ WF_vars(ServerReads) /\ WF_vars(PingTimer)

FairSpec == Spec /\ Fairness
-----------------------------------------------------------------------------
(***************************************************************************)
(* Correctness.                                                            *)
(***************************************************************************)

TypeOK ==
  /\ io \in {"run", "handle", "pong", "usePong", "rearm", "useRead", "join", "done"}
  /\ after \in {"ready", "turn", "run", "done"}
  /\ reading \in BOOLEAN /\ stopped \in BOOLEAN /\ running \in BOOLEAN
  /\ socket \in {"open", "closed", "null"}
  /\ crashed \in {"no", "null", "terminate"}
  /\ input \in {"none", "reading", "entered", "send", "useSend",
                "close", "reset", "stop", "loop", "finished"}
  /\ word \in Words
  /\ callback \in {"ready", "turn"}
  /\ phase \in {"queued", "lobby", "ready", "game", "asked"}
  /\ clientIsConnected \in BOOLEAN /\ receivedPong \in BOOLEAN
  /\ missedPongs \in 0 .. MaxMissed + 1
  /\ toClient \in Seq({"connected", "gameEnd", "takeTurn", "rejected", "ping"})
  /\ toServer \in Seq({"ready", "turn", "pong"})
  /\ wire \in {"up", "broken", "ended"}

\* running is cleared and set apart from the thread it stands for, and set even when
\* that thread has ended by itself.  Still there is a thread to join exactly when
\* running is set or a join is under way: none is overwritten before it is joined,
\* joined twice, or left behind when the client is destroyed.
ThreadIsAccountedFor ==
  /\ crashed # "terminate"
  /\ input # "none" <=> running \/ io = "join"
  /\ io = "done" => input = "none"

Asked(cb) ==
  /\ running /\ callback = cb
  /\ input \notin {"none", "finished"}

SentToServer(m) == \E i \in DOMAIN toServer : toServer[i] = m

\* Once the client has handled all it was sent, its user is asked for what the server
\* waits for, or the answer is on its way: no prompt is lost to an input thread that
\* still asks for something else, and no lobby waits for a user who was not asked.
PromptIsShown ==
  (InRun /\ socket = "open" /\ toClient = <<>> /\ wire = "up" /\ clientIsConnected) =>
    /\ phase = "lobby" => Asked("ready") \/ SentToServer("ready")
    /\ phase = "asked" => Asked("turn") \/ SentToServer("turn")

\* Pongs carry no number, so a late one stands for any ping.  Even so no miss is made up:
\* each is of a ping that is still under way, and so is the last one, and misses that were
\* answered late are forgotten.
MissesAreUnderWay ==
  (clientIsConnected /\ ~ receivedPong /\ wire = "up" /\ socket = "open")
    => Pings > missedPongs

\* The threads and the network have nothing left to do: only the user is waited for.
UserIsWaitedFor ==
  /\ toServer = <<>>
  /\ input \in {"none", "reading"} \/ (input = "finished" /\ io # "join")
  /\ io \in {"join", "done"} \/ (InRun /\ socket = "open" /\ toClient = <<>>)

\* A client that is there and can be reached is given up only when more than MaxMissed
\* pings are unanswered at that moment; so, if it had the time to answer all it could, only
\* while its main thread waits for the user to end the input thread.
OnlyTheSilentAreDropped ==
  [][(clientIsConnected /\ ~ clientIsConnected' /\ wire = "up" /\ socket = "open"
        /\ crashed = "no" /\ io # "done") =>
       Pings > MaxMissed /\ (UserIsWaitedFor => io = "join")]_vars

\* The pong of a client whose wire broke is missed in the end, whatever its user and
\* the lobby were doing.
LostIsNoticed == (wire = "broken") ~> ~ clientIsConnected

\* A client whose user quits, or whose server ends, exits: neither thread waits
\* for the other for good.
ClientEnds == (input = "close" \/ wire = "ended") ~> (io = "done" \/ crashed # "no")
(***************************************************************************)
(* How far the server, the client's threads and the messages between them  *)
(* may be apart: what PromptIsShown rests on.                              *)
(***************************************************************************)

\* The client is there, can be reached, and is not given up.
Live == clientIsConnected /\ wire = "up" /\ socket = "open"

\* q is all m; or all m but for one of A; or but for one of A and, later, one of B.
Only(q, m) == \A i \in DOMAIN q : q[i] = m
One(q, m, A) == \E i \in DOMAIN q : q[i] \in A /\ \A k \in DOMAIN q \ {i} : q[k] = m
Two(q, m, A, B) ==
  \E i, j \in DOMAIN q :
    i < j /\ q[i] \in A /\ q[j] \in B /\ \A k \in DOMAIN q \ {i, j} : q[k] = m

TurnRequests == {"takeTurn", "rejected"}

ToldNothing == Only(toClient, "ping")
Told(A) == One(toClient, "ping", A)
SaidNothing == Only(toServer, "pong")
Said(m) == One(toServer, "pong", {m})

\* The input thread was never started; is done, but not joined; or may answer yet.
Silent == input = "none"
Answered == running /\ input = "finished"
MayAnswer(cb) == callback = cb /\ input \notin {"none", "finished"}

\* The user is asked for cb, or will be as soon as the last input thread is joined.
AsksFor(cb) == Asked(cb) \/ (io = "join" /\ after = cb)

\* One line for every stage of the conversation of server and client.
Dialogue ==
  \/ phase = "queued" /\ ToldNothing /\ Silent /\ SaidNothing
  \/ phase = "lobby" /\ Told({"connected"}) /\ Silent /\ SaidNothing
  \/ /\ phase = "lobby" /\ ToldNothing /\ AsksFor("ready")
     /\ SaidNothing \/ (Said("turn") /\ ~ MayAnswer("turn"))
  \/ /\ phase = "lobby" /\ ToldNothing /\ Answered
     /\ Said("ready") \/ Two(toServer, "pong", {"turn"}, {"ready"})
  \/ phase \in {"ready", "game"} /\ ToldNothing /\ Answered /\ SaidNothing
  \/ phase = "asked" /\ Told(TurnRequests) /\ Answered /\ SaidNothing
  \/ phase = "asked" /\ ToldNothing /\ AsksFor("turn") /\ SaidNothing
  \/ phase = "asked" /\ ToldNothing /\ Answered /\ Said("turn")
  \/ /\ phase = "lobby" /\ Two(toClient, "ping", TurnRequests, {"gameEnd"})
     /\ Answered /\ SaidNothing
  \/ phase = "lobby" /\ Told({"gameEnd"}) /\ AsksFor("turn") /\ SaidNothing
  \/ phase = "lobby" /\ Told({"gameEnd"}) /\ Answered /\ (SaidNothing \/ Said("turn"))

\* The main thread reads on.  It waits for a thread that is done; or, when a game ended
\* before the user's turn, for one that asks for it still.
MainReads ==
  /\ crashed = "no" /\ ~ stopped
  /\ io # "done" /\ (io = "run" => reading)
  /\ input \notin {"reset", "stop"}
  /\ io = "join" =>
       /\ after \in {"ready", "turn"}
       /\ input = "finished" \/ (after = "ready" /\ callback = "turn")

\* As long as the client is there, the server, its threads and the messages between
\* them are at one stage of the conversation, and the main thread will read on.
DialogueInv == Live => Dialogue /\ MainReads
=============================================================================
