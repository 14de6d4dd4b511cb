------------------------ MODULE ConsoleClient_proofs -------------------------
(***************************************************************************)
(* Proofs about a client and its Connection, whatever its user enters,     *)
(* however many pongs the server puts up with, and in every interleaving   *)
(* of the client's two threads with the server and the network: that the   *)
(* input thread is accounted for; from the stages of the conversation of   *)
(* client and server, that no prompt is lost; and from the pings under     *)
(* way, whom the server gives up.                                          *)
(***************************************************************************)
EXTENDS ConsoleClient, FiniteSetTheorems, SequenceTheorems, TLAPS

ClientMessage == {"connected", "gameEnd", "takeTurn", "rejected", "ping"}
ServerMessage == {"ready", "turn", "pong"}

\* A handler runs for a message that is there; nobody is given up with fewer misses;
\* running is clear while a join is under way.
ClientInv ==
  /\ TypeOK
  /\ ThreadIsAccountedFor
  /\ io = "handle" => toClient # <<>>
  /\ clientIsConnected => missedPongs <= MaxMissed
  /\ io \in {"join", "done"} => ~ running

\* What a step leaves alone for ClientInv's sake, split by whose variables they are.
MainInv ==
  /\ io \in {"run", "handle", "pong", "usePong", "rearm", "useRead", "join", "done"}
  /\ after \in {"ready", "turn", "run", "done"}
  /\ reading \in BOOLEAN /\ stopped \in BOOLEAN /\ running \in BOOLEAN
  /\ socket \in {"open", "closed", "null"}
  /\ crashed \in {"no", "null", "terminate"}
  /\ input \in {"none", "reading", "entered", "send", "useSend",
                "close", "reset", "stop", "loop", "finished"}
  /\ word \in Words
  /\ callback \in {"ready", "turn"}
  /\ ThreadIsAccountedFor
  /\ io \in {"join", "done"} => ~ running

ServerInv ==
  /\ phase \in {"queued", "lobby", "ready", "game", "asked"}
  /\ clientIsConnected \in BOOLEAN /\ receivedPong \in BOOLEAN
  /\ missedPongs \in 0 .. MaxMissed + 1
  /\ clientIsConnected => missedPongs <= MaxMissed

WireInv ==
  /\ toClient \in Seq(ClientMessage)
  /\ toServer \in Seq(ServerMessage)
  /\ wire \in {"up", "broken", "ended"}
  /\ io = "handle" => toClient # <<>>

LEMMA Parts == ClientInv <=> MainInv /\ ServerInv /\ WireInv
BY DEF ClientInv, TypeOK, MainInv, ServerInv, WireInv, ClientMessage, ServerMessage

LEMMA InitInv == Init => ClientInv
<1> SUFFICES ASSUME Init PROVE MainInv /\ ServerInv /\ WireInv
  BY Parts
<1>1. MainInv
  BY DEF Init, MainInv, ThreadIsAccountedFor
<1>2. ServerInv
  <2>1. phase = "queued" /\ clientIsConnected = TRUE /\ receivedPong = FALSE /\ missedPongs = 0
    BY DEF Init
  <2>2. 0 \in 0 .. MaxMissed + 1 /\ 0 <= MaxMissed
    BY ClientAssumption
  <2> QED
    BY <2>1, <2>2, Zenon DEF ServerInv
<1>3. WireInv
  BY DEF Init, WireInv, ClientMessage, ServerMessage
<1> QED
  BY <1>1, <1>2, <1>3

\* InputWorker's operations: a thread is only started where none has to be joined.
LEMMA StopKeepsThread ==
  ASSUME MainInv, io # "join", io # "done",
         NEW next \in {"ready", "turn", "run", "done"}, NEW otherwise \in {"rearm", "run", "done"},
         Stop(next, otherwise), reading' \in BOOLEAN, UNCHANGED <<word, socket, stopped>>
  PROVE  MainInv' /\ io' # "handle"
BY DEF MainInv, ThreadIsAccountedFor, Stop

LEMMA StartKeepsThread ==
  ASSUME MainInv, io # "join", io # "done", NEW cb \in {"ready", "turn"},
         StartAndReadOn(cb), UNCHANGED <<reading, word, socket, stopped>>
  PROVE  MainInv' /\ io' # "handle"
BY DEF MainInv, ThreadIsAccountedFor, StartAndReadOn, Start

LEMMA RestartKeepsThread ==
  ASSUME MainInv, io # "join", io # "done", NEW cb \in {"ready", "turn"},
         Restart(cb), UNCHANGED <<reading, word, socket, stopped>>
  PROVE  MainInv' /\ io' # "handle"
<1>1. CASE running
  BY <1>1, StopKeepsThread DEF Restart, MainInv
<1>2. CASE ~ running
  BY <1>2, StartKeepsThread DEF Restart
<1> QED
  BY <1>1, <1>2

\* One step per action of the main thread.
LEMMA MainStepKeeps ==
  ASSUME MainInv, WireInv, MainStep
  PROVE  MainInv' /\ WireInv'
<1>1. CASE ReadCompletes
  BY <1>1 DEF ReadCompletes, InRun, inputVars, sharedVars, wireVars, MainInv, WireInv, ThreadIsAccountedFor
<1>2. CASE HandleMessage
  <2>1. io = "handle" /\ UNCHANGED <<reading, word, socket, stopped, toServer, wire>>
        /\ toClient' = Tail(toClient)
    BY <1>2 DEF HandleMessage
  <2>2. MainInv' /\ io' # "handle"
    <3>1. CASE StartAndReadOn("ready")
      BY <2>1, <3>1, StartKeepsThread
    <3>2. CASE Restart("ready") \/ Restart("turn")
      BY <2>1, <3>2, RestartKeepsThread
    <3>3. CASE io' = "pong" /\ UNCHANGED <<after, input, callback, running, crashed>>
      BY <2>1, <3>3 DEF MainInv, ThreadIsAccountedFor
    <3> QED
      BY <1>2, <3>1, <3>2, <3>3 DEF HandleMessage, TurnRequest
  <2>3. toClient' \in Seq(ClientMessage)
    BY <2>1 DEF WireInv
  <2> QED
    BY <2>1, <2>2, <2>3 DEF WireInv
<1>3. CASE HandleError
  <2>1. io = "run" /\ reading' = FALSE /\ Stop("run", "run")
        /\ UNCHANGED <<word, socket, stopped, wireVars>>
    BY <1>3 DEF HandleError, ReadFails, InRun
  <2>2. MainInv' /\ io' # "handle"
    BY <2>1, StopKeepsThread
  <2> QED
    BY <2>1, <2>2 DEF WireInv, wireVars
<1>4. CASE CheckSocket
  BY <1>4 DEF CheckSocket, inputVars, sharedVars, wireVars, MainInv, WireInv, ThreadIsAccountedFor
<1>5. CASE UseSocket
  <2>1. MainInv' /\ io' # "handle" /\ UNCHANGED <<toClient, wire>>
    BY <1>5 DEF UseSocket, UseCrashes, inputVars, MainInv, ThreadIsAccountedFor
  <2>2. toServer' \in Seq(ServerMessage)
    BY <1>5 DEF UseSocket, Written, WireInv, ServerMessage
  <2> QED
    BY <2>1, <2>2 DEF WireInv
<1>6. CASE Join
  BY <1>6 DEF Join, wireVars, MainInv, WireInv, ThreadIsAccountedFor
<1>7. CASE RunReturns
  <2>1. io \in {"run", "handle"} /\ Stop("done", "done")
        /\ UNCHANGED <<reading, word, socket, stopped, wireVars>>
    BY <1>7 DEF RunReturns
  <2>2. MainInv' /\ io' # "handle"
    BY <2>1, StopKeepsThread DEF MainInv
  <2> QED
    BY <2>1, <2>2 DEF WireInv, wireVars
<1> QED
  BY <1>1, <1>2, <1>3, <1>4, <1>5, <1>6, <1>7 DEF MainStep

\* The input thread never ends itself as joined, and writes only running's readers.
LEMMA InputStepKeeps ==
  ASSUME MainInv, WireInv, Enter \/ InputStep
  PROVE  MainInv' /\ WireInv'
<1>1. CASE Enter
  BY <1>1 DEF Enter, InputGoes, mainVars, sharedVars, wireVars, MainInv, WireInv, ThreadIsAccountedFor
<1>2. CASE Call
  BY <1>2 DEF Call, InputGoes, mainVars, sharedVars, wireVars, MainInv, WireInv, ThreadIsAccountedFor
<1>3. CASE CheckSend
  BY <1>3 DEF CheckSend, InputGoes, mainVars, sharedVars, wireVars, MainInv, WireInv, ThreadIsAccountedFor
<1>4. CASE UseSend
  <2>1. MainInv' /\ UNCHANGED <<io, toClient, wire>>
    BY <1>4 DEF UseSend, UseCrashes, InputGoes, mainVars, MainInv, ThreadIsAccountedFor
  <2>2. toServer' \in Seq(ServerMessage)
    BY <1>4 DEF UseSend, Written, MainInv, WireInv, ServerMessage
  <2> QED
    BY <2>1, <2>2 DEF WireInv
<1>5. CASE CloseSocket
  BY <1>5 DEF CloseSocket, UseCrashes, InputGoes, mainVars, wireVars, MainInv, WireInv, ThreadIsAccountedFor
<1>6. CASE ResetSocket
  BY <1>6 DEF ResetSocket, InputGoes, mainVars, wireVars, MainInv, WireInv, ThreadIsAccountedFor
<1>7. CASE StopContext
  BY <1>7 DEF StopContext, InputGoes, mainVars, wireVars, MainInv, WireInv, ThreadIsAccountedFor
<1>8. CASE Loop
  BY <1>8 DEF Loop, InputGoes, mainVars, sharedVars, wireVars, MainInv, WireInv, ThreadIsAccountedFor
<1> QED
  BY <1>1, <1>2, <1>3, <1>4, <1>5, <1>6, <1>7, <1>8 DEF InputStep

\* What the server writes is delivered while the wire is up.
LEMMA TellsKeeps ==
  ASSUME WireInv, NEW ms \in Seq(ClientMessage),
         toClient' = (IF wire = "up" THEN toClient \o ms ELSE toClient),
         toServer' \in Seq(ServerMessage), UNCHANGED <<wire, io>>
  PROVE  WireInv'
BY DEF WireInv

\* The phase a player passes to, and what it is told, are among those there are.
LEMMA TurnsKeeps ==
  ASSUME ServerInv, WireInv, NEW from, NEW to \in {"queued", "lobby", "ready", "game", "asked"},
         NEW ms \in Seq(ClientMessage), Turns(from, to, ms),
         toServer' \in Seq(ServerMessage), receivedPong' \in BOOLEAN,
         UNCHANGED <<clientIsConnected, missedPongs, wire, io>>
  PROVE  ServerInv' /\ WireInv'
<1>1. WireInv'
  BY TellsKeeps DEF Turns
<1>2. ServerInv'
  BY DEF Turns, ServerInv
<1> QED
  BY <1>1, <1>2

\* One step per action of the server and of the wire.
LEMMA ServerStepKeeps ==
  ASSUME ServerInv, WireInv, OthersStep \/ ServerReads \/ PingTimer \/ WireFails
  PROVE  ServerInv' /\ WireInv'
<1>1. <<>> \in Seq(ClientMessage) /\ <<"connected">> \in Seq(ClientMessage)
      /\ <<"takeTurn">> \in Seq(ClientMessage) /\ <<"gameEnd">> \in Seq(ClientMessage)
      /\ <<"rejected">> \in Seq(ClientMessage) /\ <<"ping">> \in Seq(ClientMessage)
  BY DEF ClientMessage
<1>2. CASE OthersStep
  <2>1. /\ toServer' \in Seq(ServerMessage) /\ receivedPong' \in BOOLEAN
        /\ UNCHANGED <<clientIsConnected, missedPongs, wire, io>>
    BY <1>2 DEF OthersStep, mainVars, ServerInv, WireInv
  <2> QED
    BY <1>1, <1>2, <2>1, TurnsKeeps DEF OthersStep, Plays
<1>3. ASSUME NEW m \in ServerMessage, Receives(m)
      PROVE  /\ toServer' \in Seq(ServerMessage)
             /\ UNCHANGED <<clientIsConnected, missedPongs, wire, io>>
  BY <1>3 DEF Receives, mainVars, WireInv
<1>4. CASE ReceiveReady
  <2>1. /\ toServer' \in Seq(ServerMessage) /\ receivedPong' \in BOOLEAN
        /\ UNCHANGED <<clientIsConnected, missedPongs, wire, io>>
    BY <1>3, <1>4 DEF ReceiveReady, ServerMessage, ServerInv
  <2> QED
    BY <1>1, <1>4, <2>1, TurnsKeeps DEF ReceiveReady, Plays
<1>5. CASE ReceiveTurn
  <2>1. /\ toServer' \in Seq(ServerMessage) /\ receivedPong' \in BOOLEAN
        /\ UNCHANGED <<clientIsConnected, missedPongs, wire, io>>
    BY <1>3, <1>5 DEF ReceiveTurn, ServerMessage, ServerInv
  <2>2. CASE UNCHANGED <<phase, toClient>>
    BY <2>1, <2>2 DEF ServerInv, WireInv
  <2> QED
    BY <1>1, <1>5, <2>1, <2>2, TurnsKeeps DEF ReceiveTurn
<1>6. CASE ReceivePong
  <2>1. /\ toServer' \in Seq(ServerMessage) /\ receivedPong' \in BOOLEAN
        /\ UNCHANGED <<clientIsConnected, missedPongs, wire, io, phase, toClient>>
    BY <1>3, <1>6 DEF ReceivePong, ServerMessage
  <2> QED
    BY <2>1 DEF ServerInv, WireInv
<1>7. CASE ReadClosed
  <2>1. toServer' \in Seq(ServerMessage) /\ UNCHANGED <<io, toClient, wire>>
    BY <1>7 DEF ReadClosed, mainVars
  <2>2. ServerInv'
    BY <1>7 DEF ReadClosed, ServerInv
  <2> QED
    BY <2>1, <2>2 DEF WireInv
<1>8. CASE PingTimer
  <2>1. UNCHANGED <<io, toServer, wire, phase>> /\ clientIsConnected
    BY <1>8 DEF PingTimer, mainVars, Serving
  <2>2. toClient' = (IF wire = "up" THEN toClient \o <<"ping">> ELSE toClient) \/ UNCHANGED toClient
    BY <1>8 DEF PingTimer, Ping, WireInv
  <2>3. WireInv'
    <3>1. CASE UNCHANGED toClient
      BY <2>1, <3>1 DEF WireInv
    <3>2. CASE toClient' = (IF wire = "up" THEN toClient \o <<"ping">> ELSE toClient)
      BY <1>1, <2>1, <3>2, TellsKeeps DEF WireInv
    <3> QED
      BY <2>2, <3>1, <3>2
  <2>4. ServerInv'
    <3>1. MaxMissed \in Nat /\ missedPongs \in Nat /\ missedPongs <= MaxMissed
      BY <2>1, ClientAssumption DEF ServerInv
    <3>2. missedPongs' = Missed /\ Missed \in 0 .. MaxMissed + 1
      BY <1>8, <3>1 DEF PingTimer, Missed
    <3>3. CASE clientIsConnected' = FALSE /\ UNCHANGED receivedPong
      BY <2>1, <3>2, <3>3 DEF ServerInv
    <3>4. CASE ~ TooMany(Missed) /\ receivedPong' = FALSE /\ UNCHANGED clientIsConnected
      <4>1. missedPongs' <= MaxMissed
        BY <3>1, <3>2, <3>4 DEF TooMany
      <4> QED
        BY <2>1, <3>2, <3>4, <4>1 DEF ServerInv
    <3> QED
      BY <1>8, <3>3, <3>4 DEF PingTimer, Ping
  <2> QED
    BY <2>3, <2>4
<1>9. CASE WireFails
  <2>1. ServerInv'
    BY <1>9 DEF WireFails, serverVars, ServerInv
  <2>2. UNCHANGED io /\ toServer' = <<>> /\ wire' \in {"up", "broken", "ended"}
    BY <1>9 DEF WireFails, mainVars
  <2>3. toClient' \in Seq(ClientMessage) /\ (io = "handle" => toClient' # <<>>)
    <3>1. CASE UNCHANGED toClient
      BY <2>2, <3>1 DEF WireInv
    <3>2. CASE toClient' = IF io = "handle" THEN <<Head(toClient)>> ELSE <<>>
      <4>1. io = "handle" => Head(toClient) \in ClientMessage
        BY DEF WireInv
      <4> QED
        BY <1>1, <2>2, <3>2, <4>1
    <3> QED
      BY <1>9, <3>1, <3>2 DEF WireFails
  <2> QED
    BY <2>1, <2>2, <2>3 DEF WireInv
<1> QED
  BY <1>2, <1>4, <1>5, <1>6, <1>7, <1>8, <1>9 DEF ServerReads

\* Each thread, and the server, keeps the parts it can disturb.
LEMMA NextInv ==
  ASSUME ClientInv, [Next]_vars
  PROVE  ClientInv'
<1> SUFFICES MainInv' /\ ServerInv' /\ WireInv'
  BY Parts, PTL
<1>1. MainInv /\ ServerInv /\ WireInv
  BY Parts
<1>2. ASSUME UNCHANGED serverVars
      PROVE  ServerInv'
  BY <1>1, <1>2 DEF serverVars, ServerInv
<1>3. ASSUME UNCHANGED <<mainVars, inputVars, sharedVars>>
      PROVE  MainInv'
  BY <1>1, <1>3 DEF mainVars, inputVars, sharedVars, MainInv, ThreadIsAccountedFor
<1>4. CASE MainStep
  <2>1. UNCHANGED serverVars
    BY <1>4 DEF MainStep, ReadCompletes, HandleMessage, HandleError, CheckSocket, UseSocket, Join, RunReturns
  <2> QED
    BY <1>1, <1>2, <1>4, <2>1, MainStepKeeps
<1>5. CASE Enter \/ InputStep
  <2>1. UNCHANGED serverVars
    BY <1>5 DEF Enter, InputStep, Call, CheckSend, UseSend, CloseSocket, ResetSocket, StopContext, Loop
  <2> QED
    BY <1>1, <1>2, <1>5, <2>1, InputStepKeeps
<1>6. CASE OthersStep \/ ServerReads \/ PingTimer \/ WireFails
  <2>1. UNCHANGED <<mainVars, inputVars, sharedVars>>
    BY <1>6 DEF OthersStep, ServerReads, ReceiveReady, ReceiveTurn, ReceivePong, Receives, ReadClosed,
                PingTimer, WireFails
  <2> QED
    BY <1>1, <1>3, <1>6, <2>1, ServerStepKeeps
<1>7. CASE UNCHANGED vars
  BY <1>1, <1>2, <1>3, <1>7 DEF vars, wireVars, WireInv, mainVars
<1> QED
  BY <1>4, <1>5, <1>6, <1>7 DEF Next

LEMMA ClientInductive == Spec => []ClientInv
<1> QED
  BY InitInv, NextInv, PTL DEF Spec

\* Neither thread, nor the server, ever leaves the states the model names; in particular
\* no more than MaxMissed + 1 pongs are ever missed (pingOnTimer).
THEOREM ClientTypeCorrect == Spec => []TypeOK
BY ClientInductive, PTL DEF ClientInv

\* The input thread is joined before the next is started and before the client is
\* destroyed, and is never joined twice (InputWorker::start, stop and restart), although
\* running is set on after a thread has ended by itself.
THEOREM InputThreadIsJoined == Spec => []ThreadIsAccountedFor
BY ClientInductive, PTL DEF ClientInv
-----------------------------------------------------------------------------
(***************************************************************************)
(* The messages under way.  p is what a step makes of q: it adds, removes, *)
(* or leaves alone, an m.                                                  *)
(***************************************************************************)

Noise(q, p, m) == p = q \/ p = Append(q, m) \/ (q # <<>> /\ Head(q) = m /\ p = Tail(q))

LEMMA Appended ==
  ASSUME NEW S, NEW q \in Seq(S), NEW x \in S
  PROVE  /\ Append(q, x) \in Seq(S) /\ DOMAIN Append(q, x) = DOMAIN q \cup {Len(q) + 1}
         /\ \A i \in DOMAIN q : Append(q, x)[i] = q[i] /\ i < Len(q) + 1
         /\ Append(q, x)[Len(q) + 1] = x /\ Len(q) + 1 \notin DOMAIN q
         /\ q \o <<x>> = Append(q, x) /\ q \o <<>> = q
         /\ DOMAIN q \subseteq Nat /\ Len(q) \in Nat
OBVIOUS

LEMMA Shortened ==
  ASSUME NEW S, NEW q \in Seq(S), q # <<>>
  PROVE  /\ Tail(q) \in Seq(S) /\ Head(q) \in S /\ Head(q) = q[1] /\ 1 \in DOMAIN q
         /\ \A i \in DOMAIN Tail(q) : i + 1 \in DOMAIN q /\ Tail(q)[i] = q[i + 1] /\ i \in Nat /\ i # 0
         /\ \A i \in DOMAIN q : i # 1 => i - 1 \in DOMAIN Tail(q) /\ Tail(q)[i - 1] = q[i]
         /\ DOMAIN q \subseteq Nat \ {0}
OBVIOUS

LEMMA OnlyAppended ==
  ASSUME NEW S, NEW q \in Seq(S), NEW m \in S, Only(q, m)
  PROVE  /\ Only(Append(q, m), m)
         /\ \A A, x : x \in S /\ x \in A => One(Append(q, x), m, A)
<1>1. Only(Append(q, m), m)
  BY Appended DEF Only
<1>2. ASSUME NEW A, NEW x \in S, x \in A
      PROVE  One(Append(q, x), m, A)
  <2>1. Append(q, x)[Len(q) + 1] \in A /\ Len(q) + 1 \in DOMAIN Append(q, x)
    BY <1>2, Appended
  <2>2. ASSUME NEW k \in DOMAIN Append(q, x) \ {Len(q) + 1}
        PROVE  Append(q, x)[k] = m
    BY Appended DEF Only
  <2> QED
    BY <2>1, <2>2 DEF One
<1> QED
  BY <1>1, <1>2

LEMMA OneAppended ==
  ASSUME NEW S, NEW q \in Seq(S), NEW m \in S, NEW A, One(q, m, A)
  PROVE  /\ One(Append(q, m), m, A)
         /\ \A B, x : x \in S /\ x \in B => Two(Append(q, x), m, A, B)
<1>1. PICK i \in DOMAIN q : q[i] \in A /\ \A k \in DOMAIN q \ {i} : q[k] = m
  BY DEF One
<1>2. One(Append(q, m), m, A)
  <2>1. i \in DOMAIN Append(q, m) /\ Append(q, m)[i] \in A
    BY <1>1, Appended
  <2>2. ASSUME NEW k \in DOMAIN Append(q, m) \ {i} PROVE Append(q, m)[k] = m
    BY <1>1, Appended
  <2> QED
    BY <2>1, <2>2 DEF One
<1>3. ASSUME NEW B, NEW x \in S, x \in B
      PROVE  Two(Append(q, x), m, A, B)
  <2>1. /\ i \in DOMAIN Append(q, x) /\ Append(q, x)[i] \in A
        /\ Len(q) + 1 \in DOMAIN Append(q, x) /\ Append(q, x)[Len(q) + 1] \in B /\ i < Len(q) + 1
    BY <1>1, <1>3, Appended
  <2>2. ASSUME NEW k \in DOMAIN Append(q, x) \ {i, Len(q) + 1} PROVE Append(q, x)[k] = m
    BY <1>1, Appended
  <2> QED
    BY <2>1, <2>2 DEF Two
<1> QED
  BY <1>2, <1>3

LEMMA TwoAppended ==
  ASSUME NEW S, NEW q \in Seq(S), NEW m \in S, NEW A, NEW B, Two(q, m, A, B)
  PROVE  Two(Append(q, m), m, A, B)
<1>1. PICK i \in DOMAIN q, j \in DOMAIN q :
        i < j /\ q[i] \in A /\ q[j] \in B /\ \A k \in DOMAIN q \ {i, j} : q[k] = m
  BY DEF Two
<1>2. /\ i \in DOMAIN Append(q, m) /\ Append(q, m)[i] \in A
      /\ j \in DOMAIN Append(q, m) /\ Append(q, m)[j] \in B
  BY <1>1, Appended
<1>3. ASSUME NEW k \in DOMAIN Append(q, m) \ {i, j} PROVE Append(q, m)[k] = m
  BY <1>1, Appended
<1> QED
  BY <1>1, <1>2, <1>3 DEF Two

LEMMA OnlyShortened ==
  ASSUME NEW S, NEW q \in Seq(S), NEW m, Only(q, m), q # <<>>
  PROVE  Only(Tail(q), m) /\ Head(q) = m
BY Shortened DEF Only

LEMMA OneShortened ==
  ASSUME NEW S, NEW q \in Seq(S), NEW m, NEW A, m \notin A, One(q, m, A), q # <<>>
  PROVE  /\ Head(q) = m => One(Tail(q), m, A)
         /\ Head(q) # m => Head(q) \in A /\ Only(Tail(q), m)
<1>1. PICK i \in DOMAIN q : q[i] \in A /\ \A k \in DOMAIN q \ {i} : q[k] = m
  BY DEF One
<1>2. CASE i = 1
  <2>1. Head(q) \in A
    BY <1>1, <1>2, Shortened
  <2>2. ASSUME NEW k \in DOMAIN Tail(q) PROVE Tail(q)[k] = m
    BY <1>1, <1>2, Shortened
  <2> QED
    BY <2>1, <2>2 DEF Only
<1>3. CASE i # 1
  <2>1. Head(q) = m
    BY <1>1, <1>3, Shortened
  <2>2. i - 1 \in DOMAIN Tail(q) /\ Tail(q)[i - 1] \in A
    BY <1>1, <1>3, Shortened
  <2>3. ASSUME NEW k \in DOMAIN Tail(q) \ {i - 1} PROVE Tail(q)[k] = m
    <3>1. k + 1 \in DOMAIN q /\ Tail(q)[k] = q[k + 1] /\ k + 1 # i
      BY <1>1, <1>3, Shortened
    <3> QED
      BY <1>1, <3>1
  <2> QED
    BY <2>1, <2>2, <2>3 DEF One
<1> QED
  BY <1>2, <1>3

LEMMA TwoShortened ==
  ASSUME NEW S, NEW q \in Seq(S), NEW m, NEW A, NEW B, m \notin A, Two(q, m, A, B), q # <<>>
  PROVE  /\ Head(q) = m => Two(Tail(q), m, A, B)
         /\ Head(q) # m => Head(q) \in A /\ One(Tail(q), m, B)
<1>1. PICK i \in DOMAIN q, j \in DOMAIN q :
        i < j /\ q[i] \in A /\ q[j] \in B /\ \A k \in DOMAIN q \ {i, j} : q[k] = m
  BY DEF Two
<1>2. j # 1 /\ j - 1 \in DOMAIN Tail(q) /\ Tail(q)[j - 1] \in B
  BY <1>1, Shortened
<1>3. CASE i = 1
  <2>1. Head(q) \in A
    BY <1>1, <1>3, Shortened
  <2>2. ASSUME NEW k \in DOMAIN Tail(q) \ {j - 1} PROVE Tail(q)[k] = m
    <3>1. k + 1 \in DOMAIN q /\ Tail(q)[k] = q[k + 1] /\ k + 1 # j /\ k + 1 # i
      BY <1>1, <1>3, Shortened
    <3> QED
      BY <1>1, <3>1
  <2> QED
    BY <1>2, <2>1, <2>2 DEF One
<1>4. CASE i # 1
  <2>1. Head(q) = m
    BY <1>1, <1>2, <1>4, Shortened
  <2>2. i - 1 \in DOMAIN Tail(q) /\ Tail(q)[i - 1] \in A /\ i - 1 < j - 1
    BY <1>1, <1>4, Shortened
  <2>3. ASSUME NEW k \in DOMAIN Tail(q) \ {i - 1, j - 1} PROVE Tail(q)[k] = m
    <3>1. k + 1 \in DOMAIN q /\ Tail(q)[k] = q[k + 1] /\ k \in Nat
      BY Shortened
    <3>2. k + 1 # i /\ k + 1 # j
      <4>1. i \in Nat /\ j \in Nat /\ k # i - 1 /\ k # j - 1
        BY <1>1, Shortened
      <4> QED
        BY <3>1, <4>1
    <3> QED
      BY <1>1, <3>1, <3>2
  <2> QED
    BY <1>2, <2>1, <2>2, <2>3 DEF Two
<1> QED
  BY <1>3, <1>4

\* An m more or less changes none of the three.
LEMMA NoiseChangesNothing ==
  ASSUME NEW S, NEW q \in Seq(S), NEW m \in S, NEW p, Noise(q, p, m)
  PROVE  /\ Only(q, m) => Only(p, m)
         /\ \A A : m \notin A /\ One(q, m, A) => One(p, m, A)
         /\ \A A, B : m \notin A /\ Two(q, m, A, B) => Two(p, m, A, B)
<1>1. CASE p = q
  BY <1>1
<1>2. CASE p = Append(q, m)
  BY <1>2, OnlyAppended, OneAppended, TwoAppended
<1>3. CASE q # <<>> /\ Head(q) = m /\ p = Tail(q)
  BY <1>3, OnlyShortened, OneShortened, TwoShortened
<1> QED
  BY <1>1, <1>2, <1>3 DEF Noise

\* What Count makes of a message more, or less.
LEMMA CountAppended ==
  ASSUME NEW S, NEW q \in Seq(S), NEW x \in S, NEW m
  PROVE  /\ Count(q, m) \in Nat
         /\ Count(Append(q, x), m) = IF x = m THEN Count(q, m) + 1 ELSE Count(q, m)
<1> DEFINE At == {i \in DOMAIN q : q[i] = m}
           After == {i \in DOMAIN Append(q, x) : Append(q, x)[i] = m}
<1>1. IsFiniteSet(At) /\ Cardinality(At) \in Nat
  <2>1. IsFiniteSet(DOMAIN q)
    <3>1. DOMAIN q = 1 .. Len(q) /\ Len(q) \in Nat
      BY LenProperties
    <3> QED
      BY <3>1, FS_Interval
  <2>2. IsFiniteSet(At)
    BY <2>1, FS_Subset
  <2> QED
    BY <2>2, FS_CardinalityType
<1>2. After = (IF x = m THEN At \cup {Len(q) + 1} ELSE At)
  BY Appended
<1>3. Len(q) + 1 \notin At
  BY Appended
<1>4. Cardinality(At \cup {Len(q) + 1}) = Cardinality(At) + 1
  BY <1>1, <1>3, FS_AddElement
<1> QED
  BY <1>1, <1>2, <1>4 DEF Count

LEMMA CountShortened ==
  ASSUME NEW S, NEW q \in Seq(S), q # <<>>, NEW m
  PROVE  /\ Count(Tail(q), m) \in Nat
         /\ Count(q, m) = IF Head(q) = m THEN Count(Tail(q), m) + 1 ELSE Count(Tail(q), m)
<1> DEFINE At == {i \in DOMAIN q : q[i] = m}
           After == {i \in DOMAIN Tail(q) : Tail(q)[i] = m}
           Shift == [i \in After |-> i + 1]
<1>1. Tail(q) \in Seq(S)
  BY Shortened
<1>2. IsFiniteSet(After) /\ Cardinality(After) \in Nat
  <2>1. IsFiniteSet(DOMAIN Tail(q))
    <3>1. DOMAIN Tail(q) = 1 .. Len(Tail(q)) /\ Len(Tail(q)) \in Nat
      BY <1>1, LenProperties
    <3> QED
      BY <3>1, FS_Interval
  <2>2. IsFiniteSet(After)
    BY <2>1, FS_Subset
  <2> QED
    BY <2>2, FS_CardinalityType
<1>3. Shift \in Bijection(After, At \ {1})
  <2>1. Shift \in [After -> At \ {1}]
    BY Shortened
  <2>2. ASSUME NEW i \in After, NEW j \in After, Shift[i] = Shift[j] PROVE i = j
    <3>1. i + 1 = j + 1 /\ i \in Nat /\ j \in Nat
      BY <2>2, Shortened
    <3> QED
      BY <3>1
  <2>3. ASSUME NEW k \in At \ {1} PROVE \E i \in After : Shift[i] = k
    <3>1. k - 1 \in After /\ k \in Nat
      BY Shortened
    <3>2. Shift[k - 1] = k
      BY <3>1
    <3> QED
      BY <3>1, <3>2
  <2> QED
    BY <2>1, <2>2, <2>3 DEF Bijection, Injection, Surjection, IsInjective
<1>4. IsFiniteSet(At \ {1}) /\ Cardinality(At \ {1}) = Cardinality(After)
  BY <1>2, <1>3, FS_Bijection DEF ExistsBijection
<1>5. CASE Head(q) = m
  <2>1. At = (At \ {1}) \cup {1}
    BY <1>5, Shortened
  <2>2. Cardinality((At \ {1}) \cup {1}) = Cardinality(At \ {1}) + 1
    BY <1>4, FS_AddElement
  <2> QED
    BY <1>2, <1>4, <1>5, <2>1, <2>2 DEF Count
<1>6. CASE Head(q) # m
  <2>1. At = At \ {1}
    BY <1>6, Shortened
  <2> QED
    BY <1>2, <1>4, <1>6, <2>1 DEF Count
<1> QED
  BY <1>5, <1>6

LEMMA CountNone ==
  ASSUME NEW q, NEW m, q = <<>>
  PROVE  Count(q, m) = 0
<1>1. {i \in DOMAIN q : q[i] = m} = {}
  OBVIOUS
<1> QED
  BY <1>1, FS_EmptySet DEF Count

-----------------------------------------------------------------------------
(***************************************************************************)
(* The conversation.                                                       *)
(***************************************************************************)

\* A socket that is not open, a wire that is not up, and a Connection that was given up
\* stay so.
LEMMA LiveStays ==
  ASSUME [Next]_vars, Live'
  PROVE  Live
<1> USE DEF Live
<1>1. CASE MainStep
  BY <1>1 DEF MainStep, ReadCompletes, HandleMessage, HandleError, CheckSocket, UseSocket, Join,
              RunReturns, serverVars, sharedVars, wireVars
<1>2. CASE Enter \/ InputStep
  BY <1>2 DEF Enter, InputStep, Call, CheckSend, UseSend, CloseSocket, ResetSocket, StopContext, Loop,
              serverVars, sharedVars, wireVars
<1>3. CASE OthersStep \/ PingTimer \/ WireFails
  BY <1>3 DEF OthersStep, PingTimer, Ping, WireFails, Serving, serverVars, sharedVars, wireVars
<1>4. CASE ServerReads
  BY <1>4 DEF ServerReads, ReceiveReady, ReceiveTurn, ReceivePong, Receives, ReadClosed, sharedVars
<1>5. CASE UNCHANGED vars
  BY <1>5 DEF vars, serverVars, sharedVars, wireVars
<1> QED
  BY <1>1, <1>2, <1>3, <1>4, <1>5 DEF Next

\* What a message that is no ping tells of the conversation, when it is the next.
LEMMA HeadTells ==
  ASSUME WireInv, Dialogue, toClient # <<>>
  PROVE  /\ Head(toClient) = "connected" =>
              phase = "lobby" /\ Only(Tail(toClient), "ping") /\ Silent /\ SaidNothing
         /\ Head(toClient) \in TurnRequests =>
              /\ Answered /\ SaidNothing
              /\ \/ phase = "asked" /\ Only(Tail(toClient), "ping")
                 \/ phase = "lobby" /\ One(Tail(toClient), "ping", {"gameEnd"})
         /\ Head(toClient) = "gameEnd" =>
              /\ phase = "lobby" /\ Only(Tail(toClient), "ping")
              /\ \/ AsksFor("turn") /\ SaidNothing
                 \/ Answered /\ (SaidNothing \/ Said("turn"))
<1>1. toClient \in Seq(ClientMessage) /\ "ping" \in ClientMessage
  BY DEF WireInv, ClientMessage
<1>2. ToldNothing => Head(toClient) = "ping"
  BY <1>1, OnlyShortened DEF ToldNothing
<1>3. ASSUME NEW A, "ping" \notin A, Told(A)
      PROVE  Head(toClient) = "ping" \/ (Head(toClient) \in A /\ Only(Tail(toClient), "ping"))
  BY <1>1, <1>3, OneShortened DEF Told
<1>4. ASSUME Two(toClient, "ping", TurnRequests, {"gameEnd"})
      PROVE  \/ Head(toClient) = "ping"
             \/ Head(toClient) \in TurnRequests /\ One(Tail(toClient), "ping", {"gameEnd"})
  <2>1. "ping" \notin TurnRequests
    BY DEF TurnRequests
  <2> QED
    BY <1>1, <1>4, <2>1, TwoShortened
<1>5. CASE ToldNothing
  BY <1>2, <1>5 DEF TurnRequests
<1>6. CASE phase = "lobby" /\ Told({"connected"}) /\ Silent /\ SaidNothing
  BY <1>3, <1>6 DEF TurnRequests
<1>7. CASE phase = "asked" /\ Told(TurnRequests) /\ Answered /\ SaidNothing
  BY <1>3, <1>7 DEF TurnRequests
<1>8. CASE /\ phase = "lobby" /\ Two(toClient, "ping", TurnRequests, {"gameEnd"})
           /\ Answered /\ SaidNothing
  BY <1>4, <1>8 DEF TurnRequests
<1>9. CASE /\ phase = "lobby" /\ Told({"gameEnd"})
           /\ (AsksFor("turn") /\ SaidNothing) \/ (Answered /\ (SaidNothing \/ Said("turn")))
  BY <1>3, <1>9 DEF TurnRequests
<1> QED
  BY <1>5, <1>6, <1>7, <1>8, <1>9 DEF Dialogue

\* A step that only moves pings and pongs, and lets no thread's part of the conversation
\* go back, leaves its stage as it is.
ThreadGoesOn ==
  /\ Silent => Silent'
  /\ Answered => Answered'
  /\ \A cb \in {"ready", "turn"} : AsksFor(cb) => AsksFor(cb)'
  /\ AsksFor("ready") /\ ~ MayAnswer("turn") => ~ MayAnswer("turn")'

LEMMA DialogueGoesOn ==
  ASSUME WireInv, Dialogue, UNCHANGED phase, ThreadGoesOn,
         Noise(toClient, toClient', "ping"), Noise(toServer, toServer', "pong")
  PROVE  Dialogue'
<1>1. toClient \in Seq(ClientMessage) /\ toServer \in Seq(ServerMessage)
      /\ "ping" \in ClientMessage /\ "pong" \in ServerMessage
  BY DEF WireInv, ClientMessage, ServerMessage
<1>2. ToldNothing => ToldNothing'
  BY <1>1, NoiseChangesNothing DEF ToldNothing
<1>3. ASSUME NEW A, "ping" \notin A, Told(A) PROVE Told(A)'
  BY <1>1, <1>3, NoiseChangesNothing DEF Told
<1>4. Told({"connected"}) => Told({"connected"})'
  BY <1>3
<1>5. Told(TurnRequests) => Told(TurnRequests)'
  BY <1>3 DEF TurnRequests
<1>6. Told({"gameEnd"}) => Told({"gameEnd"})'
  BY <1>3
<1>7. Two(toClient, "ping", TurnRequests, {"gameEnd"})
        => Two(toClient, "ping", TurnRequests, {"gameEnd"})'
  BY <1>1, NoiseChangesNothing DEF TurnRequests
<1>8. SaidNothing => SaidNothing'
  BY <1>1, NoiseChangesNothing DEF SaidNothing
<1>9. (Said("turn") => Said("turn")') /\ (Said("ready") => Said("ready")')
  BY <1>1, NoiseChangesNothing DEF Said
<1>10. Two(toServer, "pong", {"turn"}, {"ready"}) => Two(toServer, "pong", {"turn"}, {"ready"})'
  BY <1>1, NoiseChangesNothing
<1> QED
  BY <1>2, <1>4, <1>5, <1>6, <1>7, <1>8, <1>9, <1>10 DEF Dialogue, ThreadGoesOn

\* And the next answer, when it is no pong.
LEMMA HeadSays ==
  ASSUME WireInv, Dialogue, toServer # <<>>
  PROVE  /\ Head(toServer) = "ready" =>
              phase = "lobby" /\ ToldNothing /\ Answered /\ Only(Tail(toServer), "pong")
         /\ Head(toServer) = "turn" =>
              \/ phase = "lobby" /\ ToldNothing /\ AsksFor("ready") /\ Only(Tail(toServer), "pong")
              \/ phase = "lobby" /\ ToldNothing /\ Answered /\ One(Tail(toServer), "pong", {"ready"})
              \/ phase = "asked" /\ ToldNothing /\ Answered /\ Only(Tail(toServer), "pong")
              \/ phase = "lobby" /\ Told({"gameEnd"}) /\ Answered /\ Only(Tail(toServer), "pong")
<1>1. toServer \in Seq(ServerMessage)
  BY DEF WireInv
<1>2. SaidNothing => Head(toServer) = "pong"
  BY <1>1, OnlyShortened DEF SaidNothing
<1>3. ASSUME NEW m \in {"ready", "turn"}, Said(m)
      PROVE  Head(toServer) = "pong" \/ (Head(toServer) = m /\ Only(Tail(toServer), "pong"))
  BY <1>1, <1>3, OneShortened DEF Said
<1>4. ASSUME Two(toServer, "pong", {"turn"}, {"ready"})
      PROVE  \/ Head(toServer) = "pong"
             \/ Head(toServer) = "turn" /\ One(Tail(toServer), "pong", {"ready"})
  BY <1>1, <1>4, TwoShortened
<1>5. CASE SaidNothing
  BY <1>2, <1>5
<1>6. CASE phase = "lobby" /\ ToldNothing /\ AsksFor("ready") /\ Said("turn")
  BY <1>3, <1>6
<1>7. CASE phase = "lobby" /\ ToldNothing /\ Answered /\ Said("ready")
  BY <1>3, <1>7
<1>8. CASE phase = "lobby" /\ ToldNothing /\ Answered /\ Two(toServer, "pong", {"turn"}, {"ready"})
  BY <1>4, <1>8
<1>9. CASE phase = "asked" /\ ToldNothing /\ Answered /\ Said("turn")
  BY <1>3, <1>9
<1>10. CASE phase = "lobby" /\ Told({"gameEnd"}) /\ Answered /\ Said("turn")
  BY <1>3, <1>10
<1> QED
  BY <1>5, <1>6, <1>7, <1>8, <1>9, <1>10 DEF Dialogue

LEMMA DialogueInHandler ==
  ASSUME ClientInv, Live, Dialogue, MainReads, HandleMessage
  PROVE  Dialogue' /\ MainReads'
<1> DEFINE m == Head(toClient)
<1>1. /\ io = "handle" /\ toClient # <<>> /\ toClient' = Tail(toClient)
      /\ UNCHANGED <<reading, word, socket, stopped, serverVars, toServer, wire>>
  BY DEF HandleMessage, ClientInv
<1>2. WireInv /\ MainInv
  BY Parts
<1>3. phase' = phase /\ SaidNothing' = SaidNothing /\ (Said("turn") => Said("turn")')
  BY <1>1 DEF serverVars, SaidNothing, Said
<1>4. Only(Tail(toClient), "ping") => ToldNothing'
  BY <1>1 DEF ToldNothing
<1>5. CASE m = "connected" /\ StartAndReadOn("ready")
  <2>1. phase = "lobby" /\ Only(Tail(toClient), "ping") /\ Silent /\ SaidNothing
    BY <1>1, <1>2, <1>5, HeadTells
  <2>2. ~ running
    BY <1>1, <1>2, <2>1 DEF MainInv, ThreadIsAccountedFor, Silent
  <2>3. AsksFor("ready")' /\ MainReads'
    BY <1>1, <1>2, <1>5, <2>1, <2>2 DEF StartAndReadOn, Start, AsksFor, Asked, MainReads, Silent
  <2> QED
    BY <1>3, <1>4, <2>1, <2>3 DEF Dialogue
<1>6. CASE m = "gameEnd" /\ Restart("ready")
  <2>1. /\ phase = "lobby" /\ Only(Tail(toClient), "ping")
        /\ \/ AsksFor("turn") /\ SaidNothing
           \/ Answered /\ (SaidNothing \/ Said("turn"))
    BY <1>1, <1>2, <1>6, HeadTells
  <2>2. running /\ (input = "finished" \/ callback = "turn")
    BY <1>1, <2>1 DEF AsksFor, Asked, Answered
  <2>3. /\ io' = "join" /\ after' = "ready"
        /\ UNCHANGED <<input, callback, crashed>>
    BY <1>6, <2>2 DEF Restart, Stop
  <2>4. AsksFor("ready")' /\ MainReads'
    BY <1>1, <2>2, <2>3 DEF AsksFor, MainReads
  <2>5. SaidNothing' \/ (Said("turn")' /\ ~ MayAnswer("turn")')
    BY <1>3, <2>1, <2>3 DEF Answered, MayAnswer
  <2> QED
    BY <1>3, <1>4, <2>1, <2>4, <2>5 DEF Dialogue
<1>7. CASE m \in {"takeTurn", "rejected"} /\ Restart("turn")
  <2>1. /\ Answered /\ SaidNothing
        /\ \/ phase = "asked" /\ Only(Tail(toClient), "ping")
           \/ phase = "lobby" /\ One(Tail(toClient), "ping", {"gameEnd"})
    BY <1>1, <1>2, <1>7, HeadTells DEF TurnRequests
  <2>2. running /\ input = "finished"
    BY <2>1 DEF Answered
  <2>3. /\ io' = "join" /\ after' = "turn"
        /\ UNCHANGED <<input, callback, crashed>>
    BY <1>7, <2>2 DEF Restart, Stop
  <2>4. AsksFor("turn")' /\ MainReads'
    BY <1>1, <2>2, <2>3 DEF AsksFor, MainReads
  <2>5. One(Tail(toClient), "ping", {"gameEnd"}) => Told({"gameEnd"})'
    BY <1>1 DEF Told
  <2> QED
    BY <1>3, <1>4, <2>1, <2>4, <2>5 DEF Dialogue
<1>8. CASE m = "ping" /\ io' = "pong" /\ UNCHANGED <<after, input, callback, running, crashed>>
  <2>1. ThreadGoesOn /\ MainReads'
    BY <1>1, <1>8 DEF ThreadGoesOn, Silent, Answered, AsksFor, Asked, MayAnswer, MainReads
  <2>2. Noise(toClient, toClient', "ping") /\ Noise(toServer, toServer', "pong")
    BY <1>1, <1>8 DEF Noise
  <2> QED
    BY <1>2, <1>3, <2>1, <2>2, DialogueGoesOn
<1> QED
  BY <1>5, <1>6, <1>7, <1>8 DEF HandleMessage, TurnRequest

\* One step per action of the main thread.
LEMMA DialogueInMain ==
  ASSUME ClientInv, Live, Dialogue, MainReads, MainStep
  PROVE  Dialogue' /\ MainReads'
<1>1. /\ WireInv /\ MainInv
      /\ toServer \in Seq(ServerMessage) /\ "pong" \in ServerMessage
  BY Parts DEF WireInv, ServerMessage
<1>2. ASSUME ThreadGoesOn, UNCHANGED <<phase, toClient>>, Noise(toServer, toServer', "pong")
      PROVE  Dialogue'
  <2>1. Noise(toClient, toClient', "ping")
    BY <1>2 DEF Noise
  <2> QED
    BY <1>1, <1>2, <2>1, DialogueGoesOn
<1>3. CASE ReadCompletes
  <2>1. UNCHANGED <<phase, toClient, toServer>> /\ Noise(toServer, toServer', "pong")
    BY <1>3 DEF ReadCompletes, serverVars, wireVars, Noise
  <2>2. ThreadGoesOn /\ MainReads'
    BY <1>3 DEF ReadCompletes, InRun, inputVars, sharedVars, ThreadGoesOn, Silent, Answered, AsksFor, Asked,
                MayAnswer, MainReads
  <2> QED
    BY <1>2, <2>1, <2>2
<1>4. CASE HandleMessage
  BY <1>4, DialogueInHandler
<1>5. CASE HandleError
  BY <1>5 DEF HandleError, ReadFails, Live
<1>6. CASE CheckSocket
  <2>1. UNCHANGED <<phase, toClient, toServer>> /\ Noise(toServer, toServer', "pong")
    BY <1>6 DEF CheckSocket, serverVars, wireVars, Noise
  <2>2. ThreadGoesOn /\ MainReads'
    BY <1>6 DEF CheckSocket, inputVars, sharedVars, ThreadGoesOn, Silent, Answered, AsksFor, Asked,
                MayAnswer, MainReads, Live
  <2> QED
    BY <1>2, <2>1, <2>2
<1>7. CASE UseSocket
  <2>1. UNCHANGED <<phase, toClient>> /\ Noise(toServer, toServer', "pong")
    BY <1>7 DEF UseSocket, Written, serverVars, Noise, Live
  <2>2. ThreadGoesOn /\ MainReads'
    BY <1>7 DEF UseSocket, UseCrashes, inputVars, ThreadGoesOn, Silent, Answered, AsksFor, Asked,
                MayAnswer, MainReads, Live
  <2> QED
    BY <1>2, <2>1, <2>2
<1>8. CASE Join
  <2>1. UNCHANGED <<phase, toClient, toServer>> /\ Noise(toServer, toServer', "pong")
    BY <1>8 DEF Join, serverVars, wireVars, Noise
  <2>2. /\ io = "join" /\ input = "finished" /\ after \in {"ready", "turn"} /\ ~ running
        /\ io' = "rearm" /\ running' = TRUE /\ input' = "reading" /\ callback' = after
        /\ UNCHANGED <<stopped, crashed, reading>>
    BY <1>1, <1>8 DEF Join, MainReads, MainInv
  <2>3. ThreadGoesOn /\ MainReads'
    BY <2>2 DEF ThreadGoesOn, Silent, Answered, AsksFor, Asked, MayAnswer, MainReads
  <2> QED
    BY <1>2, <2>1, <2>3
<1>9. CASE RunReturns
  BY <1>9 DEF RunReturns, MainReads
<1> QED
  BY <1>3, <1>4, <1>5, <1>6, <1>7, <1>8, <1>9 DEF MainStep

\* The input thread answers what its user was asked, or what the user was asked before.
LEMMA DialogueInAnswer ==
  ASSUME ClientInv, Live, Dialogue, MainReads, UseSend
  PROVE  Dialogue' /\ MainReads'
<1>1. /\ toServer \in Seq(ServerMessage) /\ "pong" \in ServerMessage
      /\ callback \in {"ready", "turn"} /\ {"ready", "turn"} \subseteq ServerMessage
  BY Parts DEF WireInv, MainInv, ServerMessage, ClientInv, TypeOK
<1>2. /\ input = "useSend" /\ input' = "finished" /\ toServer' = Append(toServer, callback)
      /\ UNCHANGED <<io, after, reading, callback, running, stopped, phase, toClient>>
      /\ crashed' = crashed
  BY DEF UseSend, InputGoes, UseCrashes, Written, mainVars, serverVars, Live
<1>3. MainReads' /\ ~ MayAnswer("turn")'
  BY <1>2 DEF MainReads, MayAnswer
<1>4. ~ Silent /\ ~ Answered
  BY <1>2 DEF Silent, Answered
<1>5. SaidNothing => One(toServer', "pong", {callback})
  BY <1>1, <1>2, OnlyAppended DEF SaidNothing
<1>6. Said("turn") /\ callback = "ready" => Two(toServer', "pong", {"turn"}, {"ready"})
  BY <1>1, <1>2, OneAppended DEF Said
<1>7. phase' = phase /\ ToldNothing' = ToldNothing /\ Told({"gameEnd"})' = Told({"gameEnd"})
  BY <1>2 DEF ToldNothing, Told
<1>8. ASSUME NEW cb \in {"ready", "turn"}, AsksFor(cb)
      PROVE  \/ callback = cb /\ Answered'
             \/ cb = "ready" /\ callback = "turn" /\ AsksFor("ready")'
  <2>1. CASE Asked(cb)
    BY <1>2, <2>1 DEF Asked, Answered
  <2>2. CASE io = "join" /\ after = cb
    BY <1>2, <2>2 DEF MainReads, AsksFor
  <2> QED
    BY <1>8, <2>1, <2>2 DEF AsksFor
<1>9. CASE /\ phase = "lobby" /\ ToldNothing /\ AsksFor("ready")
           /\ SaidNothing \/ (Said("turn") /\ ~ MayAnswer("turn"))
  <2>1. CASE callback = "ready" /\ Answered'
    <3>1. Said("ready")' \/ Two(toServer, "pong", {"turn"}, {"ready"})'
      BY <1>5, <1>6, <1>9, <2>1 DEF Said
    <3>2. phase' = "lobby" /\ ToldNothing'
      BY <1>7, <1>9
    <3> QED
      BY <1>3, <2>1, <3>1, <3>2 DEF Dialogue
  <2>2. CASE callback = "turn" /\ AsksFor("ready")'
    <3>1. MayAnswer("turn")
      BY <1>2, <2>2 DEF MayAnswer
    <3>2. Said("turn")'
      BY <1>5, <1>9, <2>2, <3>1 DEF Said
    <3> QED
      BY <1>3, <1>7, <1>9, <2>2, <3>2 DEF Dialogue
  <2> QED
    BY <1>8, <1>9, <2>1, <2>2
<1>10. ASSUME AsksFor("turn"), SaidNothing
       PROVE  Answered' /\ Said("turn")'
  BY <1>5, <1>8, <1>10 DEF Said
<1>11. CASE phase = "asked" /\ ToldNothing /\ AsksFor("turn") /\ SaidNothing
  <2>1. phase' = "asked" /\ ToldNothing' /\ Answered' /\ Said("turn")'
    BY <1>7, <1>10, <1>11
  <2> QED
    BY <1>3, <2>1 DEF Dialogue
<1>12. CASE phase = "lobby" /\ Told({"gameEnd"}) /\ AsksFor("turn") /\ SaidNothing
  <2>1. phase' = "lobby" /\ Told({"gameEnd"})' /\ Answered' /\ Said("turn")'
    BY <1>7, <1>10, <1>12
  <2> QED
    BY <1>3, <2>1 DEF Dialogue
<1>13. Dialogue'
  BY <1>4, <1>9, <1>11, <1>12 DEF Dialogue
<1> QED
  BY <1>3, <1>13

\* One step per action of the input thread.
LEMMA DialogueInInput ==
  ASSUME ClientInv, Live, Live', Dialogue, MainReads, Enter \/ InputStep
  PROVE  Dialogue' /\ MainReads'
<1>1. WireInv /\ MainInv
  BY Parts
<1>2. ASSUME ThreadGoesOn, UNCHANGED <<phase, toClient, toServer>>
      PROVE  Dialogue'
  <2>1. Noise(toClient, toClient', "ping") /\ Noise(toServer, toServer', "pong")
    BY <1>2 DEF Noise
  <2> QED
    BY <1>1, <1>2, <2>1, DialogueGoesOn
<1>3. CASE UseSend
  BY <1>3, DialogueInAnswer
<1>4. CASE CloseSocket \/ ResetSocket \/ StopContext
  BY <1>4 DEF CloseSocket, ResetSocket, StopContext, InputGoes, MainReads, Live
<1>5. CASE Enter \/ Call \/ CheckSend \/ Loop
  <2>1. UNCHANGED <<phase, toClient, toServer, mainVars, callback, sharedVars>>
    BY <1>5 DEF Enter, Call, CheckSend, Loop, serverVars, wireVars
  <2>2. /\ input \notin {"none", "finished"} /\ input' \notin {"none", "reset", "stop"}
        /\ input' = "finished" => ~ running
    BY <1>5 DEF Enter, Call, CheckSend, Loop, InputGoes, Live
  <2>3. ThreadGoesOn /\ MainReads'
    BY <2>1, <2>2 DEF mainVars, sharedVars, ThreadGoesOn, Silent, Answered, AsksFor, Asked, MayAnswer, MainReads
  <2> QED
    BY <1>2, <2>1, <2>3
<1> QED
  BY <1>3, <1>4, <1>5 DEF InputStep

\* What the server writes, and what it does when nobody is told anything.
LEMMA TurnsTell ==
  ASSUME WireInv, Live, NEW from, NEW to, NEW x \in ClientMessage,
         Turns(from, to, <<x>>) \/ Turns(from, to, <<>>)
  PROVE  /\ phase \in from /\ phase' = to
         /\ Turns(from, to, <<x>>) => toClient' = Append(toClient, x)
         /\ Turns(from, to, <<>>) => toClient' = toClient
<1>1. toClient \in Seq(ClientMessage) /\ wire = "up"
  BY DEF WireInv, Live
<1> QED
  BY <1>1, Appended DEF Turns

\* What a message makes of what the client is told yet.
LEMMA TellsOneMore ==
  ASSUME WireInv, NEW x \in ClientMessage, toClient' = Append(toClient, x)
  PROVE  /\ \A A : ToldNothing /\ x \in A => Told(A)'
         /\ Told(TurnRequests) /\ x = "gameEnd" =>
              Two(toClient, "ping", TurnRequests, {"gameEnd"})'
<1>1. toClient \in Seq(ClientMessage) /\ "ping" \in ClientMessage
  BY DEF WireInv, ClientMessage
<1>2. ASSUME NEW A, ToldNothing, x \in A PROVE Told(A)'
  <2>1. One(Append(toClient, x), "ping", A)
    BY <1>1, <1>2, OnlyAppended DEF ToldNothing
  <2> QED
    BY <2>1 DEF Told
<1>3. ASSUME Told(TurnRequests), x = "gameEnd" PROVE Two(toClient, "ping", TurnRequests, {"gameEnd"})'
  <2>1. Two(Append(toClient, x), "ping", TurnRequests, {"gameEnd"})
    BY <1>1, <1>3, OneAppended DEF Told
  <2> QED
    BY <2>1
<1> QED
  BY <1>2, <1>3

\* None of the server's steps is one of the client's threads.
ThreadsWait == UNCHANGED <<io, after, reading, input, callback, running, crashed, stopped, socket>>

LEMMA ThreadsStay ==
  ASSUME ThreadsWait
  PROVE  /\ Silent' = Silent /\ Answered' = Answered /\ MainReads' = MainReads
         /\ MayAnswer("turn")' = MayAnswer("turn")
         /\ AsksFor("ready")' = AsksFor("ready") /\ AsksFor("turn")' = AsksFor("turn")
BY DEF ThreadsWait, Silent, Answered, MainReads, MayAnswer, AsksFor, Asked

\* A game starts or goes on when its players have answered.
LEMMA DialogueInPlay ==
  ASSUME WireInv, Live, ThreadsWait, ToldNothing, Answered, SaidNothing', NEW from, Plays(from)
  PROVE  Dialogue'
<1>1. "takeTurn" \in ClientMessage
  BY DEF ClientMessage
<1>2. Answered'
  BY ThreadsStay
<1>3. CASE Turns(from, "game", <<>>)
  <2>1. phase' = "game" /\ toClient' = toClient
    BY <1>1, <1>3, TurnsTell
  <2>2. ToldNothing'
    BY <2>1 DEF ToldNothing
  <2> QED
    BY <1>2, <2>1, <2>2 DEF Dialogue
<1>4. CASE Turns(from, "asked", <<"takeTurn">>)
  <2>1. phase' = "asked" /\ toClient' = Append(toClient, "takeTurn")
    BY <1>1, <1>4, TurnsTell
  <2>2. Told(TurnRequests)'
    BY <1>1, <2>1, TellsOneMore DEF TurnRequests
  <2> QED
    BY <1>2, <2>1, <2>2 DEF Dialogue
<1> QED
  BY <1>3, <1>4 DEF Plays

LEMMA DialogueInOthers ==
  ASSUME ClientInv, Live, Dialogue, MainReads, OthersStep
  PROVE  Dialogue' /\ MainReads'
<1>1. /\ WireInv
      /\ {"connected", "gameEnd"} \subseteq ClientMessage
  BY Parts DEF ClientMessage
<1>2. ThreadsWait /\ toServer' = toServer
  BY DEF OthersStep, ThreadsWait, mainVars, inputVars, sharedVars
<1>3. MainReads' /\ Silent' = Silent /\ Answered' = Answered /\ AsksFor("turn")' = AsksFor("turn")
  BY <1>2, ThreadsStay
<1>4. SaidNothing' = SaidNothing /\ Said("turn")' = Said("turn")
  BY <1>2 DEF SaidNothing, Said
<1>5. CASE Turns({"queued"}, "lobby", <<"connected">>)
  <2>1. phase = "queued" /\ phase' = "lobby" /\ toClient' = Append(toClient, "connected")
    BY <1>1, <1>5, TurnsTell
  <2>2. ToldNothing /\ Silent /\ SaidNothing
    BY <2>1 DEF Dialogue
  <2>3. Told({"connected"})' /\ Silent' /\ SaidNothing'
    BY <1>1, <1>3, <1>4, <2>1, <2>2, TellsOneMore
  <2> QED
    BY <1>3, <2>1, <2>3 DEF Dialogue
<1>6. CASE Plays({"ready"}) \/ Turns({"game"}, "asked", <<"takeTurn">>)
  <2>1. phase \in {"ready", "game"}
    BY <1>6 DEF Plays, Turns
  <2>2. ToldNothing /\ Answered /\ SaidNothing
    BY <2>1 DEF Dialogue
  <2>3. SaidNothing'
    BY <1>4, <2>2
  <2>4. Plays({"ready"}) \/ Plays({"game"})
    BY <1>6 DEF Plays
  <2> QED
    BY <1>1, <1>2, <1>3, <2>2, <2>3, <2>4, DialogueInPlay
<1>7. CASE Turns({"game", "asked"}, "lobby", <<"gameEnd">>)
  <2>1. phase \in {"game", "asked"} /\ phase' = "lobby" /\ toClient' = Append(toClient, "gameEnd")
    BY <1>1, <1>7, TurnsTell
  <2>2. ToldNothing => Told({"gameEnd"})'
    BY <1>1, <2>1, TellsOneMore
  <2>3. CASE ToldNothing /\ Answered /\ (SaidNothing \/ Said("turn"))
    <3>1. Told({"gameEnd"})' /\ Answered' /\ (SaidNothing' \/ Said("turn")')
      BY <1>3, <1>4, <2>2, <2>3
    <3> QED
      BY <1>3, <2>1, <3>1 DEF Dialogue
  <2>4. CASE Told(TurnRequests) /\ Answered /\ SaidNothing
    <3>1. Two(toClient, "ping", TurnRequests, {"gameEnd"})' /\ Answered' /\ SaidNothing'
      BY <1>1, <1>3, <1>4, <2>1, <2>4, TellsOneMore
    <3> QED
      BY <1>3, <2>1, <3>1 DEF Dialogue
  <2>5. CASE ToldNothing /\ AsksFor("turn") /\ SaidNothing
    <3>1. Told({"gameEnd"})' /\ AsksFor("turn")' /\ SaidNothing'
      BY <1>3, <1>4, <2>2, <2>5
    <3> QED
      BY <1>3, <2>1, <3>1 DEF Dialogue
  <2> QED
    BY <2>1, <2>3, <2>4, <2>5 DEF Dialogue
<1> QED
  BY <1>5, <1>6, <1>7 DEF OthersStep

LEMMA DialogueInReads ==
  ASSUME ClientInv, Live, Live', Dialogue, MainReads, ServerReads
  PROVE  Dialogue' /\ MainReads'
<1>1. /\ WireInv
      /\ {"rejected", "gameEnd"} \subseteq ClientMessage
  BY Parts DEF ClientMessage
<1>2. ASSUME NEW m, Receives(m)
      PROVE  /\ ThreadsWait /\ MainReads'
             /\ toServer # <<>> /\ Head(toServer) = m /\ toServer' = Tail(toServer)
  <2>1. ThreadsWait
    BY <1>2 DEF Receives, ThreadsWait, mainVars, inputVars, sharedVars
  <2> QED
    BY <1>2, <2>1, ThreadsStay DEF Receives
<1>3. CASE ReceiveReady
  <2>1. /\ ThreadsWait /\ MainReads'
        /\ toServer # <<>> /\ Head(toServer) = "ready" /\ toServer' = Tail(toServer)
    BY <1>2, <1>3 DEF ReceiveReady
  <2>2. ToldNothing /\ Answered /\ SaidNothing'
    BY <1>1, <2>1, HeadSays DEF SaidNothing
  <2>3. CASE Turns({"lobby"}, "ready", <<>>)
    <3>1. phase' = "ready" /\ toClient' = toClient
      BY <1>1, <2>3, TurnsTell
    <3>2. ToldNothing' /\ Answered'
      BY <2>1, <2>2, <3>1, ThreadsStay DEF ToldNothing
    <3> QED
      BY <2>1, <2>2, <3>1, <3>2 DEF Dialogue
  <2>4. CASE Plays({"lobby"})
    BY <1>1, <2>1, <2>2, <2>4, DialogueInPlay
  <2> QED
    BY <1>3, <2>3, <2>4 DEF ReceiveReady
<1>4. CASE ReceiveTurn
  <2>1. /\ ThreadsWait /\ MainReads'
        /\ toServer # <<>> /\ Head(toServer) = "turn" /\ toServer' = Tail(toServer)
    BY <1>2, <1>4 DEF ReceiveTurn
  <2>2. /\ Answered' = Answered /\ AsksFor("ready")' = AsksFor("ready")
    BY <2>1, ThreadsStay
  <2>3. CASE phase # "asked" /\ UNCHANGED <<phase, toClient>>
    <3>1. CASE ToldNothing /\ AsksFor("ready") /\ Only(Tail(toServer), "pong")
      <4>1. ToldNothing' /\ AsksFor("ready")' /\ SaidNothing'
        BY <2>1, <2>2, <2>3, <3>1 DEF ToldNothing, SaidNothing
      <4>2. phase' = "lobby"
        BY <1>1, <2>1, <2>3, HeadSays
      <4> QED
        BY <2>1, <4>1, <4>2 DEF Dialogue
    <3>2. CASE ToldNothing /\ Answered /\ One(Tail(toServer), "pong", {"ready"})
      <4>1. ToldNothing' /\ Answered' /\ Said("ready")'
        BY <2>1, <2>2, <2>3, <3>2 DEF ToldNothing, Said
      <4>2. phase' = "lobby"
        BY <1>1, <2>1, <2>3, HeadSays
      <4> QED
        BY <2>1, <4>1, <4>2 DEF Dialogue
    <3>3. CASE Told({"gameEnd"}) /\ Answered /\ Only(Tail(toServer), "pong")
      <4>1. Told({"gameEnd"})' /\ Answered' /\ SaidNothing'
        BY <2>1, <2>2, <2>3, <3>3 DEF Told, SaidNothing
      <4>2. phase' = "lobby"
        BY <1>1, <2>1, <2>3, HeadSays
      <4> QED
        BY <2>1, <4>1, <4>2 DEF Dialogue
    <3> QED
      BY <1>1, <2>1, <2>3, <3>1, <3>2, <3>3, HeadSays
  <2>4. CASE phase = "asked"
    <3>1. ToldNothing /\ Answered' /\ SaidNothing'
      BY <1>1, <2>1, <2>2, <2>4, HeadSays DEF SaidNothing
    <3>2. CASE Turns({"asked"}, "game", <<>>)
      <4>1. phase' = "game" /\ toClient' = toClient
        BY <1>1, <3>2, TurnsTell
      <4>2. ToldNothing'
        BY <3>1, <4>1 DEF ToldNothing
      <4> QED
        BY <2>1, <3>1, <4>1, <4>2 DEF Dialogue
    <3>3. CASE Turns({"asked"}, "lobby", <<"gameEnd">>)
      <4>1. phase' = "lobby" /\ toClient' = Append(toClient, "gameEnd")
        BY <1>1, <3>3, TurnsTell
      <4>2. Told({"gameEnd"})'
        BY <1>1, <3>1, <4>1, TellsOneMore
      <4> QED
        BY <2>1, <3>1, <4>1, <4>2 DEF Dialogue
    <3>4. CASE Turns({"asked"}, "asked", <<"rejected">>)
      <4>1. phase' = "asked" /\ toClient' = Append(toClient, "rejected")
        BY <1>1, <3>4, TurnsTell
      <4>2. Told(TurnRequests)'
        BY <1>1, <3>1, <4>1, TellsOneMore DEF TurnRequests
      <4> QED
        BY <2>1, <3>1, <4>1, <4>2 DEF Dialogue
    <3> QED
      BY <1>4, <2>4, <3>2, <3>3, <3>4 DEF ReceiveTurn
  <2> QED
    BY <1>4, <2>3, <2>4 DEF ReceiveTurn, Turns
<1>5. CASE ReceivePong
  <2>1. /\ ThreadsWait /\ MainReads'
        /\ toServer # <<>> /\ Head(toServer) = "pong" /\ toServer' = Tail(toServer)
        /\ UNCHANGED <<phase, toClient>>
    BY <1>2, <1>5 DEF ReceivePong
  <2>2. Noise(toClient, toClient', "ping") /\ Noise(toServer, toServer', "pong")
    BY <2>1 DEF Noise
  <2>3. ThreadGoesOn
    BY <2>1, ThreadsStay DEF ThreadGoesOn
  <2> QED
    BY <1>1, <2>1, <2>2, <2>3, DialogueGoesOn
<1>6. CASE ReadClosed
  BY <1>6 DEF ReadClosed, Live
<1> QED
  BY <1>3, <1>4, <1>5, <1>6 DEF ServerReads

LEMMA DialogueInTimer ==
  ASSUME ClientInv, Live, Live', Dialogue, MainReads, PingTimer
  PROVE  Dialogue' /\ MainReads'
<1>1. WireInv
  BY Parts
<1>2. ThreadsWait /\ UNCHANGED <<phase, toServer>>
  BY DEF PingTimer, ThreadsWait, mainVars, inputVars, sharedVars
<1>3. toClient' = Append(toClient, "ping")
  BY DEF PingTimer, Ping, Live
<1>4. Noise(toClient, toClient', "ping") /\ Noise(toServer, toServer', "pong")
  BY <1>2, <1>3 DEF Noise
<1>5. ThreadGoesOn /\ MainReads'
  BY <1>2, ThreadsStay DEF ThreadGoesOn
<1> QED
  BY <1>1, <1>2, <1>4, <1>5, DialogueGoesOn

\* The conversation is at one of its stages after every step that leaves the client there.
LEMMA DialogueKept ==
  ASSUME ClientInv, Live, Live', Dialogue, MainReads, [Next]_vars
  PROVE  Dialogue' /\ MainReads'
<1>1. CASE MainStep
  BY <1>1, DialogueInMain
<1>2. CASE Enter \/ InputStep
  BY <1>2, DialogueInInput
<1>3. CASE OthersStep
  BY <1>3, DialogueInOthers
<1>4. CASE ServerReads
  BY <1>4, DialogueInReads
<1>5. CASE PingTimer
  BY <1>5, DialogueInTimer
<1>6. CASE WireFails
  BY <1>6 DEF WireFails, Live
<1>7. CASE UNCHANGED vars
  <2>1. ThreadGoesOn /\ MainReads' /\ UNCHANGED phase
    BY <1>7 DEF vars, mainVars, inputVars, sharedVars, serverVars, ThreadGoesOn, Silent, Answered, AsksFor,
                Asked, MayAnswer, MainReads
  <2>2. Noise(toClient, toClient', "ping") /\ Noise(toServer, toServer', "pong")
    BY <1>7 DEF vars, wireVars, Noise
  <2> QED
    BY <2>1, <2>2, DialogueGoesOn, Parts
<1> QED
  BY <1>1, <1>2, <1>3, <1>4, <1>5, <1>6, <1>7 DEF Next

-----------------------------------------------------------------------------
(***************************************************************************)
(* The pings.                                                              *)
(***************************************************************************)

\* What Pings counts, part by part.
PingsLeft == Count(toClient, "ping")
PongsLeft == Count(toServer, "pong")
InHandler == io \in {"pong", "usePong"}

LEMMA PingsAre ==
  /\ Pings = PingsLeft + PongsLeft + (IF InHandler THEN 1 ELSE 0)
  /\ Pings' = PingsLeft' + PongsLeft' + (IF InHandler' THEN 1 ELSE 0)
BY DEF Pings, PingsLeft, PongsLeft, InHandler

LEMMA PingsAreNumbers ==
  ASSUME WireInv
  PROVE  PingsLeft \in Nat /\ PongsLeft \in Nat
<1>1. toClient \in Seq(ClientMessage) /\ toServer \in Seq(ServerMessage)
      /\ "ping" \in ClientMessage /\ "pong" \in ServerMessage
  BY DEF WireInv, ClientMessage, ServerMessage
<1> QED
  BY <1>1, CountAppended DEF PingsLeft, PongsLeft

\* What may be done to the messages for a client, and for the server.
LEMMA ClientMessageMoved ==
  ASSUME WireInv
  PROVE  /\ \A x \in ClientMessage :
              toClient' = Append(toClient, x) =>
                PingsLeft' = IF x = "ping" THEN PingsLeft + 1 ELSE PingsLeft
         /\ toClient # <<>> /\ toClient' = Tail(toClient) =>
              /\ PingsLeft' \in Nat
              /\ PingsLeft = IF Head(toClient) = "ping" THEN PingsLeft' + 1 ELSE PingsLeft'
         /\ toClient' = toClient => PingsLeft' = PingsLeft
<1>1. toClient \in Seq(ClientMessage)
  BY DEF WireInv
<1>2. ASSUME NEW x \in ClientMessage, toClient' = Append(toClient, x)
      PROVE  PingsLeft' = IF x = "ping" THEN PingsLeft + 1 ELSE PingsLeft
  <2>1. Count(Append(toClient, x), "ping")
          = IF x = "ping" THEN Count(toClient, "ping") + 1 ELSE Count(toClient, "ping")
    BY <1>1, CountAppended
  <2> QED
    BY <1>2, <2>1 DEF PingsLeft
<1>3. ASSUME toClient # <<>>, toClient' = Tail(toClient)
      PROVE  /\ PingsLeft' \in Nat
             /\ PingsLeft = IF Head(toClient) = "ping" THEN PingsLeft' + 1 ELSE PingsLeft'
  <2>1. /\ Count(Tail(toClient), "ping") \in Nat
        /\ Count(toClient, "ping") = IF Head(toClient) = "ping" THEN Count(Tail(toClient), "ping") + 1
                                    ELSE Count(Tail(toClient), "ping")
    BY <1>1, <1>3, CountShortened
  <2> QED
    BY <1>3, <2>1 DEF PingsLeft
<1>4. toClient' = toClient => PingsLeft' = PingsLeft
  BY DEF PingsLeft
<1> QED
  BY <1>2, <1>3, <1>4

LEMMA ServerMessageMoved ==
  ASSUME WireInv
  PROVE  /\ \A x \in ServerMessage :
              toServer' = Append(toServer, x) =>
                PongsLeft' = IF x = "pong" THEN PongsLeft + 1 ELSE PongsLeft
         /\ toServer # <<>> /\ toServer' = Tail(toServer) /\ Head(toServer) # "pong" =>
              PongsLeft' = PongsLeft
         /\ toServer' = toServer => PongsLeft' = PongsLeft
<1>1. toServer \in Seq(ServerMessage)
  BY DEF WireInv
<1>2. ASSUME NEW x \in ServerMessage, toServer' = Append(toServer, x)
      PROVE  PongsLeft' = IF x = "pong" THEN PongsLeft + 1 ELSE PongsLeft
  <2>1. Count(Append(toServer, x), "pong")
          = IF x = "pong" THEN Count(toServer, "pong") + 1 ELSE Count(toServer, "pong")
    BY <1>1, CountAppended
  <2> QED
    BY <1>2, <2>1 DEF PongsLeft
<1>3. ASSUME toServer # <<>>, toServer' = Tail(toServer), Head(toServer) # "pong"
      PROVE  PongsLeft' = PongsLeft
  <2>1. Count(toServer, "pong") = Count(Tail(toServer), "pong")
    BY <1>1, <1>3, CountShortened
  <2> QED
    BY <1>3, <2>1 DEF PongsLeft
<1>4. toServer' = toServer => PongsLeft' = PongsLeft
  BY DEF PongsLeft
<1> QED
  BY <1>2, <1>3, <1>4

\* One step per action of the client: a ping is handed from one place to the next.
LEMMA ClientKeepsPings ==
  ASSUME ClientInv, Live, Live', MainStep \/ Enter \/ InputStep
  PROVE  Pings' = Pings /\ UNCHANGED <<receivedPong, missedPongs>>
<1>1. WireInv /\ UNCHANGED <<receivedPong, missedPongs>>
  BY Parts DEF MainStep, ReadCompletes, HandleMessage, HandleError, CheckSocket, UseSocket, Join,
               RunReturns, Enter, InputStep, Call, CheckSend, UseSend, CloseSocket, ResetSocket,
               StopContext, Loop, serverVars
<1>2. ASSUME UNCHANGED <<toClient, toServer>>, InHandler' = InHandler
      PROVE  Pings' = Pings
  BY <1>2, PingsAre DEF PingsLeft, PongsLeft
<1>3. CASE ReadCompletes
  BY <1>1, <1>2, <1>3 DEF ReadCompletes, InRun, wireVars, InHandler
<1>4. CASE HandleMessage
  <2>1. io = "handle" /\ toClient # <<>> /\ toClient' = Tail(toClient) /\ UNCHANGED toServer
    BY <1>4 DEF HandleMessage, ClientInv
  <2>2. ~ InHandler /\ PongsLeft' = PongsLeft /\ PongsLeft \in Nat
        /\ PingsLeft' \in Nat
        /\ PingsLeft = IF Head(toClient) = "ping" THEN PingsLeft' + 1 ELSE PingsLeft'
    BY <1>1, <2>1, ClientMessageMoved, ServerMessageMoved, PingsAreNumbers DEF InHandler
  <2>3. IF Head(toClient) = "ping" THEN io' = "pong" ELSE io' \in {"join", "rearm"}
    BY <1>4 DEF HandleMessage, StartAndReadOn, Restart, TurnRequest, Stop
  <2>4. CASE Head(toClient) = "ping"
    <3>1. PingsLeft = PingsLeft' + 1 /\ InHandler'
      BY <2>2, <2>3, <2>4 DEF InHandler
    <3>2. Pings = PingsLeft' + 1 + PongsLeft /\ Pings' = PingsLeft' + PongsLeft + 1
      BY <2>2, <3>1, PingsAre
    <3> QED
      BY <1>1, <2>2, <3>2
  <2>5. CASE Head(toClient) # "ping"
    <3>1. PingsLeft = PingsLeft' /\ ~ InHandler'
      BY <2>2, <2>3, <2>5 DEF InHandler
    <3> QED
      BY <1>1, <2>2, <3>1, PingsAre
  <2> QED
    BY <2>4, <2>5
<1>5. CASE HandleError
  BY <1>1, <1>2, <1>5 DEF HandleError, ReadFails, InRun, Stop, wireVars, InHandler
<1>6. CASE CheckSocket
  BY <1>1, <1>2, <1>6 DEF CheckSocket, wireVars, InHandler, Live
<1>7. CASE UseSocket /\ io = "useRead"
  BY <1>1, <1>2, <1>7 DEF UseSocket, InHandler
<1>8. CASE UseSocket /\ io = "usePong"
  <2>1. io' = "rearm" /\ toServer' = Append(toServer, "pong") /\ UNCHANGED toClient
    BY <1>8 DEF UseSocket, Written, Live
  <2>2. InHandler /\ ~ InHandler'
    BY <1>8, <2>1 DEF InHandler
  <2>3. PongsLeft' = PongsLeft + 1 /\ PingsLeft' = PingsLeft /\ PongsLeft \in Nat /\ PingsLeft \in Nat
    BY <1>1, <2>1, ClientMessageMoved, ServerMessageMoved, PingsAreNumbers DEF ServerMessage
  <2>4. Pings' = Pings
    BY <2>2, <2>3, PingsAre
  <2> QED
    BY <1>1, <2>4
<1>9. CASE Join
  <2>1. ~ InHandler /\ ~ InHandler' /\ UNCHANGED <<toClient, toServer>>
    BY <1>9, Parts DEF Join, wireVars, InHandler, MainInv
  <2> QED
    BY <1>1, <1>2, <2>1 DEF InHandler
<1>10. CASE RunReturns
  BY <1>1, <1>2, <1>10 DEF RunReturns, Stop, wireVars, InHandler
<1>11. CASE UseSend
  <2>1. /\ toServer' = Append(toServer, callback) /\ callback \in {"ready", "turn"}
        /\ UNCHANGED <<io, toClient>>
    BY <1>11 DEF UseSend, Written, mainVars, Live, ClientInv, TypeOK
  <2>2. PongsLeft' = PongsLeft /\ PingsLeft' = PingsLeft /\ InHandler' = InHandler
    BY <1>1, <2>1, ClientMessageMoved, ServerMessageMoved DEF InHandler, ServerMessage
  <2> QED
    BY <1>1, <2>2, PingsAre
<1>12. CASE Enter \/ Call \/ CheckSend \/ CloseSocket \/ ResetSocket \/ StopContext \/ Loop
  <2>1. UNCHANGED <<io, toClient, toServer>>
    BY <1>12 DEF Enter, Call, CheckSend, CloseSocket, ResetSocket, StopContext, Loop, mainVars, wireVars
  <2> QED
    BY <1>1, <1>2, <2>1 DEF InHandler
<1> QED
  BY <1>1, <1>3, <1>4, <1>5, <1>6, <1>7, <1>8, <1>9, <1>10, <1>11, <1>12 DEF MainStep, InputStep, UseSocket

\* Messages that are no pings, to the client, and no pongs, from it, leave the pings alone.
LEMMA TurnsKeepPings ==
  ASSUME WireInv, Live, NEW from, NEW to,
         Turns(from, to, <<>>) \/ \E x \in ClientMessage \ {"ping"} : Turns(from, to, <<x>>),
         \/ toServer' = toServer
         \/ toServer # <<>> /\ Head(toServer) # "pong" /\ toServer' = Tail(toServer),
         UNCHANGED io
  PROVE  Pings' = Pings
<1>1. toClient' = toClient \/ \E x \in ClientMessage \ {"ping"} : toClient' = Append(toClient, x)
  <2>1. CASE Turns(from, to, <<>>)
    <3>1. "ping" \in ClientMessage
      BY DEF ClientMessage
    <3> QED
      BY <2>1, <3>1, TurnsTell
  <2>2. ASSUME NEW x \in ClientMessage \ {"ping"}, Turns(from, to, <<x>>)
        PROVE  toClient' = Append(toClient, x)
    BY <2>2, TurnsTell
  <2> QED
    BY <2>1, <2>2
<1>2. PingsLeft' = PingsLeft
  BY <1>1, ClientMessageMoved
<1>3. PongsLeft' = PongsLeft
  BY ServerMessageMoved
<1> QED
  BY <1>2, <1>3, PingsAre DEF InHandler

\* What other players bring about, and what the client says but its pongs.
LEMMA ServerKeepsPings ==
  ASSUME ClientInv, Live, OthersStep \/ ReceiveReady \/ ReceiveTurn
  PROVE  Pings' = Pings /\ UNCHANGED <<receivedPong, missedPongs>>
<1>1. WireInv
      /\ {"connected", "takeTurn", "gameEnd", "rejected"} \subseteq ClientMessage \ {"ping"}
  BY Parts DEF ClientMessage
<1>2. ASSUME NEW m, Receives(m)
      PROVE  /\ toServer # <<>> /\ Head(toServer) = m /\ toServer' = Tail(toServer)
             /\ UNCHANGED <<io, missedPongs>>
  BY <1>2 DEF Receives, mainVars
<1>3. CASE OthersStep
  <2>1. UNCHANGED <<toServer, io, receivedPong, missedPongs>>
    BY <1>3 DEF OthersStep, mainVars
  <2>2. CASE Turns({"queued"}, "lobby", <<"connected">>)
    BY <1>1, <2>1, <2>2, TurnsKeepPings
  <2>3. CASE Turns({"ready"}, "game", <<>>)
    BY <1>1, <2>1, <2>3, TurnsKeepPings
  <2>4. CASE Turns({"ready"}, "asked", <<"takeTurn">>)
    BY <1>1, <2>1, <2>4, TurnsKeepPings
  <2>5. CASE Turns({"game"}, "asked", <<"takeTurn">>)
    BY <1>1, <2>1, <2>5, TurnsKeepPings
  <2>6. CASE Turns({"game", "asked"}, "lobby", <<"gameEnd">>)
    BY <1>1, <2>1, <2>6, TurnsKeepPings
  <2> QED
    BY <1>3, <2>1, <2>2, <2>3, <2>4, <2>5, <2>6 DEF OthersStep, Plays
<1>4. CASE ReceiveReady
  <2>1. /\ toServer # <<>> /\ Head(toServer) # "pong" /\ toServer' = Tail(toServer)
        /\ UNCHANGED <<io, receivedPong, missedPongs>>
    BY <1>2, <1>4 DEF ReceiveReady
  <2>2. CASE Turns({"lobby"}, "ready", <<>>)
    BY <1>1, <2>1, <2>2, TurnsKeepPings
  <2>3. CASE Turns({"lobby"}, "game", <<>>)
    BY <1>1, <2>1, <2>3, TurnsKeepPings
  <2>4. CASE Turns({"lobby"}, "asked", <<"takeTurn">>)
    BY <1>1, <2>1, <2>4, TurnsKeepPings
  <2> QED
    BY <1>4, <2>1, <2>2, <2>3, <2>4 DEF ReceiveReady, Plays
<1>5. CASE ReceiveTurn
  <2>1. /\ toServer # <<>> /\ Head(toServer) # "pong" /\ toServer' = Tail(toServer)
        /\ UNCHANGED <<io, receivedPong, missedPongs>>
    BY <1>2, <1>5 DEF ReceiveTurn
  <2>2. CASE Turns({"asked"}, "game", <<>>)
    BY <1>1, <2>1, <2>2, TurnsKeepPings
  <2>3. CASE Turns({"asked"}, "lobby", <<"gameEnd">>)
    BY <1>1, <2>1, <2>3, TurnsKeepPings
  <2>4. CASE Turns({"asked"}, "asked", <<"rejected">>)
    BY <1>1, <2>1, <2>4, TurnsKeepPings
  <2>5. CASE UNCHANGED toClient
    <3>1. PongsLeft' = PongsLeft /\ PingsLeft' = PingsLeft /\ InHandler' = InHandler
      BY <1>1, <2>1, <2>5, ClientMessageMoved, ServerMessageMoved DEF InHandler
    <3> QED
      BY <2>1, <3>1, PingsAre
  <2> QED
    BY <1>5, <2>1, <2>2, <2>3, <2>4, <2>5 DEF ReceiveTurn
<1> QED
  BY <1>3, <1>4, <1>5

\* What the timer makes of the counts: one more miss, one more ping.
LEMMA TimerCounts ==
  ASSUME ClientInv, MissesAreUnderWay, Live, PingTimer
  PROVE  /\ clientIsConnected' => Pings' > missedPongs'
         /\ ~ clientIsConnected' => Pings > MaxMissed
<1>1. WireInv /\ "ping" \in ClientMessage /\ missedPongs \in Nat /\ MaxMissed \in Nat
  BY Parts, ClientAssumption DEF ServerInv, ClientMessage
<1>2. missedPongs' = Missed /\ Missed \in Nat /\ UNCHANGED <<io, toServer>>
  BY <1>1 DEF PingTimer, Missed, mainVars
<1>3. PingsLeft \in Nat /\ PongsLeft \in Nat
  BY <1>1, PingsAreNumbers
<1>4. Pings \in Nat
  BY <1>3, PingsAre
<1>5. Pings >= Missed
  <2>1. CASE receivedPong
    BY <1>4, <2>1 DEF Missed
  <2>2. CASE ~ receivedPong
    BY <1>1, <1>4, <2>2 DEF Missed, MissesAreUnderWay, Live
  <2> QED
    BY <2>1, <2>2
<1>6. CASE ~ TooMany(Missed) /\ Ping
  <2>1. toClient' = Append(toClient, "ping") /\ clientIsConnected' = clientIsConnected
    BY <1>6 DEF Ping, Live
  <2>2. PingsLeft' = PingsLeft + 1 /\ PongsLeft' = PongsLeft /\ InHandler' = InHandler
    BY <1>1, <1>2, <2>1, ClientMessageMoved, ServerMessageMoved DEF InHandler
  <2>3. Pings' = Pings + 1
    BY <1>3, <2>2, PingsAre
  <2>4. Pings' > missedPongs'
    BY <1>2, <1>4, <1>5, <2>3
  <2> QED
    BY <2>1, <2>4 DEF Live
<1>7. CASE TooMany(Missed) /\ clientIsConnected' = FALSE
  BY <1>1, <1>2, <1>4, <1>5, <1>7 DEF TooMany
<1> QED
  BY <1>6, <1>7 DEF PingTimer

LEMMA InitMisses == Init => MissesAreUnderWay
<1> SUFFICES ASSUME Init PROVE Pings > missedPongs
  BY DEF MissesAreUnderWay
<1>1. toClient = <<"ping">> /\ missedPongs = 0
  BY DEF Init
<1>2. PongsLeft \in Nat
  BY InitInv, Parts, PingsAreNumbers
<1>3. PingsLeft \in Nat /\ PingsLeft # 0
  <2>1. toClient \in Seq(ClientMessage) /\ toClient # <<>> /\ Head(toClient) = "ping"
    BY <1>1 DEF ClientMessage
  <2>2. /\ Count(Tail(toClient), "ping") \in Nat
        /\ Count(toClient, "ping") = Count(Tail(toClient), "ping") + 1
    BY <2>1, CountShortened
  <2> QED
    BY <2>2 DEF PingsLeft
<1> QED
  BY <1>1, <1>2, <1>3, PingsAre

\* One step per action.
LEMMA NextMisses ==
  ASSUME ClientInv, MissesAreUnderWay, [Next]_vars
  PROVE  MissesAreUnderWay'
<1> SUFFICES ASSUME Live', ~ receivedPong' PROVE Pings' > missedPongs'
  BY DEF MissesAreUnderWay, Live
<1>1. Live
  BY LiveStays
<1>2. ASSUME Pings' = Pings, UNCHANGED <<receivedPong, missedPongs>>
      PROVE  Pings' > missedPongs'
  BY <1>1, <1>2 DEF MissesAreUnderWay, Live
<1>3. CASE MainStep \/ Enter \/ InputStep
  BY <1>1, <1>2, <1>3, ClientKeepsPings
<1>4. CASE OthersStep \/ ReceiveReady \/ ReceiveTurn
  BY <1>1, <1>2, <1>4, ServerKeepsPings
<1>5. CASE ReceivePong
  BY <1>5 DEF ReceivePong
<1>6. CASE ReadClosed \/ WireFails
  BY <1>6 DEF ReadClosed, WireFails, Live
<1>7. CASE PingTimer
  BY <1>1, <1>7, TimerCounts DEF Live
<1>8. CASE UNCHANGED vars
  BY <1>2, <1>8, PingsAre DEF vars, mainVars, serverVars, wireVars, InHandler, PingsLeft, PongsLeft
<1> QED
  BY <1>3, <1>4, <1>5, <1>6, <1>7, <1>8 DEF Next, ServerReads

LEMMA InitDialogue == Init => DialogueInv
<1> SUFFICES ASSUME Init PROVE Dialogue /\ MainReads
  BY DEF DialogueInv
<1>1. /\ io = "rearm" /\ stopped = FALSE /\ crashed = "no" /\ input = "none" /\ phase = "queued"
      /\ toClient = <<"ping">> /\ toServer = <<>>
  BY DEF Init
<1>2. Dialogue
  BY <1>1 DEF Dialogue, ToldNothing, SaidNothing, Silent, Only
<1>3. MainReads
  BY <1>1 DEF MainReads
<1> QED
  BY <1>2, <1>3

LEMMA NextDialogue ==
  ASSUME ClientInv, DialogueInv, [Next]_vars
  PROVE  DialogueInv'
<1> SUFFICES ASSUME Live' PROVE Dialogue' /\ MainReads'
  BY DEF DialogueInv
<1>1. Live /\ Dialogue /\ MainReads
  BY LiveStays DEF DialogueInv
<1> QED
  BY <1>1, DialogueKept

\* As long as a client is there, the server, the client's two threads and the messages
\* between them are at one of the stages that Dialogue lists (handleRead of both ends,
\* InputWorker, pingOnTimer).
THEOREM ConversationHolds == Spec => []DialogueInv
BY ClientInductive, InitDialogue, NextDialogue, PTL DEF Spec

\* No prompt is lost: when the client has handled all it was sent, its user is asked for
\* what the lobby waits for, or the answer is under way (handleConnected,
\* handleTurnRequest, handleGameEnd and InputWorker::restart).
THEOREM NoPromptIsLost == Spec => []PromptIsShown
<1>1. ASSUME ClientInv, DialogueInv PROVE PromptIsShown
  <2>1. SUFFICES ASSUME InRun, socket = "open", toClient = <<>>, wire = "up", clientIsConnected
                 PROVE  /\ phase = "lobby" => Asked("ready") \/ SentToServer("ready")
                        /\ phase = "asked" => Asked("turn") \/ SentToServer("turn")
    BY DEF PromptIsShown
  <2>2. Dialogue /\ io = "run" /\ toClient = <<>>
    BY <1>1, <2>1 DEF DialogueInv, Live, InRun
  <2>3. ASSUME NEW A PROVE ~ Told(A)
    BY <2>2 DEF Told, One
  <2>4. ~ Two(toClient, "ping", TurnRequests, {"gameEnd"})
    BY <2>2 DEF Two
  <2>5. ASSUME NEW cb, AsksFor(cb) PROVE Asked(cb)
    BY <2>2, <2>5 DEF AsksFor
  <2>6. ASSUME NEW m, Said(m) PROVE SentToServer(m)
    BY <2>6 DEF Said, One, SentToServer
  <2>7. Two(toServer, "pong", {"turn"}, {"ready"}) => SentToServer("ready")
    BY DEF Two, SentToServer
  <2> QED
    BY <2>2, <2>3, <2>4, <2>5, <2>6, <2>7 DEF Dialogue
<1> QED
  BY <1>1, ClientInductive, ConversationHolds, PTL

\* No missed pong is made up: every miss that missedPongs counts is of a ping that is under
\* way still, and so is the last one, whenever the timer expires (pingOnTimer).
THEOREM NoMissIsMadeUp == Spec => []MissesAreUnderWay
BY ClientInductive, InitMisses, NextMisses, PTL DEF Spec

\* The server gives up a client that is there only with more than MaxMissed pings unanswered,
\* and, if only the user is waited for, only while its main thread is blocked in the join of
\* an input thread (pingOnTimer, InputWorker::stop).
THEOREM OnlySilentClientsAreDropped == Spec => OnlyTheSilentAreDropped
<1>1. ASSUME ClientInv, MissesAreUnderWay, [Next]_vars, clientIsConnected, ~ clientIsConnected',
             wire = "up", socket = "open", crashed = "no", io # "done"
      PROVE  Pings > MaxMissed /\ (UserIsWaitedFor => io = "join")
  <2>1. PingTimer
    <3>1. CASE MainStep
      BY <1>1, <3>1 DEF MainStep, ReadCompletes, HandleMessage, HandleError, CheckSocket, UseSocket, Join,
                        RunReturns, serverVars
    <3>2. CASE Enter \/ InputStep
      BY <1>1, <3>2 DEF Enter, InputStep, Call, CheckSend, UseSend, CloseSocket, ResetSocket, StopContext,
                        Loop, serverVars
    <3>3. CASE OthersStep \/ WireFails
      BY <1>1, <3>3 DEF OthersStep, WireFails, serverVars
    <3>4. CASE ServerReads
      BY <1>1, <3>4 DEF ServerReads, ReceiveReady, ReceiveTurn, ReceivePong, Receives, ReadClosed
    <3>5. CASE UNCHANGED vars
      BY <1>1, <3>5 DEF vars, serverVars
    <3> QED
      BY <1>1, <3>1, <3>2, <3>3, <3>4, <3>5 DEF Next
  <2>2. Pings > MaxMissed
    BY <1>1, <2>1, TimerCounts DEF Live
  <2>3. ASSUME UserIsWaitedFor, io # "join" PROVE FALSE
    <3>1. toServer = <<>> /\ toClient = <<>> /\ ~ InHandler
      BY <1>1, <2>3 DEF UserIsWaitedFor, InRun, InHandler
    <3>2. PingsLeft = 0 /\ PongsLeft = 0
      BY <3>1, CountNone DEF PingsLeft, PongsLeft
    <3>3. Pings = 0 /\ MaxMissed \in Nat
      BY <3>1, <3>2, PingsAre, ClientAssumption
    <3> QED
      BY <2>2, <3>3
  <2> QED
    BY <2>2, <2>3
<1>2. ASSUME ClientInv, MissesAreUnderWay, [Next]_vars
      PROVE  [(clientIsConnected /\ ~ clientIsConnected' /\ wire = "up" /\ socket = "open"
                 /\ crashed = "no" /\ io # "done") =>
                Pings > MaxMissed /\ (UserIsWaitedFor => io = "join")]_vars
  BY <1>1, <1>2
<1> QED
  BY <1>2, ClientInductive, NoMissIsMadeUp, PTL DEF Spec, OnlyTheSilentAreDropped
=============================================================================
