----------------------------- MODULE Play_proofs -----------------------------
(***************************************************************************)
(* Proof that PlayInv is an invariant of the server for any number of      *)
(* connections, lobbies and seats where no ping times out falsely; and     *)
(* what follows from it of the games.  IInv, proved in Server_proofs, says *)
(* who sits where; PlayInv says what each of them is asked for.            *)
(***************************************************************************)
EXTENDS Server_proofs

\* The players in the seats of lobby g.
Players(g) == {g.players[s] : s \in Occupied(g)}

LEMMA PlayersOfLobby == \A l : PlayersOf(l) = Players(lobbies[l])
BY DEF PlayersOf, Players

\* Who sits in a lobby belongs to it, and is told from the others by id.
LEMMA PlayerFacts ==
  ASSUME IInv, NEW l \in DOMAIN lobbies, NEW d \in PlayersOf(l)
  PROVE  /\ d \in Connections /\ d \in accepted /\ d \in Attached(l)
         /\ lobby[d] = l /\ lobby[d] # NoLobby
         /\ id[d] \in 1 .. MaxPlayers
         /\ \A e \in PlayersOf(l) : id[e] = id[d] => e = d
<1>1. PICK s \in Occupied(lobbies[l]) : d = lobbies[l].players[s]
  BY DEF PlayersOf
<1>2. \A t \in Occupied(lobbies[l]) :
        LET c == lobbies[l].players[t] IN c \in accepted /\ lobby[c] = l /\ id[c] = t + 1
  BY DEF IInv, LobbiesOK
<1>3. /\ accepted \subseteq Connections
      /\ \A t \in Occupied(lobbies[l]) : t \in 0 .. MaxPlayers - 1
      /\ l # 0 /\ MaxPlayers \in Nat
  BY ConstantFacts DEF IInv, TypeOK, Occupied, Seats
<1>4. \A e \in PlayersOf(l) : id[e] = id[d] => e = d
  <2>1. SUFFICES ASSUME NEW e \in PlayersOf(l), id[e] = id[d]
                 PROVE  e = d
    OBVIOUS
  <2>2. PICK t \in Occupied(lobbies[l]) : e = lobbies[l].players[t]
    BY DEF PlayersOf
  <2>3. t + 1 = s + 1
    BY <1>1, <1>2, <2>1, <2>2
  <2>4. t = s
    BY <1>3, <2>3
  <2> QED
    BY <1>1, <2>2, <2>4
<1> QED
  BY <1>1, <1>2, <1>3, <1>4 DEF Attached, NoLobby

\* Players are counted by the seats they take: as many as numPlayers, so that as
\* many of them as there are seats are all of them.
LEMMA PlayersCount ==
  ASSUME IInv, NEW l \in DOMAIN lobbies
  PROVE  /\ IsFiniteSet(PlayersOf(l))
         /\ Cardinality(PlayersOf(l)) = lobbies[l].numPlayers
         /\ lobbies[l].numPlayers \in Nat /\ lobbies[l].numPlayers <= MaxPlayers
         /\ \A S \in SUBSET PlayersOf(l) :
              /\ IsFiniteSet(S) /\ Cardinality(S) \in Nat
              /\ Cardinality(S) <= lobbies[l].numPlayers
              /\ Cardinality(S) = MaxPlayers => S = PlayersOf(l) /\ IsFull(lobbies[l])
<1> DEFINE g == lobbies[l]
           O == Occupied(g)
           f == [s \in O |-> g.players[s]]
<1>1. LobbyOK(g) /\ g \in Lobby /\ g.numPlayers \in 0 .. MaxPlayers
  BY DEF IInv, LobbiesOK, LobbyOK, Lobby
<1>2. IsFiniteSet(O) /\ Cardinality(O) = g.numPlayers /\ g.numPlayers \in Nat /\ MaxPlayers \in Nat
  BY <1>1, SeatsFinite, ConstantFacts DEF LobbyOK, Counted
<1>3. \A s, t \in O : f[s] = f[t] => s = t
  <2>1. \A s \in O : id[g.players[s]] = s + 1 /\ s \in Int
    BY ConstantFacts DEF IInv, LobbiesOK, Occupied, Seats
  <2> QED
    BY <2>1
<1>4. f \in Bijection(O, PlayersOf(l))
  BY <1>3 DEF Bijection, Injection, Surjection, IsInjective, PlayersOf
<1>5. IsFiniteSet(PlayersOf(l)) /\ Cardinality(PlayersOf(l)) = g.numPlayers
  BY <1>2, <1>4, FS_Bijection DEF ExistsBijection
<1>6. ASSUME NEW S \in SUBSET PlayersOf(l)
      PROVE  /\ IsFiniteSet(S) /\ Cardinality(S) \in Nat
             /\ Cardinality(S) <= g.numPlayers
             /\ Cardinality(S) = MaxPlayers => S = PlayersOf(l) /\ IsFull(g)
  <2>1. /\ IsFiniteSet(S) /\ Cardinality(S) <= g.numPlayers
        /\ Cardinality(S) = g.numPlayers => S = PlayersOf(l)
    BY <1>5, FS_Subset
  <2>2. Cardinality(S) \in Nat
    BY <2>1, FS_CardinalityType
  <2> QED
    BY <1>1, <1>2, <2>1, <2>2 DEF IsFull
<1> QED
  BY <1>1, <1>2, <1>5, <1>6

\* A lobby that plays is full, and all its players are there and ready.
LEMMA AllPresent ==
  ASSUME IInv, NEW l \in DOMAIN lobbies, LobbyInStep(l), lobbies[l].isPlayingGame
  PROVE  /\ IsFull(lobbies[l])
         /\ \A d \in PlayersOf(l) : clientIsReady[d] /\ clientIsConnected[d]
<1>1. ReadyPlayers(l) \in SUBSET PlayersOf(l) /\ Cardinality(ReadyPlayers(l)) = MaxPlayers
  BY DEF LobbyInStep, ReadyPlayers
<1>2. ReadyPlayers(l) = PlayersOf(l) /\ IsFull(lobbies[l])
  BY <1>1, PlayersCount
<1> QED
  BY <1>2 DEF LobbyInStep, ReadyPlayers

\* The players who are ready are counted, and are all of them only in a game.
LEMMA ReadyCount ==
  ASSUME IInv, NEW l \in DOMAIN lobbies, LobbyInStep(l)
  PROVE  /\ IsFiniteSet(ReadyPlayers(l))
         /\ lobbies[l].numReady = Cardinality(ReadyPlayers(l))
         /\ lobbies[l].numReady \in Nat
         /\ lobbies[l].numReady <= lobbies[l].numPlayers
         /\ lobbies[l].numPlayers \in Nat /\ lobbies[l].numPlayers <= MaxPlayers
<1>1. ReadyPlayers(l) \in SUBSET PlayersOf(l)
  BY DEF ReadyPlayers
<1> QED
  BY <1>1, PlayersCount DEF LobbyInStep

\* A lobby that a step leaves as it is stays in step when its players do.
LEMMA QuietLobby ==
  ASSUME NEW l, LobbyInStep(l), lobbies'[l] = lobbies[l],
         \A d \in PlayersOf(l) :
           /\ clientIsReady'[d] = clientIsReady[d]
           /\ clientIsConnected'[d] = clientIsConnected[d]
           /\ clientIsConnected[d] => InStep(d, lobbies[l])'
  PROVE  LobbyInStep(l)'
<1>1. PlayersOf(l)' = PlayersOf(l)
  BY DEF PlayersOf
<1>2. ReadyPlayers(l)' = ReadyPlayers(l)
  BY <1>1 DEF ReadyPlayers
<1>3. \A d \in PlayersOf(l) : IF clientIsConnected'[d] THEN InStep(d, lobbies[l])'
                                                       ELSE ~ clientIsReady'[d]
  BY DEF LobbyInStep
<1> QED
  BY <1>1, <1>2, <1>3 DEF LobbyInStep

\* What a connection's place in its exchange depends on.
SameExchange(d) ==
  /\ id'[d] = id[d]
  /\ clientIsReady'[d] = clientIsReady[d]
  /\ toServer'[d] = toServer[d]
  /\ prompt'[d] = prompt[d]
  /\ closed'[d] = closed[d]

LEMMA SameInStep ==
  ASSUME NEW l, NEW d, SameExchange(d), lobbies'[l] = lobbies[l], InStep(d, lobbies[l])
  PROVE  InStep(d, lobbies[l])'
BY DEF SameExchange, InStep, Idle, IsToMove, IsToBeReady

\* A lobby none of whose players a step concerns.
LEMMA OtherLobby ==
  ASSUME NEW l, LobbyInStep(l), lobbies'[l] = lobbies[l],
         \A d \in PlayersOf(l) : SameExchange(d) /\ clientIsConnected'[d] = clientIsConnected[d]
  PROVE  LobbyInStep(l)'
<1>1. \A d \in PlayersOf(l) : clientIsConnected[d] => InStep(d, lobbies[l])'
  BY SameInStep DEF LobbyInStep
<1>2. \A d \in PlayersOf(l) : clientIsReady'[d] = clientIsReady[d]
  BY DEF SameExchange
<1> QED
  BY <1>1, <1>2, QuietLobby
-----------------------------------------------------------------------------
(***************************************************************************)
(* A message is read.                                                      *)
(***************************************************************************)

\* A message is only read from a connection that counts as connected: who ended
\* is not heard again.  So it is from a player, who is where its lobby has it.
LEMMA Heard ==
  ASSUME IInv, PlayInv, NEW c \in Connections, NEW what, Reads(c, what)
  PROVE  /\ clientIsConnected[c] /\ lobby[c] \in DOMAIN lobbies /\ lobby[c] # NoLobby
         /\ c \in PlayersOf(lobby[c])
         /\ SeatsWithId(lobbies[lobby[c]], id, id[c]) # {}
         /\ LobbyInStep(lobby[c]) /\ InStep(c, lobbies[lobby[c]])
         /\ toServer[c] # <<>> /\ Head(toServer[c]) = what
         /\ UNCHANGED reading
         /\ toServer' = [toServer EXCEPT ![c] = Tail(toServer[c])]
<1>1. reading[c] /\ toServer[c] # <<>> /\ Head(toServer[c]) = what
  BY DEF Reads
<1>2. clientIsConnected[c] /\ lobby[c] # NoLobby
  BY <1>1 DEF PlayInv, ConnectionsInStep, Unheard, IInv, OnlyPlayersAreAsked
<1>3. /\ lobby[c] \in DOMAIN lobbies
      /\ \E s \in Occupied(lobbies[lobby[c]]) :
           /\ lobbies[lobby[c]].players[s] = c
           /\ SeatsWithId(lobbies[lobby[c]], id, id[c]) = {s}
  BY <1>2, SeatFound
<1>4. c \in PlayersOf(lobby[c]) /\ SeatsWithId(lobbies[lobby[c]], id, id[c]) # {}
  BY <1>3 DEF PlayersOf
<1>5. LobbyInStep(lobby[c])
  BY <1>3 DEF PlayInv, Lobbies
<1>6. InStep(c, lobbies[lobby[c]])
  BY <1>2, <1>4, <1>5 DEF LobbyInStep
<1>7. reading' = reading /\ toServer' = [toServer EXCEPT ![c] = Tail(toServer[c])]
  <2>1. reading' = [reading EXCEPT ![c] = clientIsConnected[c]]
    BY DEF Reads
  <2>2. reading \in [Connections -> BOOLEAN] /\ clientIsConnected \in [Connections -> BOOLEAN]
    BY DEF IInv, TypeOK
  <2>3. reading[c] = TRUE /\ clientIsConnected[c] = TRUE
    BY <1>1, <1>2, <2>2
  <2>4. reading' = reading
    BY <2>1, <2>2, <2>3
  <2> QED
    BY <2>4 DEF Reads
<1> QED
  BY <1>1, <1>2, <1>3, <1>4, <1>5, <1>6, <1>7

\* Reading a message of c keeps what PlayInv says of connections, and of every
\* lobby that is not that of c.
ReadFrame(c, l) ==
  /\ UNCHANGED <<accepted, id, lobby, clientIsConnected, closed, reading>>
  /\ \A d \in Connections \ {c} : toServer'[d] = toServer[d]
  /\ \A m \in DOMAIN lobbies \ {l} : lobbies'[m] = lobbies[m]
  /\ DOMAIN lobbies' = DOMAIN lobbies
  /\ \A d \in Connections : lobby[d] # l =>
       prompt'[d] = prompt[d] /\ clientIsReady'[d] = clientIsReady[d]
  /\ \A d \in Connections : closed[d] => prompt'[d] = "none"

LEMMA ReadStep ==
  ASSUME IInv, PlayInv, NEW c \in Connections, NEW what, Reads(c, what),
         NEW l, l = lobby[c], ReadFrame(c, l), LobbyInStep(l)'
  PROVE  PlayInv'
<1>1. clientIsConnected[c] /\ lobby[c] # NoLobby
  BY Heard
<1>2. ConnectionsInStep'
  <2>1. SUFFICES ASSUME NEW d \in Connections
                 PROVE  /\ ~ clientIsConnected'[d] => d \in accepted' /\ Unheard(d)'
                        /\ reading'[d] => d \in accepted'
                        /\ closed'[d] => prompt'[d] = "none"
                        /\ lobby'[d] = NoLobby => ~ clientIsReady'[d]
    BY DEF ConnectionsInStep
  <2>2. /\ ~ clientIsConnected[d] => d \in accepted /\ Unheard(d)
        /\ reading[d] => d \in accepted
        /\ closed[d] => prompt[d] = "none"
        /\ lobby[d] = NoLobby => ~ clientIsReady[d]
    BY DEF PlayInv, ConnectionsInStep
  <2>3. ~ clientIsConnected'[d] => d # c
    BY <1>1 DEF ReadFrame
  <2> QED
    BY <1>1, <2>2, <2>3 DEF ReadFrame, Unheard
<1>3. ASSUME NEW m \in DOMAIN lobbies, m # l
      PROVE  LobbyInStep(m)'
  <2>1. \A d \in PlayersOf(m) : d \in Connections /\ lobby[d] = m
    BY PlayerFacts
  <2>2. \A d \in PlayersOf(m) : SameExchange(d) /\ clientIsConnected'[d] = clientIsConnected[d]
    BY <1>3, <2>1 DEF SameExchange, ReadFrame
  <2>3. lobbies'[m] = lobbies[m] /\ LobbyInStep(m)
    BY <1>3 DEF ReadFrame, PlayInv, Lobbies
  <2> QED
    BY <2>2, <2>3, OtherLobby
<1>4. \A m \in DOMAIN lobbies' : LobbyInStep(m)'
  BY <1>3 DEF ReadFrame
<1> QED
  BY <1>2, <1>4 DEF PlayInv, Lobbies

\* Prompts sent to connections of the lobby of c only.
LEMMA ToldFrame ==
  ASSUME IInv, PlayInv, NEW l, NEW C \in SUBSET Attached(l), NEW what
  PROVE  \A d \in Connections :
           /\ Told(C, what, clientIsConnected)[d] =
                IF d \in C /\ clientIsConnected[d] /\ ~ closed[d] THEN what ELSE prompt[d]
           /\ lobby[d] # l => Told(C, what, clientIsConnected)[d] = prompt[d]
           /\ closed[d] => Told(C, what, clientIsConnected)[d] = "none"
BY DEF Told, Attached, PlayInv, ConnectionsInStep

\* The lobby's part of the message: a player's seat, its id and its presence stay,
\* and each is in step with what the lobby has become.
LEMMA PlayedLobby ==
  ASSUME NEW l, lobbies'[l].players = lobbies[l].players,
         \A d \in PlayersOf(l) : IF clientIsConnected'[d] THEN InStep(d, lobbies[l])'
                                                          ELSE ~ clientIsReady'[d],
         NEW R, R = {d \in PlayersOf(l) : clientIsReady'[d]},
         lobbies'[l].numReady = Cardinality(R),
         lobbies'[l].isPlayingGame <=> lobbies'[l].numReady = MaxPlayers,
         lobbies'[l].isPlayingGame => lobbies'[l].currentPlayer # NoPlayer
  PROVE  LobbyInStep(l)'
<1>1. PlayersOf(l)' = PlayersOf(l)
  BY DEF PlayersOf, Occupied
<1>2. ReadyPlayers(l)' = R
  BY <1>1 DEF ReadyPlayers
<1> QED
  BY <1>1, <1>2 DEF LobbyInStep

\* The readies of a lobby fit in eight bits.
LEMMA SmallCount ==
  ASSUME NEW n \in Nat, NEW p \in Nat, NEW m \in Nat, n + 1 <= p, p <= m, m <= 254
  PROVE  (n + 1) % 256 = n + 1 /\ n + 1 \in UInt8
BY DEF UInt8

\* A ready comes between games, from a player that was not ready: once each.
LEMMA ReadReadyPlay ==
  ASSUME IInv, PlayInv, NEW c \in Connections, ReadReady(c)
  PROVE  PlayInv'
<1> SUFFICES ASSUME NEW l, l = lobby[c]
             PROVE  PlayInv'
  OBVIOUS
<1> DEFINE g == lobbies[l]
           counted == CountReady(g)
           R == ReadyPlayers(l) \cup {c}
<1>1. /\ Reads(c, "ready")
      /\ UNCHANGED <<accepting, playerQueue, accepted, id, lobby, clientIsConnected, closed>>
      /\ clientIsReady' = [clientIsReady EXCEPT ![c] = TRUE]
  BY DEF ReadReady
<1>2. /\ clientIsConnected[c] /\ l \in DOMAIN lobbies /\ l # NoLobby
      /\ c \in PlayersOf(l) /\ SeatsWithId(g, id, id[c]) # {}
      /\ LobbyInStep(l) /\ InStep(c, g)
      /\ toServer[c] # <<>> /\ Head(toServer[c]) = "ready"
      /\ UNCHANGED reading
      /\ toServer' = [toServer EXCEPT ![c] = Tail(toServer[c])]
  BY <1>1, Heard
<1>3. /\ clientIsReady \in [Connections -> BOOLEAN]
      /\ toServer \in [Connections -> Seq({"ready", "turn"})]
      /\ lobbies \in Seq(Lobby) /\ g \in Lobby /\ LobbyOK(g)
      /\ MaxPlayers \in Nat /\ MaxPlayers >= 2 /\ MaxPlayers <= 254
  BY <1>2, ConstantFacts DEF IInv, TypeOK, LobbiesOK, LobbyOK
<1>4. ~ g.isPlayingGame /\ ~ clientIsReady[c]
  BY <1>2 DEF InStep, IsToMove, IsToBeReady, Idle
<1>5. toServer[c] = <<"ready">> /\ prompt[c] = "none" /\ toServer'[c] = <<>>
  <2>1. IsToBeReady(c)
    BY <1>2, <1>4 DEF InStep
  <2>2. toServer[c] = <<"ready">>
    BY <1>2, <2>1 DEF IsToBeReady
  <2>3. prompt[c] = "none"
    BY <2>1, <2>2 DEF IsToBeReady
  <2>4. toServer'[c] = Tail(<<"ready">>)
    BY <1>2, <1>3, <2>2
  <2> QED
    BY <2>2, <2>3, <2>4
<1>6. /\ \A d \in Connections \ {c} : /\ toServer'[d] = toServer[d]
                                      /\ clientIsReady'[d] = clientIsReady[d]
      /\ clientIsReady'[c]
  BY <1>1, <1>2, <1>3
<1>7. \A d \in PlayersOf(l) : d \in Connections /\ d \in Attached(l) /\ lobby[d] = l
  BY <1>2, PlayerFacts
<1>8. /\ R = {d \in PlayersOf(l) : clientIsReady'[d]} /\ R \in SUBSET PlayersOf(l)
      /\ Cardinality(R) = g.numReady + 1
      /\ g.numReady + 1 <= g.numPlayers /\ g.numPlayers <= MaxPlayers
      /\ g.numReady \in Nat /\ g.numPlayers \in Nat
      /\ Cardinality(R) = MaxPlayers => R = PlayersOf(l) /\ IsFull(g)
  <2>1. R = {d \in PlayersOf(l) : clientIsReady'[d]} /\ R \in SUBSET PlayersOf(l)
    BY <1>2, <1>6, <1>7 DEF ReadyPlayers
  <2>2. IsFiniteSet(ReadyPlayers(l)) /\ g.numReady = Cardinality(ReadyPlayers(l)) /\ g.numReady \in Nat
    BY <1>2, ReadyCount
  <2>3. c \notin ReadyPlayers(l)
    BY <1>4 DEF ReadyPlayers
  <2>4. Cardinality(R) = g.numReady + 1
    BY <2>2, <2>3, FS_AddElement
  <2>5. /\ Cardinality(R) <= g.numPlayers /\ g.numPlayers \in Nat /\ g.numPlayers <= MaxPlayers
        /\ Cardinality(R) = MaxPlayers => R = PlayersOf(l) /\ IsFull(g)
    BY <1>2, <2>1, PlayersCount
  <2> QED
    BY <2>1, <2>2, <2>4, <2>5
<1>9. /\ counted.numReady = g.numReady + 1
      /\ counted.players = g.players /\ counted.numPlayers = g.numPlayers
      /\ ~ counted.isPlayingGame
      /\ counted \in Lobby
  <2>1. (g.numReady + 1) % 256 = g.numReady + 1 /\ g.numReady + 1 \in UInt8
    BY <1>3, <1>8, SmallCount
  <2>3. counted = [g EXCEPT !.numReady = g.numReady + 1]
    BY <2>1 DEF CountReady
  <2> QED
    BY <1>3, <1>4, <2>1, <2>3 DEF Lobby
<1> HIDE DEF counted, R
<1>10. CASE CanStart(counted)
  <2>1. PICK first \in 1 .. MaxPlayers :
          /\ lobbies' = [lobbies EXCEPT ![l] = StartGame(counted, first)]
          /\ prompt' = Told(Called(l, first), "turn", clientIsConnected)
    BY <1>2, <1>4, <1>10 DEF ReadReady, counted
  <2> DEFINE h == StartGame(counted, first)
  <2>2. /\ h.numReady = g.numReady + 1 /\ h.players = g.players
        /\ h.isPlayingGame /\ h.currentPlayer = first
    BY <1>3, <1>9 DEF StartGame, Lobby
  <2> HIDE DEF h
  <2>3. /\ lobbies'[l] = h /\ DOMAIN lobbies' = DOMAIN lobbies
        /\ \A m \in DOMAIN lobbies \ {l} : lobbies'[m] = lobbies[m]
    BY <1>2, <1>3, <2>1 DEF h
  <2>4. g.numReady + 1 = MaxPlayers /\ R = PlayersOf(l)
    BY <1>8, <1>9, <1>10 DEF CanStart, AllPlayersAreReady, IsFull
  <2>5. \A d \in Connections :
          /\ prompt'[d] = IF d \in Called(l, first) /\ clientIsConnected[d] /\ ~ closed[d]
                          THEN "turn" ELSE prompt[d]
          /\ lobby[d] # l => prompt'[d] = prompt[d]
          /\ closed[d] => prompt'[d] = "none"
    <3>1. Called(l, first) \in SUBSET Attached(l)
      BY DEF Called
    <3> QED
      BY <2>1, <3>1, ToldFrame
  <2>6. ASSUME NEW d \in PlayersOf(l)
        PROVE  IF clientIsConnected'[d] THEN InStep(d, lobbies[l])' ELSE ~ clientIsReady'[d]
    <3>1. /\ d \in Connections /\ clientIsReady'[d]
          /\ d \in Called(l, first) <=> id[d] = first
      BY <1>7, <1>8, <2>4 DEF Called
    <3>2. /\ clientIsConnected[d]
          /\ toServer'[d] = <<>> /\ prompt[d] = "none"
      <4>1. CASE d = c
        BY <1>2, <1>5, <4>1
      <4>2. CASE d # c
        <5>1. clientIsReady[d] /\ toServer'[d] = toServer[d]
          BY <1>6, <3>1, <4>2
        <5>2. clientIsConnected[d] /\ InStep(d, g)
          BY <1>2, <5>1 DEF LobbyInStep
        <5> QED
          BY <1>4, <5>1, <5>2 DEF InStep, Idle
      <4> QED
        BY <4>1, <4>2
    <3>3. prompt'[d] = IF id[d] = first /\ ~ closed[d] THEN "turn" ELSE "none"
      BY <2>5, <3>1, <3>2
    <3>4. InStep(d, lobbies[l])'
      BY <1>1, <2>2, <2>3, <3>2, <3>3 DEF InStep, IsToMove, Idle
    <3> QED
      BY <1>1, <3>2, <3>4
  <2>7. LobbyInStep(l)'
    <3>1. /\ lobbies'[l].players = lobbies[l].players
          /\ lobbies'[l].numReady = Cardinality(R)
          /\ lobbies'[l].numReady = MaxPlayers
          /\ lobbies'[l].isPlayingGame
          /\ lobbies'[l].currentPlayer # NoPlayer
      BY <1>8, <2>2, <2>3, <2>4 DEF NoPlayer
    <3>2. R = {d \in PlayersOf(l) : clientIsReady'[d]}
      BY <1>8
    <3> QED
      BY <2>6, <3>1, <3>2, PlayedLobby
  <2>8. ReadFrame(c, l)
    BY <1>1, <1>2, <1>6, <2>3, <2>5 DEF ReadFrame
  <2> QED
    BY <1>1, <2>7, <2>8, ReadStep
<1>11. CASE ~ CanStart(counted)
  <2>1. lobbies' = [lobbies EXCEPT ![l] = counted] /\ UNCHANGED prompt
    BY <1>2, <1>11 DEF ReadReady, counted
  <2>2. /\ lobbies'[l] = counted /\ DOMAIN lobbies' = DOMAIN lobbies
        /\ \A m \in DOMAIN lobbies \ {l} : lobbies'[m] = lobbies[m]
    BY <1>2, <1>3, <2>1
  <2>3. counted.numReady # MaxPlayers
    BY <1>8, <1>9, <1>11 DEF CanStart, AllPlayersAreReady, IsFull
  <2>4. ASSUME NEW d \in PlayersOf(l)
        PROVE  IF clientIsConnected'[d] THEN InStep(d, lobbies[l])' ELSE ~ clientIsReady'[d]
    <3>1. CASE d = c
      BY <1>1, <1>2, <1>5, <1>6, <1>9, <2>1, <2>2, <3>1 DEF InStep, Idle
    <3>2. CASE d # c
      <4>1. /\ toServer'[d] = toServer[d] /\ clientIsReady'[d] = clientIsReady[d]
            /\ prompt'[d] = prompt[d] /\ closed'[d] = closed[d]
            /\ clientIsConnected'[d] = clientIsConnected[d]
        BY <1>1, <1>6, <1>7, <2>1, <3>2
      <4>2. IF clientIsConnected[d] THEN InStep(d, g) ELSE ~ clientIsReady[d]
        BY <1>2 DEF LobbyInStep
      <4> QED
        BY <1>4, <1>9, <2>2, <4>1, <4>2 DEF InStep, Idle, IsToBeReady
    <3> QED
      BY <3>1, <3>2
  <2>5. LobbyInStep(l)'
    BY <1>8, <1>9, <2>2, <2>3, <2>4, PlayedLobby
  <2>6. \A d \in Connections : closed[d] => prompt[d] = "none"
    BY DEF PlayInv, ConnectionsInStep
  <2>7. ReadFrame(c, l)
    BY <1>1, <1>2, <1>6, <2>1, <2>2, <2>6 DEF ReadFrame
  <2> QED
    BY <1>1, <2>5, <2>7, ReadStep
<1> QED
  BY <1>10, <1>11

\* A turn comes from the player to move, or too late for its game: then it waits
\* in front of the player's answer to the next prompt, and is refused.
LEMMA ReadTurnPlay ==
  ASSUME IInv, PlayInv, NEW c \in Connections, ReadTurn(c)
  PROVE  PlayInv'
<1> SUFFICES ASSUME NEW l, l = lobby[c]
             PROVE  PlayInv'
  OBVIOUS
<1> DEFINE g == lobbies[l]
<1>1. /\ Reads(c, "turn")
      /\ UNCHANGED <<accepting, playerQueue, accepted, id, lobby, clientIsConnected, closed>>
      /\ TurnRefused(c, l) \/ TurnRejected(c, l) \/ TurnAccepted(c, l) \/ TurnEndsGame(c, l)
  BY DEF ReadTurn
<1>2. /\ clientIsConnected[c] /\ l \in DOMAIN lobbies /\ l # NoLobby
      /\ c \in PlayersOf(l)
      /\ LobbyInStep(l) /\ InStep(c, g)
      /\ toServer[c] # <<>> /\ Head(toServer[c]) = "turn"
      /\ UNCHANGED reading
      /\ toServer' = [toServer EXCEPT ![c] = Tail(toServer[c])]
  BY <1>1, Heard
<1>3. /\ clientIsReady \in [Connections -> BOOLEAN]
      /\ toServer \in [Connections -> Seq({"ready", "turn"})]
      /\ lobbies \in Seq(Lobby) /\ g \in Lobby
      /\ MaxPlayers \in Nat /\ MaxPlayers >= 2 /\ MaxPlayers <= 254
  BY <1>2, ConstantFacts DEF IInv, TypeOK, LobbiesOK, LobbyOK
<1>4. /\ toServer'[c] = Tail(toServer[c])
      /\ \A d \in Connections \ {c} : toServer'[d] = toServer[d]
  BY <1>2, <1>3
<1>5. \A d \in PlayersOf(l) :
        /\ d \in Connections /\ d \in Attached(l) /\ lobby[d] = l
        /\ id[d] \in 1 .. MaxPlayers
        /\ id[d] = id[c] => d = c
  BY <1>2, PlayerFacts
<1>6. \A d \in Connections : closed[d] => prompt[d] = "none"
  BY DEF PlayInv, ConnectionsInStep
<1>7. CASE TurnRefused(c, l)
  <2>1. ~ g.isPlayingGame /\ UNCHANGED <<lobbies, clientIsReady, prompt>>
    BY <1>7 DEF TurnRefused
  <2>2. IsToBeReady(c) /\ ~ clientIsReady[c]
    BY <1>2, <2>1 DEF InStep, Idle
  <2>3. \/ toServer[c] = <<"turn">> /\ toServer'[c] = <<>>
        \/ toServer[c] = <<"turn", "ready">> /\ toServer'[c] = <<"ready">>
    <3>1. CASE toServer[c] = <<"turn">>
      BY <1>4, <3>1
    <3>2. CASE toServer[c] = <<"turn", "ready">>
      BY <1>4, <3>2
    <3>3. toServer[c] # <<"ready">>
      BY <1>2
    <3> QED
      BY <1>2, <2>2, <3>1, <3>2, <3>3 DEF IsToBeReady
  <2>4. IsToBeReady(c)'
    <3>1. prompt'[c] = prompt[c] /\ closed'[c] = closed[c]
      BY <1>1, <2>1
    <3>2. CASE toServer[c] = <<"turn">> /\ toServer'[c] = <<>>
      BY <2>2, <3>1, <3>2 DEF IsToBeReady
    <3>3. CASE toServer[c] = <<"turn", "ready">> /\ toServer'[c] = <<"ready">>
      <4>1. prompt[c] = "none"
        BY <2>2, <3>3 DEF IsToBeReady
      <4>2. <<"ready">> # <<>> /\ <<"ready">> # <<"turn">>
        OBVIOUS
      <4> QED
        BY <3>1, <3>3, <4>1, <4>2 DEF IsToBeReady
    <3> QED
      BY <2>3, <3>2, <3>3
  <2>5. ASSUME NEW d \in PlayersOf(l)
        PROVE  /\ clientIsReady'[d] = clientIsReady[d]
               /\ clientIsConnected'[d] = clientIsConnected[d]
               /\ clientIsConnected[d] => InStep(d, lobbies[l])'
    <3>1. CASE d = c
      BY <1>1, <2>1, <2>2, <2>4, <3>1 DEF InStep
    <3>2. CASE d # c
      <4>1. SameExchange(d)
        BY <1>1, <1>4, <1>5, <2>1, <3>2 DEF SameExchange
      <4>2. clientIsConnected[d] => InStep(d, lobbies[l])
        BY <1>2 DEF LobbyInStep
      <4> QED
        BY <1>1, <2>1, <4>1, <4>2, SameInStep
    <3> QED
      BY <3>1, <3>2
  <2>6. LobbyInStep(l)'
    BY <1>2, <2>1, <2>5, QuietLobby
  <2>7. ReadFrame(c, l)
    BY <1>1, <1>2, <1>4, <1>6, <2>1 DEF ReadFrame
  <2> QED
    BY <1>1, <2>6, <2>7, ReadStep
<1>8. ASSUME g.isPlayingGame
      PROVE  /\ id[c] = g.currentPlayer
             /\ IsFull(g)
             /\ prompt[c] = "none"
             /\ \A d \in PlayersOf(l) :
                  /\ clientIsConnected[d] /\ clientIsReady[d]
                  /\ toServer'[d] = <<>> /\ prompt[d] = "none"
  <2>1. IsFull(g) /\ \A d \in PlayersOf(l) : clientIsConnected[d] /\ clientIsReady[d]
    BY <1>2, <1>8, AllPresent
  <2>2. id[c] = g.currentPlayer /\ IsToMove(c)
    BY <1>2, <1>8 DEF InStep, Idle
  <2>3. toServer[c] = <<"turn">>
    BY <1>2, <2>2 DEF IsToMove
  <2>4. prompt[c] = "none" /\ toServer'[c] = <<>>
    BY <1>4, <2>2, <2>3 DEF IsToMove
  <2>5. ASSUME NEW d \in PlayersOf(l), d # c
        PROVE  toServer'[d] = <<>> /\ prompt[d] = "none"
    <3>1. InStep(d, g) /\ id[d] # g.currentPlayer
      BY <1>2, <1>5, <2>1, <2>2, <2>5 DEF LobbyInStep
    <3> QED
      BY <1>4, <1>5, <1>8, <2>5, <3>1 DEF InStep, Idle
  <2> QED
    BY <2>1, <2>2, <2>4, <2>5
<1>9. CASE TurnRejected(c, l)
  <2>1. /\ g.isPlayingGame /\ UNCHANGED <<lobbies, clientIsReady>>
        /\ prompt' = Told(Called(l, id[c]), "turn", clientIsConnected)
    BY <1>9 DEF TurnRejected
  <2>2. \A d \in Connections :
          /\ prompt'[d] = IF d \in Called(l, id[c]) /\ clientIsConnected[d] /\ ~ closed[d]
                          THEN "turn" ELSE prompt[d]
          /\ lobby[d] # l => prompt'[d] = prompt[d]
          /\ closed[d] => prompt'[d] = "none"
    <3>1. Called(l, id[c]) \in SUBSET Attached(l)
      BY DEF Called
    <3> QED
      BY <2>1, <3>1, ToldFrame
  <2>3. ASSUME NEW d \in PlayersOf(l)
        PROVE  InStep(d, lobbies[l])'
    <3>1. d \in Called(l, id[c]) <=> d = c
      BY <1>2, <1>5 DEF Called
    <3>2. /\ prompt'[d] = IF d = c /\ ~ closed[d] THEN "turn" ELSE "none"
          /\ toServer'[d] = <<>>
          /\ id[d] = g.currentPlayer <=> d = c
      BY <1>5, <1>8, <2>1, <2>2, <3>1
    <3> QED
      BY <1>1, <2>1, <3>2 DEF InStep, IsToMove, Idle
  <2>4. LobbyInStep(l)'
    BY <1>1, <1>2, <2>1, <2>3, QuietLobby
  <2>5. ReadFrame(c, l)
    BY <1>1, <1>2, <1>4, <2>1, <2>2 DEF ReadFrame
  <2> QED
    BY <1>1, <2>4, <2>5, ReadStep
<1>10. CASE TurnAccepted(c, l)
  <2> DEFINE next == NextPlayer(id[c], MaxPlayers)
             h == [g EXCEPT !.currentPlayer = next]
  <2>1. /\ g.isPlayingGame /\ UNCHANGED clientIsReady
        /\ lobbies' = [lobbies EXCEPT ![l] = h]
        /\ prompt' = Told(Called(l, next), "turn", clientIsConnected)
    BY <1>10 DEF TurnAccepted
  <2>2. next \in 1 .. MaxPlayers /\ next # id[c]
    <3>1. id[c] \in 1 .. MaxPlayers /\ id[c] \in 0 .. MaxPlayers /\ MaxPlayers \in 1 .. 255
      BY <1>2, <1>3, <1>5
    <3>2. /\ next = IF id[c] = MaxPlayers THEN 1 ELSE id[c] + 1
          /\ next \in 1 .. MaxPlayers
      BY <3>1, NextPlayerWraps
    <3> QED
      BY <1>3, <3>1, <3>2
  <2> HIDE DEF next
  <2>3. /\ h.players = g.players /\ h.numReady = g.numReady
        /\ h.isPlayingGame = g.isPlayingGame /\ h.currentPlayer = next
    BY <1>3 DEF Lobby
  <2> HIDE DEF h
  <2>4. /\ lobbies'[l] = h /\ DOMAIN lobbies' = DOMAIN lobbies
        /\ \A m \in DOMAIN lobbies \ {l} : lobbies'[m] = lobbies[m]
    BY <1>2, <1>3, <2>1
  <2>5. \A d \in Connections :
          /\ prompt'[d] = IF d \in Called(l, next) /\ clientIsConnected[d] /\ ~ closed[d]
                          THEN "turn" ELSE prompt[d]
          /\ lobby[d] # l => prompt'[d] = prompt[d]
          /\ closed[d] => prompt'[d] = "none"
    <3>1. Called(l, next) \in SUBSET Attached(l)
      BY DEF Called
    <3> QED
      BY <2>1, <3>1, ToldFrame
  <2>6. ASSUME NEW d \in PlayersOf(l)
        PROVE  IF clientIsConnected'[d] THEN InStep(d, lobbies[l])' ELSE ~ clientIsReady'[d]
    <3>1. d \in Called(l, next) <=> id[d] = next
      BY <1>5 DEF Called
    <3>2. /\ clientIsConnected[d] /\ toServer'[d] = <<>>
          /\ prompt'[d] = IF id[d] = next /\ ~ closed[d] THEN "turn" ELSE "none"
      BY <1>5, <1>8, <2>1, <2>5, <3>1
    <3>3. InStep(d, lobbies[l])'
      BY <1>1, <2>1, <2>3, <2>4, <3>2 DEF InStep, IsToMove, Idle
    <3> QED
      BY <1>1, <3>2, <3>3
  <2>7. LobbyInStep(l)'
    <3>1. /\ lobbies'[l].players = lobbies[l].players
          /\ lobbies'[l].numReady = Cardinality(ReadyPlayers(l))
          /\ lobbies'[l].isPlayingGame /\ lobbies'[l].numReady = MaxPlayers
          /\ lobbies'[l].currentPlayer # NoPlayer
      <4>1. /\ g.numReady = Cardinality(ReadyPlayers(l)) /\ g.numReady = MaxPlayers
            /\ next # NoPlayer
        BY <1>2, <2>1, <2>2 DEF LobbyInStep, NoPlayer
      <4> QED
        BY <2>1, <2>3, <2>4, <4>1
    <3>2. ReadyPlayers(l) = {d \in PlayersOf(l) : clientIsReady'[d]}
      BY <2>1 DEF ReadyPlayers
    <3> QED
      BY <2>6, <3>1, <3>2, PlayedLobby
  <2>8. ReadFrame(c, l)
    BY <1>1, <1>2, <1>4, <2>1, <2>4, <2>5 DEF ReadFrame
  <2> QED
    BY <1>1, <2>7, <2>8, ReadStep
<1>11. CASE TurnEndsGame(c, l)
  <2> DEFINE h == GameOver(g)
  <2>1. /\ g.isPlayingGame
        /\ clientIsReady' = [d \in Connections |-> d \notin Attached(l) /\ clientIsReady[d]]
        /\ lobbies' = [lobbies EXCEPT ![l] = h]
        /\ prompt' = Told(Attached(l), "ready", clientIsConnected)
    BY <1>11 DEF TurnEndsGame
  <2>2. /\ h.players = g.players /\ h.numReady = 0 /\ ~ h.isPlayingGame
    BY <1>3 DEF GameOver, Lobby
  <2> HIDE DEF h
  <2>3. /\ lobbies'[l] = h /\ DOMAIN lobbies' = DOMAIN lobbies
        /\ \A m \in DOMAIN lobbies \ {l} : lobbies'[m] = lobbies[m]
    BY <1>2, <1>3, <2>1
  <2>4. \A d \in Connections :
          /\ prompt'[d] = IF d \in Attached(l) /\ clientIsConnected[d] /\ ~ closed[d]
                          THEN "ready" ELSE prompt[d]
          /\ lobby[d] # l => prompt'[d] = prompt[d]
          /\ closed[d] => prompt'[d] = "none"
    BY <2>1, ToldFrame
  <2>5. \A d \in Connections : lobby[d] # l => clientIsReady'[d] = clientIsReady[d]
    BY <1>3, <2>1 DEF Attached
  <2>6. ASSUME NEW d \in PlayersOf(l)
        PROVE  ~ clientIsReady'[d] /\ InStep(d, lobbies[l])'
    <3>1. /\ ~ clientIsReady'[d] /\ toServer'[d] = <<>>
          /\ prompt'[d] = IF ~ closed[d] THEN "ready" ELSE "none"
      BY <1>5, <1>8, <2>1, <2>4
    <3> QED
      BY <1>1, <2>2, <2>3, <3>1 DEF InStep, IsToBeReady
  <2>7. LobbyInStep(l)'
    <3>1. {} = {d \in PlayersOf(l) : clientIsReady'[d]}
      BY <2>6
    <3>2. lobbies'[l].numReady = Cardinality({}) /\ lobbies'[l].numReady # MaxPlayers
      BY <1>3, <2>2, <2>3, FS_EmptySet
    <3> QED
      BY <2>2, <2>3, <2>6, <3>1, <3>2, PlayedLobby
  <2>8. ReadFrame(c, l)
    BY <1>1, <1>2, <1>4, <2>3, <2>4, <2>5 DEF ReadFrame
  <2> QED
    BY <1>1, <2>7, <2>8, ReadStep
<1> QED
  BY <1>1, <1>7, <1>9, <1>10, <1>11
-----------------------------------------------------------------------------
(***************************************************************************)
(* A connection comes or ends.                                             *)
(***************************************************************************)

\* addPlayer brings one player more and leaves what is played as it is.
LEMMA AddPlayerPlayers ==
  ASSUME NEW g, LobbyOK(g), CanAddPlayers(g), NEW c \in Connections
  PROVE  /\ Players(AddPlayer(g, c)) = Players(g) \cup {c}
         /\ AddPlayer(g, c).numReady = g.numReady
         /\ ~ AddPlayer(g, c).isPlayingGame
         /\ AddPlayer(g, c) \in Lobby
<1> DEFINE k == FirstAvailableId(g)
           h == AddPlayer(g, c)
<1>1. /\ h.players = [g.players EXCEPT ![k] = c]
      /\ Occupied(h) = Occupied(g) \cup {k} /\ k \in Seats \ Occupied(g)
      /\ LobbyOK(h)
  BY AddPlayerStep
<1>2. g \in Lobby /\ h \in Lobby
  BY <1>1 DEF LobbyOK
<1>3. h = [g EXCEPT !.players[k] = c, !.numPlayers = @ + 1] /\ ~ g.isPlayingGame
  BY DEF AddPlayer, CanAddPlayers
<1>4. h.numReady = g.numReady /\ ~ h.isPlayingGame
  BY <1>2, <1>3 DEF Lobby
<1> HIDE DEF h, k
<1>5. h.players[k] = c /\ \A s \in Occupied(g) : h.players[s] = g.players[s]
  BY <1>1, <1>2 DEF Lobby, Occupied
<1>6. Players(h) = Players(g) \cup {c}
  BY <1>1, <1>5 DEF Players
<1> QED
  BY <1>2, <1>4, <1>6 DEF h

\* A seat that is given up takes its player, and its ready, out of the lobby.
LEMMA ReleasePlayers ==
  ASSUME NEW g, LobbyOK(g), NEW s \in Occupied(g), NEW wasReady \in BOOLEAN,
         \A t \in Occupied(g) : g.players[t] = g.players[s] => t = s,
         NEW h, h = IF g.isPlayingGame THEN GameOver(Release(g, s, wasReady))
                                       ELSE Release(g, s, wasReady)
  PROVE  /\ Players(h) = Players(g) \ {g.players[s]}
         /\ ~ h.isPlayingGame
         /\ h.numReady = IF g.isPlayingGame THEN 0
                         ELSE IF wasReady /\ g.numReady > 0 THEN g.numReady - 1 ELSE g.numReady
<1>1. /\ h.players = [g.players EXCEPT ![s] = Nobody]
      /\ Occupied(h) = Occupied(g) \ {s}
      /\ CanAddPlayers(h)
  BY ReleaseStep
<1>2. g \in Lobby
  BY DEF LobbyOK
<1>3. \A t \in Occupied(h) : h.players[t] = g.players[t]
  BY <1>1, <1>2 DEF Lobby, Occupied
<1>4. Players(h) = Players(g) \ {g.players[s]}
  BY <1>1, <1>3 DEF Players
<1>5. h.numReady = IF g.isPlayingGame THEN 0
                   ELSE IF wasReady /\ g.numReady > 0 THEN g.numReady - 1 ELSE g.numReady
  BY <1>2 DEF GameOver, Release, Lobby
<1> QED
  BY <1>1, <1>4, <1>5 DEF CanAddPlayers

\* A lobby whose list of players has changed between games.
LEMMA IdleLobby ==
  ASSUME NEW l, ~ lobbies'[l].isPlayingGame,
         \A d \in Players(lobbies'[l]) :
           IF clientIsConnected'[d] THEN InStep(d, lobbies[l])' ELSE ~ clientIsReady'[d],
         NEW R, R = {d \in Players(lobbies'[l]) : clientIsReady'[d]},
         lobbies'[l].numReady = Cardinality(R),
         lobbies'[l].numReady # MaxPlayers
  PROVE  LobbyInStep(l)'
<1>1. PlayersOf(l)' = Players(lobbies'[l])
  BY DEF PlayersOf, Players
<1>2. ReadyPlayers(l)' = R
  BY <1>1 DEF ReadyPlayers
<1> QED
  BY <1>1, <1>2 DEF LobbyInStep

\* Whose game in lobby l ends.
Ended(l) == IF lobbies[l].isPlayingGame THEN Attached(l) ELSE {}

\* The seat of c in lobby l is for J: the first of the queue, if there is any.
SeatGoesTo(c, l, J) ==
  /\ IF playerQueue = <<>> THEN J = {} /\ playerQueue' = playerQueue
                           ELSE J = {Head(playerQueue)} /\ playerQueue' = Tail(playerQueue)
  /\ Players(lobbies'[l]) = (PlayersOf(l) \ {c}) \cup J
  /\ prompt' = Told(Ended(l) \cup J, "ready", clientIsConnected')
  /\ \A d \in J : Unplaced(d) /\ lobby'[d] = l
  /\ \A d \in Connections \ J : id'[d] = id[d] /\ lobby'[d] = lobby[d]

\* What onDisconnect does to the lobby of a connection that counted as connected.
LEMMA DisconnectShape ==
  ASSUME IInv, NEW c \in Connections, clientIsConnected[c],
         NEW l, l = lobby[c], l # NoLobby, HandleDisconnect(c)
  PROVE  /\ l \in DOMAIN lobbies /\ c \in PlayersOf(l) /\ c \in accepted
         /\ clientIsConnected' = [clientIsConnected EXCEPT ![c] = FALSE]
         /\ clientIsReady' = [d \in Connections |-> d \notin Ended(l) /\ clientIsReady[d]]
         /\ DOMAIN lobbies' = DOMAIN lobbies
         /\ \A m \in DOMAIN lobbies \ {l} : lobbies'[m] = lobbies[m]
         /\ ~ lobbies'[l].isPlayingGame
         /\ lobbies'[l].numReady =
              IF lobbies[l].isPlayingGame THEN 0
              ELSE IF clientIsReady[c] /\ lobbies[l].numReady > 0
                   THEN lobbies[l].numReady - 1 ELSE lobbies[l].numReady
         /\ \E J \in SUBSET Connections : SeatGoesTo(c, l, J)
<1> DEFINE g == lobbies[l]
<1>1. /\ l \in DOMAIN lobbies /\ c \in accepted
      /\ \E s \in Occupied(g) : /\ g.players[s] = c
                               /\ SeatsWithId(g, id, id[c]) = {s}
                               /\ FirstOf(SeatsWithId(g, id, id[c])) = s
  BY SeatFound
<1>2. PICK s \in Occupied(g) : /\ g.players[s] = c
                              /\ SeatsWithId(g, id, id[c]) = {s}
                              /\ FirstOf(SeatsWithId(g, id, id[c])) = s
  BY <1>1
<1> DEFINE left == Release(g, s, clientIsReady[c])
           open == IF g.isPlayingGame THEN GameOver(left) ELSE left
           rest == [lobbies EXCEPT ![l] = open]
           q == Head(playerQueue)
           joins == CanAddPlayers(open) /\ playerQueue # <<>>
<1>3. /\ clientIsConnected' = [clientIsConnected EXCEPT ![c] = FALSE]
      /\ clientIsReady' = [d \in Connections |-> d \notin Ended(l) /\ clientIsReady[d]]
      /\ IF joins
         THEN /\ Join(q, l, rest)
              /\ playerQueue' = Tail(playerQueue)
              /\ prompt' = Told(Ended(l) \cup {q}, "ready", clientIsConnected')
         ELSE /\ lobbies' = rest
              /\ prompt' = Told(Ended(l), "ready", clientIsConnected')
              /\ UNCHANGED <<playerQueue, id, lobby>>
  BY <1>2 DEF HandleDisconnect, OnDisconnect, Ended
<1>4. /\ lobbies \in Seq(Lobby) /\ LobbyOK(g) /\ clientIsReady[c] \in BOOLEAN
      /\ id \in [Connections -> 0 .. MaxPlayers]
      /\ lobby \in [Connections -> 0 .. Len(lobbies)]
      /\ playerQueue \in Seq(Connections)
  BY <1>1 DEF IInv, TypeOK, LobbiesOK
<1>5. \A t \in Occupied(g) : g.players[t] = g.players[s] => t = s
  <2>1. \A t \in Occupied(g) : id[g.players[t]] = t + 1 /\ t \in Int
    BY <1>1, ConstantFacts DEF IInv, LobbiesOK, Occupied, Seats
  <2> QED
    BY <2>1
<1>6. /\ Players(open) = Players(g) \ {c} /\ ~ open.isPlayingGame
      /\ open.numReady = IF g.isPlayingGame THEN 0
                         ELSE IF clientIsReady[c] /\ g.numReady > 0 THEN g.numReady - 1
                                                                    ELSE g.numReady
  <2>1. open = IF g.isPlayingGame THEN GameOver(Release(g, s, clientIsReady[c]))
                                  ELSE Release(g, s, clientIsReady[c])
    OBVIOUS
  <2>2. g.players[s] = c /\ LobbyOK(g) /\ clientIsReady[c] \in BOOLEAN
    BY <1>2, <1>4
  <2> HIDE DEF open, g
  <2>3. Players(open) = Players(g) \ {g.players[s]} /\ ~ open.isPlayingGame
    BY <1>5, <2>1, <2>2, ReleasePlayers
  <2>4. open.numReady = IF g.isPlayingGame THEN 0
                        ELSE IF clientIsReady[c] /\ g.numReady > 0 THEN g.numReady - 1
                                                                   ELSE g.numReady
    BY <1>5, <2>1, <2>2, ReleasePlayers
  <2> QED
    BY <2>2, <2>3, <2>4
<1>7. LobbyOK(open) /\ CanAddPlayers(open) /\ open \in Lobby
  <2>1. LobbyOK(open) /\ CanAddPlayers(open)
    BY <1>2, <1>4, ReleaseStep
  <2> QED
    BY <2>1 DEF LobbyOK
<1>8. c \in PlayersOf(l) /\ PlayersOf(l) = Players(g)
  BY <1>2 DEF PlayersOf, Players
<1> HIDE DEF open
<1>9. /\ DOMAIN rest = DOMAIN lobbies /\ rest[l] = open
      /\ \A m \in DOMAIN lobbies \ {l} : rest[m] = lobbies[m]
      /\ rest \in Seq(Lobby)
  BY <1>1, <1>4, <1>7
<1> HIDE DEF rest
<1>10. CASE joins
  <2>1. q \in Connections /\ Unplaced(q)
    BY <1>4, <1>10, QueueFacts DEF IInv, QueueOK
  <2> DEFINE h == AddPlayer(open, q)
  <2>2. /\ Players(h) = Players(open) \cup {q} /\ h.numReady = open.numReady
        /\ ~ h.isPlayingGame /\ h \in Lobby
    BY <1>7, <2>1, AddPlayerPlayers
  <2>3. /\ lobbies' = [rest EXCEPT ![l] = h]
        /\ id' = [id EXCEPT ![q] = NewId(open)]
        /\ lobby' = [lobby EXCEPT ![q] = l]
        /\ prompt' = Told(Ended(l) \cup {q}, "ready", clientIsConnected')
    BY <1>1, <1>3, <1>7, <1>9, <1>10, <2>1 DEF Join, Unplaced
  <2> HIDE DEF h, q
  <2>4. /\ DOMAIN lobbies' = DOMAIN lobbies /\ lobbies'[l] = h
        /\ \A m \in DOMAIN lobbies \ {l} : lobbies'[m] = lobbies[m]
    BY <1>1, <1>9, <2>2, <2>3
  <2>5. /\ lobby'[q] = l
        /\ \A d \in Connections \ {q} : id'[d] = id[d] /\ lobby'[d] = lobby[d]
    BY <1>4, <2>1, <2>3
  <2>6. \E J \in SUBSET Connections : SeatGoesTo(c, l, J)
    <3>1. {q} \in SUBSET Connections
      BY <2>1
    <3>2. Players(lobbies'[l]) = (PlayersOf(l) \ {c}) \cup {q}
      BY <1>6, <1>8, <2>2, <2>4
    <3>3. playerQueue # <<>> /\ q = Head(playerQueue) /\ playerQueue' = Tail(playerQueue)
      BY <1>3, <1>10 DEF q
    <3> QED
      BY <2>1, <2>3, <2>5, <3>1, <3>2, <3>3 DEF SeatGoesTo
  <2> QED
    BY <1>1, <1>3, <1>6, <1>8, <2>2, <2>4, <2>6
<1>11. CASE ~ joins
  <2>1. lobbies' = rest /\ prompt' = Told(Ended(l), "ready", clientIsConnected') /\ UNCHANGED <<id, lobby>>
    BY <1>3, <1>11
  <2>2. \E J \in SUBSET Connections : SeatGoesTo(c, l, J)
    <3>1. Ended(l) \cup {} = Ended(l) /\ {} \in SUBSET Connections
      OBVIOUS
    <3>2. Players(lobbies'[l]) = (PlayersOf(l) \ {c}) \cup {}
      BY <1>6, <1>8, <1>9, <2>1
    <3>3. playerQueue = <<>> /\ playerQueue' = playerQueue
      BY <1>3, <1>7, <1>11
    <3> QED
      BY <2>1, <3>1, <3>2, <3>3 DEF SeatGoesTo
  <2> QED
    BY <1>1, <1>3, <1>6, <1>8, <1>9, <2>1, <2>2
<1> QED
  BY <1>10, <1>11

\* The end of a connection that is not heard any more, by whichever handler it is
\* noticed, leaves every lobby in step: its own lobby is between games, and who
\* stays in it or comes into it from the queue is asked to be ready.
LEMMA DisconnectPlay ==
  ASSUME IInv, PlayInv, NEW c \in Connections, HandleDisconnect(c),
         UNCHANGED <<accepted, closed>>, c \in accepted, Unheard(c)',
         \A d \in Connections : reading'[d] => reading[d],
         \A d \in Connections \ {c} : toServer'[d] = toServer[d]
  PROVE  PlayInv'
<1>1. /\ clientIsConnected \in [Connections -> BOOLEAN]
      /\ clientIsReady \in [Connections -> BOOLEAN]
  BY DEF IInv, TypeOK
<1>2. CASE clientIsConnected[c] /\ lobby[c] # NoLobby
  <2> SUFFICES ASSUME NEW l, l = lobby[c]
               PROVE  PlayInv'
    OBVIOUS
  <2>a. l # NoLobby /\ clientIsConnected[c]
    BY <1>2
  <2>b. \E J \in SUBSET Connections : SeatGoesTo(c, l, J)
    BY <2>a, DisconnectShape
  <2> DEFINE g == lobbies[l]
             ended == Ended(l)
  <2>0. ended = IF g.isPlayingGame THEN Attached(l) ELSE {}
    BY DEF Ended
  <2>1. /\ l \in DOMAIN lobbies /\ c \in PlayersOf(l)
        /\ clientIsConnected' = [clientIsConnected EXCEPT ![c] = FALSE]
        /\ clientIsReady' = [d \in Connections |-> d \notin ended /\ clientIsReady[d]]
        /\ DOMAIN lobbies' = DOMAIN lobbies
        /\ \A m \in DOMAIN lobbies \ {l} : lobbies'[m] = lobbies[m]
        /\ ~ lobbies'[l].isPlayingGame
        /\ lobbies'[l].numReady =
             IF g.isPlayingGame THEN 0
             ELSE IF clientIsReady[c] /\ g.numReady > 0 THEN g.numReady - 1 ELSE g.numReady
    BY <1>2, DisconnectShape
  <2>2. PICK J \in SUBSET Connections :
          /\ Players(lobbies'[l]) = (PlayersOf(l) \ {c}) \cup J
          /\ prompt' = Told(ended \cup J, "ready", clientIsConnected')
          /\ \A d \in J : Unplaced(d) /\ lobby'[d] = l
          /\ \A d \in Connections \ J : id'[d] = id[d] /\ lobby'[d] = lobby[d]
    BY <2>b DEF SeatGoesTo
  <2> HIDE DEF ended
  <2>3. /\ ~ clientIsConnected'[c]
        /\ \A d \in Connections \ {c} : clientIsConnected'[d] = clientIsConnected[d]
        /\ \A d \in Connections : clientIsReady'[d] <=> d \notin ended /\ clientIsReady[d]
        /\ \A d \in Connections : d \notin ended => clientIsReady'[d] = clientIsReady[d]
    BY <1>1, <2>1
  <2>4. \A d \in Connections :
          prompt'[d] = IF d \in ended \cup J /\ clientIsConnected'[d] /\ ~ closed[d]
                       THEN "ready" ELSE prompt[d]
    BY <2>2 DEF Told
  <2>5. \A d \in Connections : /\ closed[d] => prompt[d] = "none"
                               /\ lobby[d] = NoLobby => ~ clientIsReady[d]
    BY DEF PlayInv, ConnectionsInStep
  <2>6. \A m \in DOMAIN lobbies : \A d \in PlayersOf(m) :
          /\ d \in Connections \ J /\ lobby[d] = m /\ d \in Attached(m)
    <3>1. \A m \in DOMAIN lobbies : \A d \in PlayersOf(m) :
            d \in Connections /\ lobby[d] = m /\ d \in Attached(m) /\ lobby[d] # NoLobby
      BY PlayerFacts
    <3>2. \A d \in J : lobby[d] = NoLobby
      BY <2>2 DEF Unplaced
    <3> QED
      BY <3>1, <3>2
  <2>7. LobbyInStep(l)
    BY <2>1 DEF PlayInv, Lobbies
  <2>8. ASSUME NEW d \in Players(lobbies'[l])
        PROVE  IF clientIsConnected'[d] THEN InStep(d, lobbies[l])' ELSE ~ clientIsReady'[d]
    <3>1. CASE d \in J
      <4>1. /\ toServer[d] = <<>> /\ prompt[d] = "none" /\ d # c /\ ~ clientIsReady[d]
            /\ d \in Connections
        BY <1>2, <2>2, <2>5, <3>1 DEF Unplaced, IInv, OnlyPlayersAreAsked
      <4>2. /\ toServer'[d] = <<>> /\ ~ clientIsReady'[d]
            /\ clientIsConnected'[d] => prompt'[d] = IF ~ closed'[d] THEN "ready" ELSE "none"
        BY <2>3, <2>4, <3>1, <4>1
      <4> QED
        BY <2>1, <4>2 DEF InStep, IsToBeReady
    <3>2. CASE d \in PlayersOf(l) \ {c}
      <4>1. /\ d \in Connections \ J /\ d # c /\ d \in Attached(l)
            /\ clientIsConnected'[d] = clientIsConnected[d] /\ toServer'[d] = toServer[d]
            /\ IF clientIsConnected[d] THEN InStep(d, g) ELSE ~ clientIsReady[d]
        BY <2>1, <2>3, <2>6, <2>7, <3>2 DEF LobbyInStep
      <4>2. CASE g.isPlayingGame
        <5>1. clientIsConnected[d] /\ d \in ended
          BY <2>0, <2>1, <2>7, <3>2, <4>1, <4>2, AllPresent
        <5>2. toServer[d] \in {<<>>, <<"turn">>} /\ InStep(d, g)
          BY <4>1, <4>2, <5>1 DEF InStep, IsToMove, Idle
        <5>3. /\ ~ clientIsReady'[d] /\ clientIsConnected'[d]
              /\ prompt'[d] = IF ~ closed'[d] THEN "ready" ELSE "none"
          BY <2>3, <2>4, <2>5, <4>1, <5>1
        <5> QED
          BY <2>1, <4>1, <5>2, <5>3 DEF InStep, IsToBeReady
      <4>3. CASE ~ g.isPlayingGame
        <5>1. d \notin ended \cup J
          BY <2>0, <4>1, <4>3
        <5>2. prompt'[d] = prompt[d] /\ clientIsReady'[d] = clientIsReady[d] /\ closed'[d] = closed[d]
          BY <1>1, <2>3, <2>4, <4>1, <5>1
        <5> QED
          BY <2>1, <4>1, <4>3, <5>2 DEF InStep, IsToBeReady, Idle
      <4> QED
        BY <4>2, <4>3
    <3> QED
      BY <2>2, <3>1, <3>2
  <2>9. LobbyInStep(l)'
    <3> DEFINE R == {d \in Players(lobbies'[l]) : clientIsReady'[d]}
    <3>1. /\ IsFiniteSet(ReadyPlayers(l)) /\ g.numReady = Cardinality(ReadyPlayers(l))
          /\ g.numReady \in Nat /\ g.numReady <= MaxPlayers /\ MaxPlayers \in Nat /\ MaxPlayers >= 2
      <4>1. /\ IsFiniteSet(ReadyPlayers(l)) /\ g.numReady = Cardinality(ReadyPlayers(l))
            /\ g.numReady \in Nat /\ g.numReady <= g.numPlayers
            /\ g.numPlayers \in Nat /\ g.numPlayers <= MaxPlayers
        BY <2>1, <2>7, ReadyCount
      <4> QED
        BY <4>1, ConstantFacts
    <3>2. /\ lobbies'[l].numReady = Cardinality(R)
          /\ lobbies'[l].numReady # MaxPlayers
      <4>1. CASE g.isPlayingGame
        <5>1. R = {}
          <6>1. \A d \in J : d \in Connections /\ ~ clientIsReady'[d]
            BY <2>2, <2>3, <2>5 DEF Unplaced
          <6>2. \A d \in PlayersOf(l) : d \in Connections /\ ~ clientIsReady'[d]
            BY <2>0, <2>1, <2>3, <2>6, <4>1
          <6> QED
            BY <2>2, <6>1, <6>2
        <5>2. Cardinality(R) = 0
          BY <5>1, FS_EmptySet
        <5>3. lobbies'[l].numReady = 0
          BY <2>1, <4>1
        <5> HIDE DEF R
        <5> QED
          BY <3>1, <5>2, <5>3
      <4>2. CASE ~ g.isPlayingGame
        <5>1. R = ReadyPlayers(l) \ {c}
          BY <2>0, <2>1, <2>2, <2>3, <2>5, <2>6, <4>2 DEF ReadyPlayers, Unplaced
        <5>2. g.numReady # MaxPlayers
          BY <2>7, <4>2 DEF LobbyInStep
        <5>3. CASE clientIsReady[c]
          <6>1. c \in ReadyPlayers(l)
            BY <2>1, <5>3 DEF ReadyPlayers
          <6>2. /\ IsFiniteSet(R) /\ Cardinality(R) = g.numReady - 1
            <7>1. /\ IsFiniteSet(ReadyPlayers(l) \ {c})
                  /\ Cardinality(ReadyPlayers(l) \ {c}) = Cardinality(ReadyPlayers(l)) - 1
              BY <3>1, <6>1, FS_RemoveElement
            <7> QED
              BY <3>1, <5>1, <7>1
          <6>3. Cardinality(R) \in Nat
            BY <6>2, FS_CardinalityType
          <6>4. lobbies'[l].numReady = g.numReady - 1
            BY <2>1, <3>1, <4>2, <5>3, <6>2, <6>3
          <6> QED
            BY <3>1, <5>2, <6>2, <6>3, <6>4
        <5>4. CASE ~ clientIsReady[c]
          <6>1. R = ReadyPlayers(l)
            BY <5>1, <5>4 DEF ReadyPlayers
          <6> QED
            BY <2>1, <3>1, <4>2, <5>2, <5>4, <6>1
        <5> QED
          BY <5>3, <5>4
      <4> QED
        BY <4>1, <4>2
    <3> QED
      BY <2>1, <2>8, <3>2, IdleLobby
  <2>10. ASSUME NEW m \in DOMAIN lobbies, m # l
         PROVE  LobbyInStep(m)'
    <3>1. ASSUME NEW d \in PlayersOf(m)
          PROVE  SameExchange(d) /\ clientIsConnected'[d] = clientIsConnected[d]
      <4>1. d \in Connections \ J /\ lobby[d] = m /\ d # c /\ d \notin ended
        BY <2>0, <2>6, <2>10 DEF Attached
      <4> QED
        BY <1>1, <2>2, <2>3, <2>4, <4>1 DEF SameExchange
    <3>2. LobbyInStep(m) /\ lobbies'[m] = lobbies[m]
      BY <2>1, <2>10 DEF PlayInv, Lobbies
    <3> QED
      BY <3>1, <3>2, OtherLobby
  <2>11. ConnectionsInStep'
    <3>1. SUFFICES ASSUME NEW d \in Connections
                   PROVE  /\ ~ clientIsConnected'[d] => d \in accepted' /\ Unheard(d)'
                          /\ reading'[d] => d \in accepted'
                          /\ closed'[d] => prompt'[d] = "none"
                          /\ lobby'[d] = NoLobby => ~ clientIsReady'[d]
      BY DEF ConnectionsInStep
    <3>2. /\ ~ clientIsConnected[d] => d \in accepted /\ Unheard(d)
          /\ reading[d] => d \in accepted
      BY DEF PlayInv, ConnectionsInStep
    <3>3. d # c => (Unheard(d) => Unheard(d)')
      BY DEF Unheard
    <3>4. ~ clientIsConnected'[d] => d \in accepted' /\ Unheard(d)'
      BY <2>3, <3>2, <3>3
    <3>5. lobby'[d] = NoLobby => lobby[d] = NoLobby
      BY <1>2, <2>2
    <3> QED
      BY <2>3, <2>4, <2>5, <3>2, <3>4, <3>5
  <2> QED
    BY <2>1, <2>9, <2>10, <2>11 DEF PlayInv, Lobbies
<1>3. CASE ~ clientIsConnected[c] \/ lobby[c] = NoLobby
  <2>1. /\ UNCHANGED <<lobbies, id, lobby, clientIsReady, prompt>>
        /\ \A d \in Connections \ {c} : clientIsConnected'[d] = clientIsConnected[d]
        /\ ~ clientIsConnected'[c]
    BY <1>1, <1>3 DEF HandleDisconnect
  <2>2. ConnectionsInStep'
    BY <2>1 DEF PlayInv, ConnectionsInStep, Unheard
  <2>3. ASSUME NEW m \in DOMAIN lobbies
        PROVE  LobbyInStep(m)'
    <3>1. LobbyInStep(m)
      BY DEF PlayInv, Lobbies
    <3>2. ASSUME NEW d \in PlayersOf(m)
          PROVE  /\ clientIsReady'[d] = clientIsReady[d]
                 /\ clientIsConnected'[d] = clientIsConnected[d]
                 /\ clientIsConnected[d] => InStep(d, lobbies[m])'
      <4>1. d \in Connections /\ lobby[d] # NoLobby
        BY PlayerFacts
      <4>2. CASE d = c
        <5>1. clientIsConnected[d] = FALSE
          BY <1>1, <1>3, <4>1, <4>2
        <5>2. clientIsConnected'[d] = FALSE
          <6>1. UNCHANGED clientIsConnected
            BY <4>2, <5>1 DEF HandleDisconnect
          <6> QED
            BY <5>1, <6>1
        <5> QED
          BY <2>1, <5>1, <5>2
      <4>3. CASE d # c
        <5>1. SameExchange(d)
          BY <2>1, <4>1, <4>3 DEF SameExchange
        <5>2. clientIsConnected[d] => InStep(d, lobbies[m])
          BY <3>1 DEF LobbyInStep
        <5> QED
          BY <2>1, <4>1, <4>3, <5>1, <5>2, SameInStep
      <4> QED
        BY <4>2, <4>3
    <3> QED
      BY <2>1, <3>1, <3>2, QuietLobby
  <2> QED
    BY <2>1, <2>2, <2>3 DEF PlayInv, Lobbies
<1> QED
  BY <1>2, <1>3

LEMMA ReadClosedPlay ==
  ASSUME IInv, PlayInv, NEW c \in Connections, ReadClosed(c)
  PROVE  PlayInv'
<1>1. /\ reading[c] /\ HandleDisconnect(c) /\ UNCHANGED <<accepted, closed>>
      /\ reading' = [reading EXCEPT ![c] = FALSE]
      /\ toServer' = [toServer EXCEPT ![c] = <<>>]
      /\ reading \in [Connections -> BOOLEAN]
      /\ toServer \in [Connections -> Seq({"ready", "turn"})]
  BY DEF ReadClosed, IInv, TypeOK
<1>2. c \in accepted
  BY <1>1 DEF PlayInv, ConnectionsInStep
<1>3. /\ \A d \in Connections \ {c} : toServer'[d] = toServer[d]
      /\ \A d \in Connections : reading'[d] => reading[d]
      /\ ~ reading'[c]
  BY <1>1
<1> QED
  BY <1>1, <1>2, <1>3, DisconnectPlay DEF Unheard

LEMMA PingTimeoutPlay ==
  ASSUME IInv, PlayInv, ~ FalseTimeouts, NEW c \in Connections, PingTimeout(c)
  PROVE  PlayInv'
<1>1. /\ HandleDisconnect(c) /\ c \in accepted /\ Unheard(c)
      /\ UNCHANGED <<accepted, closed, reading, toServer>>
  BY DEF PingTimeout
<1>2. Unheard(c)'
  BY <1>1 DEF Unheard
<1> QED
  BY <1>1, <1>2, DisconnectPlay

\* A connection that is given a seat at once is asked to be ready, and none of the
\* players it joins is: the lobby is between games.
LEMMA AcceptJoinPlay ==
  ASSUME IInv, PlayInv, NEW c \in Connections, c \notin accepted,
         accepted' = accepted \cup {c}, reading' = [reading EXCEPT ![c] = TRUE],
         prompt' = Told({c}, "ready", clientIsConnected),
         UNCHANGED <<clientIsConnected, clientIsReady, toServer, closed>>,
         NEW l \in 1 .. Len(lobbies) + 1,
         l \in DOMAIN lobbies => CanAddPlayers(lobbies[l]),
         Join(c, l, lobbies)
  PROVE  PlayInv'
<1> DEFINE g == IF l \in DOMAIN lobbies THEN lobbies[l] ELSE NewLobby
           h == AddPlayer(g, c)
<1>1. LobbyOK(g) /\ CanAddPlayers(g) /\ g \in Lobby /\ lobbies \in Seq(Lobby)
  BY NewLobbyOK DEF IInv, TypeOK, LobbiesOK, LobbyOK
<1>2. /\ Players(h) = Players(g) \cup {c} /\ h.numReady = g.numReady
      /\ ~ h.isPlayingGame /\ h \in Lobby
  BY <1>1, AddPlayerPlayers
<1>3. /\ lobbies' = IF l \in DOMAIN lobbies THEN [lobbies EXCEPT ![l] = h] ELSE Append(lobbies, h)
      /\ lobby' = [lobby EXCEPT ![c] = l]
      /\ id' = [id EXCEPT ![c] = NewId(g)]
  BY <1>1 DEF Join, IInv, QueueOK, Unplaced
<1>4. Unplaced(c) /\ clientIsConnected[c] /\ ~ clientIsReady[c] /\ toServer[c] = <<>> /\ prompt[c] = "none"
  BY DEF IInv, QueueOK, Unplaced, OnlyPlayersAreAsked, PlayInv, ConnectionsInStep
<1>5. g = IF l \in DOMAIN lobbies THEN lobbies[l] ELSE NewLobby
  OBVIOUS
<1> HIDE DEF g, h
<1>6. /\ lobbies'[l] = h
      /\ DOMAIN lobbies' = DOMAIN lobbies \cup {l}
      /\ \A m \in DOMAIN lobbies \ {l} : lobbies'[m] = lobbies[m]
  BY <1>1, <1>2, <1>3
<1>7. /\ id \in [Connections -> 0 .. MaxPlayers]
      /\ lobby \in [Connections -> 0 .. Len(lobbies)]
      /\ reading \in [Connections -> BOOLEAN]
  BY DEF IInv, TypeOK
<1>8. /\ \A d \in Connections \ {c} : id'[d] = id[d] /\ lobby'[d] = lobby[d] /\ reading'[d] = reading[d]
      /\ lobby'[c] # NoLobby
  BY <1>3, <1>7 DEF NoLobby
<1>9. /\ \A d \in Connections : closed[d] => prompt'[d] = "none"
      /\ \A d \in Connections \ {c} : prompt'[d] = prompt[d]
      /\ prompt'[c] = IF ~ closed[c] THEN "ready" ELSE "none"
  BY <1>4 DEF Told, PlayInv, ConnectionsInStep
<1>10. \A m \in DOMAIN lobbies : \A d \in PlayersOf(m) : d \in Connections \ {c}
  BY PlayerFacts
<1>11. \A d \in Connections \ {c} : SameExchange(d) /\ clientIsConnected'[d] = clientIsConnected[d]
  BY <1>8, <1>9 DEF SameExchange
<1>12. LobbyInStep(l)'
  <2> DEFINE R == {d \in Players(lobbies'[l]) : clientIsReady'[d]}
  <2>1. CASE l \in DOMAIN lobbies
    <3>1. g = lobbies[l] /\ Players(g) = PlayersOf(l) /\ LobbyInStep(l) /\ ~ g.isPlayingGame
      BY <1>1, <1>5, <2>1, PlayersOfLobby DEF PlayInv, Lobbies, CanAddPlayers
    <3>2. R = ReadyPlayers(l)
      BY <1>2, <1>4, <1>6, <3>1 DEF ReadyPlayers
    <3>3. lobbies'[l].numReady = Cardinality(R) /\ lobbies'[l].numReady # MaxPlayers
      BY <1>2, <1>6, <3>1, <3>2 DEF LobbyInStep
    <3>4. ASSUME NEW d \in Players(lobbies'[l])
          PROVE  IF clientIsConnected'[d] THEN InStep(d, lobbies[l])' ELSE ~ clientIsReady'[d]
      <4>1. CASE d = c
        BY <1>2, <1>4, <1>6, <1>9, <4>1 DEF InStep, IsToBeReady
      <4>2. CASE d # c
        <5>1. d \in PlayersOf(l) /\ d \in Connections \ {c}
          BY <1>2, <1>6, <1>10, <2>1, <3>1, <4>2
        <5>2. IF clientIsConnected[d] THEN InStep(d, lobbies[l]) ELSE ~ clientIsReady[d]
          BY <3>1, <5>1 DEF LobbyInStep
        <5> QED
          BY <1>2, <1>6, <1>11, <3>1, <5>1, <5>2 DEF InStep, Idle, IsToBeReady, SameExchange
      <4> QED
        BY <4>1, <4>2
    <3> QED
      BY <1>2, <1>6, <3>3, <3>4, IdleLobby
  <2>2. CASE l \notin DOMAIN lobbies
    <3>1. g.numReady = 0 /\ Players(g) = {}
      BY <1>5, <2>2, NewLobbyOK DEF NewLobby, Players
    <3>2. Players(lobbies'[l]) = {c} /\ lobbies'[l].numReady = 0 /\ R = {}
      BY <1>2, <1>4, <1>6, <3>1
    <3>3. Cardinality(R) = 0 /\ 0 # MaxPlayers
      <4>1. Cardinality({}) = 0 /\ 0 # MaxPlayers
        BY FS_EmptySet, ConstantFacts
      <4> HIDE DEF R
      <4> QED
        BY <3>2, <4>1
    <3>4. \A d \in Players(lobbies'[l]) :
            IF clientIsConnected'[d] THEN InStep(d, lobbies[l])' ELSE ~ clientIsReady'[d]
      BY <1>2, <1>4, <1>6, <1>9, <3>2 DEF InStep, IsToBeReady
    <3> HIDE DEF R
    <3>5. lobbies'[l].numReady = Cardinality(R) /\ lobbies'[l].numReady # MaxPlayers
      BY <3>2, <3>3
    <3>6. R = {d \in Players(lobbies'[l]) : clientIsReady'[d]}
      BY DEF R
    <3> QED
      BY <1>2, <1>6, <3>4, <3>5, <3>6, IdleLobby
  <2> QED
    BY <2>1, <2>2
<1>13. ASSUME NEW m \in DOMAIN lobbies, m # l
       PROVE  LobbyInStep(m)'
  <2>1. LobbyInStep(m) /\ lobbies'[m] = lobbies[m]
    BY <1>6, <1>13 DEF PlayInv, Lobbies
  <2>2. \A d \in PlayersOf(m) : SameExchange(d) /\ clientIsConnected'[d] = clientIsConnected[d]
    BY <1>10, <1>11
  <2> QED
    BY <2>1, <2>2, OtherLobby
<1>14. ConnectionsInStep'
  <2>1. SUFFICES ASSUME NEW d \in Connections
                 PROVE  /\ ~ clientIsConnected'[d] => d \in accepted' /\ Unheard(d)'
                        /\ reading'[d] => d \in accepted'
                        /\ closed'[d] => prompt'[d] = "none"
                        /\ lobby'[d] = NoLobby => ~ clientIsReady'[d]
    BY DEF ConnectionsInStep
  <2>2. /\ ~ clientIsConnected[d] => d \in accepted /\ Unheard(d)
        /\ reading[d] => d \in accepted
        /\ lobby[d] = NoLobby => ~ clientIsReady[d]
    BY DEF PlayInv, ConnectionsInStep
  <2> QED
    BY <1>4, <1>8, <1>9, <2>2 DEF Unheard
<1> QED
  BY <1>6, <1>12, <1>13, <1>14 DEF PlayInv, Lobbies

\* What a step may do that concerns no lobby and no player: read from one more
\* accepted connection, or read no more from one.
LEMMA AsidePlay ==
  ASSUME IInv, PlayInv,
         UNCHANGED <<lobbies, id, lobby, clientIsConnected, clientIsReady, clientVars>>,
         accepted \subseteq accepted',
         \A d \in Connections : reading'[d] => reading[d] \/ d \in accepted' \ accepted
  PROVE  PlayInv'
<1>1. UNCHANGED <<prompt, toServer, closed>>
  BY DEF clientVars
<1>2. ConnectionsInStep'
  <2>1. SUFFICES ASSUME NEW d \in Connections
                 PROVE  /\ ~ clientIsConnected[d] => d \in accepted' /\ Unheard(d)'
                        /\ reading'[d] => d \in accepted'
                        /\ closed[d] => prompt[d] = "none"
                        /\ lobby[d] = NoLobby => ~ clientIsReady[d]
    BY <1>1 DEF ConnectionsInStep
  <2>2. /\ ~ clientIsConnected[d] => d \in accepted /\ Unheard(d)
        /\ reading[d] => d \in accepted
        /\ closed[d] => prompt[d] = "none"
        /\ lobby[d] = NoLobby => ~ clientIsReady[d]
    BY DEF PlayInv, ConnectionsInStep
  <2>3. d \in accepted /\ Unheard(d) => Unheard(d)'
    BY <1>1 DEF Unheard
  <2> QED
    BY <2>2, <2>3
<1>3. ASSUME NEW m \in DOMAIN lobbies
      PROVE  LobbyInStep(m)'
  <2>1. \A d : SameExchange(d)
    BY <1>1 DEF SameExchange
  <2> QED
    BY <2>1, OtherLobby DEF PlayInv, Lobbies
<1> QED
  BY <1>2, <1>3 DEF PlayInv, Lobbies

LEMMA AcceptPlay ==
  ASSUME IInv, PlayInv, NEW c \in Connections, Accept(c)
  PROVE  PlayInv'
<1>1. /\ c \notin accepted /\ accepted' = accepted \cup {c}
      /\ reading' = [reading EXCEPT ![c] = TRUE]
      /\ prompt' = IF id'[c] # NoId THEN Told({c}, "ready", clientIsConnected) ELSE prompt
      /\ UNCHANGED <<clientIsConnected, clientIsReady, toServer, closed>>
  BY DEF Accept
<1>2. ASSUME NEW l \in 1 .. Len(lobbies) + 1,
             l \in DOMAIN lobbies => CanAddPlayers(lobbies[l]),
             Join(c, l, lobbies)
      PROVE  PlayInv'
  <2>1. id'[c] # NoId
    <3> DEFINE g == IF l \in DOMAIN lobbies THEN lobbies[l] ELSE NewLobby
    <3>1. LobbyOK(g) /\ CanAddPlayers(g) /\ Unplaced(c)
      BY <1>1, <1>2, NewLobbyOK DEF IInv, LobbiesOK, QueueOK
    <3>2. NewId(g) \in 1 .. MaxPlayers
      BY <3>1, AddPlayerStep
    <3>3. id' = [id EXCEPT ![c] = NewId(g)] /\ id \in [Connections -> 0 .. MaxPlayers]
      BY <1>2, <3>1 DEF Join, Unplaced, IInv, TypeOK
    <3> HIDE DEF g
    <3> QED
      BY <3>2, <3>3 DEF NoId
  <2>2. prompt' = Told({c}, "ready", clientIsConnected)
    BY <1>1, <2>1
  <2> QED
    BY <1>1, <1>2, <2>2, AcceptJoinPlay
<1>3. lobbies \in Seq(Lobby) /\ Len(lobbies) \in Nat
  BY DEF IInv, TypeOK
<1>4. CASE AvailableLobbies # {} /\ Join(c, FirstOf(AvailableLobbies), lobbies)
  <2> DEFINE l == FirstOf(AvailableLobbies)
  <2>1. AvailableLobbies \in SUBSET Nat
    BY <1>3 DEF AvailableLobbies, Lobbies
  <2>2. l \in AvailableLobbies
    BY <1>4, <2>1, FirstOfMember
  <2>3. l \in DOMAIN lobbies /\ CanAddPlayers(lobbies[l])
    BY <2>2 DEF AvailableLobbies, Lobbies, IInv, LobbiesOK, LobbyOK, CanAddPlayers
  <2>4. l \in 1 .. Len(lobbies) + 1
    BY <1>3, <2>3
  <2> HIDE DEF l
  <2>5. Join(c, l, lobbies)
    BY <1>4 DEF l
  <2> QED
    BY <1>2, <2>3, <2>4, <2>5
<1>5. CASE Join(c, Len(lobbies) + 1, lobbies)
  <2>1. Len(lobbies) + 1 \in 1 .. Len(lobbies) + 1 /\ Len(lobbies) + 1 \notin DOMAIN lobbies
    BY <1>3
  <2> QED
    BY <1>2, <1>5, <2>1
<1>6. CASE UNCHANGED <<lobbies, id, lobby>>
  <2>1. UNCHANGED prompt
    BY <1>1, <1>6 DEF IInv, QueueOK, Unplaced
  <2>2. \A d \in Connections : reading'[d] => reading[d] \/ d = c
    BY <1>1 DEF IInv, TypeOK
  <2> QED
    BY <1>1, <1>6, <2>1, <2>2, AsidePlay DEF clientVars
<1> QED
  BY <1>4, <1>5, <1>6 DEF Accept

\* What c's own answer or departure touches.
LEMMA OwnStep ==
  ASSUME IInv, PlayInv, NEW c \in Connections,
         UNCHANGED <<lobbies, connVars>>,
         \A d \in Connections \ {c} : SameExchange(d),
         closed'[c] => prompt'[c] = "none",
         Unheard(c) => Unheard(c)',
         \A m \in DOMAIN lobbies : c \in PlayersOf(m) /\ InStep(c, lobbies[m]) => InStep(c, lobbies[m])'
  PROVE  PlayInv'
<1>1. UNCHANGED <<accepted, id, lobby, clientIsConnected, clientIsReady, reading>>
  BY DEF connVars
<1>2. ConnectionsInStep'
  <2>1. SUFFICES ASSUME NEW d \in Connections
                 PROVE  /\ ~ clientIsConnected[d] => d \in accepted /\ Unheard(d)'
                        /\ reading[d] => d \in accepted
                        /\ closed'[d] => prompt'[d] = "none"
                        /\ lobby[d] = NoLobby => ~ clientIsReady[d]
    BY <1>1 DEF ConnectionsInStep
  <2>2. /\ ~ clientIsConnected[d] => d \in accepted /\ Unheard(d)
        /\ reading[d] => d \in accepted
        /\ closed[d] => prompt[d] = "none"
        /\ lobby[d] = NoLobby => ~ clientIsReady[d]
    BY DEF PlayInv, ConnectionsInStep
  <2>3. d # c => (Unheard(d) => Unheard(d)')
    BY <1>1 DEF Unheard, SameExchange
  <2> QED
    BY <2>2, <2>3 DEF SameExchange
<1>3. ASSUME NEW m \in DOMAIN lobbies
      PROVE  LobbyInStep(m)'
  <2>1. LobbyInStep(m) /\ lobbies'[m] = lobbies[m]
    BY DEF PlayInv, Lobbies
  <2>2. ASSUME NEW d \in PlayersOf(m), clientIsConnected[d]
        PROVE  InStep(d, lobbies[m])'
    <3>1. d \in Connections /\ InStep(d, lobbies[m])
      BY <2>1, <2>2, PlayerFacts DEF LobbyInStep
    <3> QED
      BY <2>1, <2>2, <3>1, SameInStep
  <2> QED
    BY <1>1, <2>1, <2>2, QuietLobby
<1> QED
  BY <1>2, <1>3 DEF PlayInv, Lobbies

LEMMA TwoMessages ==
  ASSUME NEW s \in Seq({"ready", "turn"}), Len(s) = 2, s[1] = "turn", s[2] = "ready"
  PROVE  s = <<"turn", "ready">>
OBVIOUS

LEMMA AnswerPlay ==
  ASSUME IInv, PlayInv, NEW c \in Connections, Answer(c)
  PROVE  PlayInv'
<1>1. /\ prompt[c] # "none" /\ UNCHANGED <<lobbies, connVars, closed>>
      /\ toServer' = [toServer EXCEPT ![c] = Append(toServer[c], prompt[c])]
      /\ prompt' = [prompt EXCEPT ![c] = "none"]
  BY DEF Answer, serverVars
<1>2. /\ toServer \in [Connections -> Seq({"ready", "turn"})]
      /\ prompt \in [Connections -> {"none", "ready", "turn"}]
      /\ ~ closed[c]
  BY <1>1 DEF IInv, TypeOK, PlayInv, ConnectionsInStep
<1>3. /\ toServer'[c] = Append(toServer[c], prompt[c]) /\ prompt'[c] = "none" /\ ~ closed'[c]
      /\ id'[c] = id[c] /\ clientIsReady'[c] = clientIsReady[c] /\ reading'[c] = reading[c]
      /\ \A d \in Connections \ {c} : SameExchange(d)
  BY <1>1, <1>2 DEF connVars, SameExchange
<1>4. Unheard(c) => Unheard(c)'
  BY <1>2, <1>3 DEF Unheard
<1>9. /\ Append(<<>>, "turn") = <<"turn">> /\ Append(<<>>, "ready") = <<"ready">>
      /\ Append(<<"turn">>, "ready") = <<"turn", "ready">>
  <2>1. Append(<<>>, "turn") = <<"turn">>
    OBVIOUS
  <2>2. Append(<<>>, "ready") = <<"ready">>
    OBVIOUS
  <2>3. Append(<<"turn">>, "ready") = <<"turn", "ready">>
    <3>1. LET s == Append(<<"turn">>, "ready")
          IN  s \in Seq({"ready", "turn"}) /\ Len(s) = 2 /\ s[1] = "turn" /\ s[2] = "ready"
      OBVIOUS
    <3> QED
      BY <3>1, TwoMessages
  <2> QED
    BY <2>1, <2>2, <2>3
<1>5. IsToMove(c) => IsToMove(c)'
  <2>1. IsToMove(c) => toServer[c] = <<>> /\ prompt[c] = "turn"
    BY <1>1 DEF IsToMove
  <2>2. IsToMove(c) => toServer'[c] = <<"turn">>
    BY <1>3, <1>9, <2>1
  <2> QED
    BY <1>3, <2>2 DEF IsToMove
<1>6. IsToBeReady(c) => IsToBeReady(c)'
  <2>1. IsToBeReady(c) => toServer[c] \in {<<>>, <<"turn">>} /\ prompt[c] = "ready"
    BY <1>1 DEF IsToBeReady
  <2>2. IsToBeReady(c) => toServer'[c] \in {<<"ready">>, <<"turn", "ready">>}
    BY <1>3, <1>9, <2>1
  <2>3. \A m \in {<<"ready">>, <<"turn", "ready">>} : m # <<>> /\ m # <<"turn">>
    OBVIOUS
  <2> QED
    BY <1>3, <2>2, <2>3 DEF IsToBeReady
<1>7. ~ Idle(c)
  BY <1>1 DEF Idle
<1>8. \A m \in DOMAIN lobbies : InStep(c, lobbies[m]) => InStep(c, lobbies[m])'
  BY <1>1, <1>3, <1>5, <1>6, <1>7 DEF InStep
<1> QED
  BY <1>1, <1>3, <1>4, <1>8, OwnStep

LEMMA ClosePlay ==
  ASSUME IInv, PlayInv, NEW c \in Connections, Close(c)
  PROVE  PlayInv'
<1>1. /\ UNCHANGED <<lobbies, connVars, toServer>>
      /\ closed' = [closed EXCEPT ![c] = TRUE]
      /\ prompt' = [prompt EXCEPT ![c] = "none"]
      /\ closed \in [Connections -> BOOLEAN]
      /\ prompt \in [Connections -> {"none", "ready", "turn"}]
  BY DEF Close, serverVars, IInv, TypeOK
<1>2. /\ prompt'[c] = "none" /\ closed'[c] /\ toServer'[c] = toServer[c]
      /\ id'[c] = id[c] /\ clientIsReady'[c] = clientIsReady[c] /\ reading'[c] = reading[c]
      /\ \A d \in Connections \ {c} : SameExchange(d)
  BY <1>1 DEF connVars, SameExchange
<1>3. Unheard(c) => Unheard(c)'
  BY <1>2 DEF Unheard
<1>4. \A m \in DOMAIN lobbies : InStep(c, lobbies[m]) => InStep(c, lobbies[m])'
  BY <1>1, <1>2 DEF InStep, Idle, IsToMove, IsToBeReady
<1> QED
  BY <1>1, <1>2, <1>3, <1>4, OwnStep
-----------------------------------------------------------------------------
LEMMA PlayInit ==
  ASSUME Init
  PROVE  PlayInv
<1>1. Lobbies = {}
  BY DEF Init, Lobbies
<1>2. ConnectionsInStep
  BY DEF Init, ConnectionsInStep
<1> QED
  BY <1>1, <1>2 DEF PlayInv

\* Every step keeps the lobbies and their players in step: one lemma for each action.
LEMMA PlayNext ==
  ASSUME IInv, PlayInv, ~ FalseTimeouts, [Next]_vars
  PROVE  PlayInv'
<1>1. CASE AcceptError \/ UpdateQueuePositions \/ UNCHANGED vars
  <2>1. UNCHANGED <<lobbies, id, lobby, clientIsConnected, clientIsReady, clientVars, accepted, reading>>
    BY <1>1 DEF AcceptError, UpdateQueuePositions, vars, serverVars, connVars
  <2> QED
    BY <2>1, AsidePlay
<1>2. ASSUME NEW c \in Connections, ReadError(c)
      PROVE  PlayInv'
  <2>1. /\ UNCHANGED <<lobbies, id, lobby, clientIsConnected, clientIsReady, clientVars, accepted>>
        /\ \A d \in Connections : reading'[d] => reading[d]
    BY <1>2 DEF ReadError, serverVars, IInv, TypeOK
  <2> QED
    BY <2>1, AsidePlay
<1>3. CASE \E c \in Connections : Accept(c) \/ ReadClosed(c) \/ ReadError(c) \/ PingTimeout(c)
  BY <1>2, <1>3, AcceptPlay, ReadClosedPlay, PingTimeoutPlay
<1>4. CASE \E c \in Connections : ReadReady(c) \/ ReadTurn(c) \/ Answer(c) \/ Close(c)
  BY <1>4, ReadReadyPlay, ReadTurnPlay, AnswerPlay, ClosePlay
<1> QED
  BY <1>1, <1>3, <1>4 DEF Next

\* Where no ping times out falsely, every player is at every time where its lobby
\* has it: asked to be ready, ready, asked to move, or waiting; whatever order the
\* handlers of server.cpp, gamelobby.cpp and connection.cpp run in.
THEOREM EverybodyInStep ==
  ASSUME ~ FalseTimeouts
  PROVE  Spec => []PlayInv
<1>1. Init => PlayInv
  BY PlayInit
<1>2. PlayInv /\ IInv /\ [Next]_vars => PlayInv'
  BY PlayNext
<1> QED
  BY <1>1, <1>2, Inductive, PTL DEF Spec

\* A game is only played by players who are all there: the handler that sees one of
\* them end is the one that ends the game (onDisconnect).
THEOREM PlayersStayForTheGame ==
  ASSUME ~ FalseTimeouts
  PROVE  Spec => []PlayersArePresent
<1>1. IInv /\ PlayInv => PlayersArePresent
  BY AllPresent DEF PlayInv, PlayersArePresent, Lobbies
<1> QED
  BY <1>1, Inductive, EverybodyInStep, PTL

\* numReady, which counts messages, is the number of players who are ready, and the
\* game goes on exactly as long as all of them are (onReady, onGameOver, onDisconnect).
THEOREM ReadiesAreCounted ==
  ASSUME ~ FalseTimeouts
  PROVE  Spec => []ReadyIsExact
<1>1. PlayInv => ReadyIsExact
  BY DEF PlayInv, LobbyInStep, ReadyPlayers, ReadyIsExact, Lobbies
<1> QED
  BY <1>1, EverybodyInStep, PTL

\* At most one element, as Pending counts them.
LEMMA OneElement ==
  ASSUME NEW x
  PROVE  /\ Cardinality({}) = 0
         /\ Cardinality({x}) = 1
BY FS_EmptySet, FS_Singleton

\* The turns and readies a player has to give, by where it is in its exchange.
LEMMA PendingOf ==
  ASSUME NEW c
  PROVE  /\ Idle(c) => Pending(c, "turn") = {} /\ Pending(c, "ready") = {}
         /\ IsToMove(c) => Pending(c, "turn") = IF toServer[c] = <<"turn">> THEN {1}
                                               ELSE IF closed[c] THEN {} ELSE {0}
         /\ IsToBeReady(c) /\ ~ closed[c] =>
              Pending(c, "ready") = IF toServer[c] = <<"ready">> THEN {1}
                                    ELSE IF toServer[c] = <<"turn", "ready">> THEN {2} ELSE {0}
<1>1. /\ DOMAIN <<"turn">> = {1} /\ <<"turn">>[1] = "turn"
      /\ DOMAIN <<"ready">> = {1} /\ <<"ready">>[1] = "ready"
      /\ DOMAIN <<"turn", "ready">> = {1, 2}
      /\ <<"turn", "ready">>[1] = "turn" /\ <<"turn", "ready">>[2] = "ready"
  OBVIOUS
<1>2. DOMAIN <<>> = {}
  OBVIOUS
<1>3. Idle(c) => Pending(c, "turn") = {} /\ Pending(c, "ready") = {}
  BY <1>2 DEF Idle, Pending
<1>4. ASSUME IsToMove(c)
      PROVE  Pending(c, "turn") = IF toServer[c] = <<"turn">> THEN {1}
                                  ELSE IF closed[c] THEN {} ELSE {0}
  <2>1. CASE toServer[c] = <<"turn">>
    <3>1. prompt[c] = "none"
      BY <1>4, <2>1 DEF IsToMove
    <3> QED
      BY <1>1, <2>1, <3>1 DEF Pending
  <2>2. CASE toServer[c] = <<>>
    <3>1. prompt[c] = IF closed[c] THEN "none" ELSE "turn"
      BY <1>4, <2>2 DEF IsToMove
    <3> QED
      BY <1>2, <2>2, <3>1 DEF Pending
  <2> QED
    BY <1>4, <2>1, <2>2 DEF IsToMove
<1>5. ASSUME IsToBeReady(c), ~ closed[c]
      PROVE  Pending(c, "ready") = IF toServer[c] = <<"ready">> THEN {1}
                                   ELSE IF toServer[c] = <<"turn", "ready">> THEN {2} ELSE {0}
  <2>1. CASE toServer[c] = <<>>
    <3>1. prompt[c] = "ready"
      BY <1>5, <2>1 DEF IsToBeReady
    <3> QED
      BY <1>2, <2>1, <3>1 DEF Pending
  <2>2. CASE toServer[c] = <<"turn">>
    <3>1. prompt[c] = "ready"
      BY <1>5, <2>2 DEF IsToBeReady
    <3>2. <<"turn">> # <<"ready">> /\ <<"turn">> # <<"turn", "ready">>
      OBVIOUS
    <3> QED
      BY <1>1, <2>2, <3>1, <3>2 DEF Pending
  <2>3. CASE toServer[c] = <<"ready">>
    <3>1. <<"ready">> # <<>> /\ <<"ready">> # <<"turn">>
      OBVIOUS
    <3>2. prompt[c] = "none"
      BY <1>5, <2>3, <3>1 DEF IsToBeReady
    <3> QED
      BY <1>1, <2>3, <3>2 DEF Pending
  <2>4. CASE toServer[c] = <<"turn", "ready">>
    <3>1. <<"turn", "ready">> \notin {<<>>, <<"turn">>, <<"ready">>}
      OBVIOUS
    <3>2. prompt[c] = "none"
      BY <1>5, <2>4, <3>1 DEF IsToBeReady
    <3> QED
      BY <1>1, <2>4, <3>1, <3>2 DEF Pending
  <2> QED
    BY <1>5, <2>1, <2>2, <2>3, <2>4 DEF IsToBeReady
<1> QED
  BY <1>3, <1>4, <1>5

\* Some player of a lobby that plays goes by the current player's id: the ids of its
\* players are all there are.
LEMMA MoverExists ==
  ASSUME IInv, NEW l \in DOMAIN lobbies, LobbyInStep(l), lobbies[l].isPlayingGame
  PROVE  \E c \in PlayersOf(l) : id[c] = lobbies[l].currentPlayer
<1> DEFINE g == lobbies[l]
           s == g.currentPlayer - 1
<1>1. IsFull(g) /\ LobbyOK(g) /\ g \in Lobby
  BY AllPresent DEF IInv, LobbiesOK, LobbyOK
<1>2. g.currentPlayer \in 0 .. MaxPlayers /\ g.currentPlayer # 0 /\ MaxPlayers \in Nat
  BY <1>1, ConstantFacts DEF Lobby, LobbyInStep, NoPlayer
<1>3. s \in Seats /\ s + 1 = g.currentPlayer
  BY <1>2 DEF Seats
<1>4. Occupied(g) = Seats
  <2>1. /\ IsFiniteSet(Seats) /\ Cardinality(Seats) = MaxPlayers
        /\ Occupied(g) \subseteq Seats
    BY <1>1, SeatsFinite
  <2>2. Cardinality(Occupied(g)) = Cardinality(Seats)
    BY <1>1, <2>1 DEF LobbyOK, Counted, IsFull
  <2> QED
    BY <2>1, <2>2, FS_Subset
<1>5. id[g.players[s]] = s + 1
  BY <1>3, <1>4 DEF IInv, LobbiesOK
<1>6. g.players[s] \in PlayersOf(l)
  BY <1>3, <1>4 DEF PlayersOf
<1> QED
  BY <1>3, <1>5, <1>6

\* In a game one player has one turn to make and nobody else has any: no turn sent
\* for an earlier game or a position that is gone is ever taken in this one.
THEOREM OneTurnAtATime ==
  ASSUME ~ FalseTimeouts
  PROVE  Spec => []OneTurnAsked
<1>1. ASSUME IInv, PlayInv
      PROVE  OneTurnAsked
  <2>1. SUFFICES ASSUME NEW l \in DOMAIN lobbies, lobbies[l].isPlayingGame
                 PROVE  \E mover \in PlayersOf(l) :
                          /\ id[mover] = lobbies[l].currentPlayer
                          /\ Cardinality(Pending(mover, "turn")) <= 1
                          /\ closed[mover] \/ Pending(mover, "turn") # {}
                          /\ \A c \in PlayersOf(l) \ {mover} : Pending(c, "turn") = {}
    BY DEF OneTurnAsked, Lobbies
  <2>2. LobbyInStep(l)
    BY <1>1 DEF PlayInv, Lobbies
  <2>3. PICK mover \in PlayersOf(l) : id[mover] = lobbies[l].currentPlayer
    BY <1>1, <2>1, <2>2, MoverExists
  <2>4. \A c \in PlayersOf(l) : clientIsConnected[c] /\ InStep(c, lobbies[l])
    BY <1>1, <2>1, <2>2, AllPresent DEF LobbyInStep
  <2>5. IsToMove(mover)
    BY <2>1, <2>3, <2>4 DEF InStep
  <2>6. \A c \in PlayersOf(l) \ {mover} : Idle(c)
    <3>1. \A c \in PlayersOf(l) : id[c] = id[mover] => c = mover
      BY <1>1, <2>3, PlayerFacts
    <3> QED
      BY <2>1, <2>3, <2>4, <3>1 DEF InStep
  <2>7. \/ Pending(mover, "turn") = {0}
        \/ Pending(mover, "turn") = {1}
        \/ closed[mover] /\ Pending(mover, "turn") = {}
    <3>1. Pending(mover, "turn") = IF toServer[mover] = <<"turn">> THEN {1}
                                   ELSE IF closed[mover] THEN {} ELSE {0}
      BY <2>5, PendingOf
    <3> QED
      BY <3>1
  <2>8. /\ Cardinality(Pending(mover, "turn")) <= 1
        /\ closed[mover] \/ Pending(mover, "turn") # {}
    <3>1. Cardinality({}) = 0 /\ Cardinality({0}) = 1 /\ Cardinality({1}) = 1
      BY OneElement
    <3>2. {0} # {} /\ {1} # {}
      OBVIOUS
    <3>3. CASE Pending(mover, "turn") = {0}
      BY <3>1, <3>2, <3>3
    <3>4. CASE Pending(mover, "turn") = {1}
      BY <3>1, <3>2, <3>4
    <3>5. CASE closed[mover] /\ Pending(mover, "turn") = {}
      BY <3>1, <3>5
    <3> QED
      BY <2>7, <3>3, <3>4, <3>5
  <2> QED
    BY <2>3, <2>6, <2>8, PendingOf
<1> QED
  BY <1>1, Inductive, EverybodyInStep, PTL

\* Between games nobody is waited for who was not asked: each player who is there has
\* one ready to give until it has given it.
THEOREM NobodyIsForgotten ==
  ASSUME ~ FalseTimeouts
  PROVE  Spec => []EveryoneIsAsked
<1>1. ASSUME PlayInv
      PROVE  EveryoneIsAsked
  <2>1. SUFFICES ASSUME NEW l \in DOMAIN lobbies, ~ lobbies[l].isPlayingGame,
                        NEW c \in PlayersOf(l), clientIsConnected[c], ~ closed[c]
                 PROVE  Cardinality(Pending(c, "ready")) = IF clientIsReady[c] THEN 0 ELSE 1
    BY DEF EveryoneIsAsked, Lobbies
  <2>2. InStep(c, lobbies[l])
    BY <1>1, <2>1 DEF PlayInv, LobbyInStep, Lobbies
  <2>3. CASE clientIsReady[c]
    BY <2>1, <2>2, <2>3, PendingOf, OneElement DEF InStep
  <2>4. CASE ~ clientIsReady[c]
    <3>1. Pending(c, "ready") \in {{0}, {1}, {2}}
      BY <2>1, <2>2, <2>4, PendingOf DEF InStep
    <3> QED
      BY <2>4, <3>1, OneElement
  <2> QED
    BY <2>3, <2>4
<1> QED
  BY <1>1, EverybodyInStep, PTL
=============================================================================
