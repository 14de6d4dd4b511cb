------------------------- MODULE Matchmaking_proofs --------------------------
(***************************************************************************)
(* Proof that Server implements Matchmaking for any number of connections, *)
(* lobbies and seats, and whether or not pings time out falsely: each      *)
(* handler is one step of Matchmaking, or none.                            *)
(***************************************************************************)
EXTENDS Play_proofs

\* What Matchmaking sees of the lobbies.
SeatedNow == [l \in 1 .. MaxLobbies |-> IF l \in Lobbies THEN PlayersOf(l) ELSE {}]
PlayingNow == {l \in Lobbies : lobbies[l].isPlayingGame}

\* Lobbies are numbered from 1 and stay within MaxLobbies.
LEMMA LobbyNumbers ==
  ASSUME IInv
  PROVE  /\ lobbies \in Seq(Lobby) /\ DOMAIN lobbies \subseteq 1 .. MaxLobbies
         /\ Len(lobbies) \in Nat /\ DOMAIN lobbies = 1 .. Len(lobbies) /\ Len(lobbies) <= MaxLobbies
BY ConstantFacts DEF IInv, TypeOK

\* A lobby has room for Matchmaking when it is not full.
LEMMA RoomInLobby ==
  ASSUME IInv, NEW l \in 1 .. MaxLobbies
  PROVE  Matching!HasRoom(l) <=> (l \in DOMAIN lobbies => ~ IsFull(lobbies[l]))
<1>1. Matching!HasRoom(l) <=> Cardinality(SeatedNow[l]) < MaxPlayers
  BY DEF Matching!HasRoom, SeatedNow, Matching!Cardinality, Cardinality, Matching!IsFiniteSet, IsFiniteSet
<1>2. SeatedNow[l] = IF l \in DOMAIN lobbies THEN PlayersOf(l) ELSE {}
  BY DEF SeatedNow, Lobbies
<1>3. CASE l \in DOMAIN lobbies
  <2>1. Cardinality(PlayersOf(l)) = lobbies[l].numPlayers
    BY <1>3, PlayersCount
  <2>2. lobbies[l].numPlayers \in Nat /\ lobbies[l].numPlayers <= MaxPlayers /\ MaxPlayers \in Nat
    BY <1>3, PlayersCount, ConstantFacts
  <2>3. Matching!HasRoom(l) <=> Cardinality(PlayersOf(l)) < MaxPlayers
    BY <1>3, <1>1, <1>2
  <2> QED
    BY <1>3, <2>1, <2>2, <2>3 DEF IsFull
<1>4. CASE l \notin DOMAIN lobbies
  <2>1. Matching!HasRoom(l) <=> Cardinality({}) < MaxPlayers
    BY <1>4, <1>1, <1>2
  <2>2. Cardinality({}) = 0 /\ 0 < MaxPlayers
    BY FS_EmptySet, ConstantFacts
  <2> QED
    BY <1>4, <2>1, <2>2
<1> QED
  BY <1>3, <1>4

\* One lobby changes, or comes into being, and the others stay.
LEMMA SeatedAfter ==
  ASSUME NEW l \in 1 .. MaxLobbies, DOMAIN lobbies' = DOMAIN lobbies \cup {l},
         \A m \in DOMAIN lobbies \ {l} : lobbies'[m] = lobbies[m]
  PROVE  /\ SeatedNow' = [SeatedNow EXCEPT ![l] = Players(lobbies'[l])]
         /\ PlayingNow' = IF lobbies'[l].isPlayingGame THEN PlayingNow \cup {l} ELSE PlayingNow \ {l}
<1>1. \A m \in 1 .. MaxLobbies :
        (IF m \in Lobbies' THEN PlayersOf(m)' ELSE {}) =
          IF m = l THEN Players(lobbies'[l]) ELSE IF m \in Lobbies THEN PlayersOf(m) ELSE {}
  BY DEF Lobbies, PlayersOf, Players
<1>2. SeatedNow' = [SeatedNow EXCEPT ![l] = Players(lobbies'[l])]
  BY <1>1 DEF SeatedNow
<1>3. PlayingNow' = IF lobbies'[l].isPlayingGame THEN PlayingNow \cup {l} ELSE PlayingNow \ {l}
  BY DEF PlayingNow, Lobbies
<1> QED
  BY <1>2, <1>3

\* What a handler does for Matchmaking, stated of what Matchmaking sees.
LEMMA AbstractArrive ==
  ASSUME NEW c, c \notin accepted, accepted' = accepted \cup {c}, UNCHANGED PlayingNow,
         \/ /\ playerQueue = <<>> /\ UNCHANGED playerQueue
            /\ \E l \in (1 .. MaxLobbies) \ PlayingNow :
                 Matching!HasRoom(l) /\ SeatedNow' = [SeatedNow EXCEPT ![l] = @ \cup {c}]
         \/ /\ \A l \in 1 .. MaxLobbies : ~ Matching!HasRoom(l)
            /\ playerQueue' = Append(playerQueue, c) /\ UNCHANGED SeatedNow
  PROVE  Matching!Arrive(c)
BY DEF Matching!Arrive, Matching!Lobbies, SeatedNow, PlayingNow

\* Arithmetic that the leaves about Len(lobbies) cannot do for themselves.
LEMMA NumbersInOrder ==
  \A n, m \in Nat : /\ n < m => n # m
                    /\ n <= m /\ n >= m => n = m
OBVIOUS

\* A new connection takes a seat where there is one and the queue's end elsewhere.
LEMMA AcceptMatches ==
  ASSUME IInv, NEW c \in Connections, Accept(c)
  PROVE  Matching!Arrive(c)
<1>1. c \notin accepted /\ accepted' = accepted \cup {c}
  BY DEF Accept
<1>2. /\ lobbies \in Seq(Lobby) /\ DOMAIN lobbies \subseteq 1 .. MaxLobbies
      /\ Len(lobbies) \in Nat /\ DOMAIN lobbies = 1 .. Len(lobbies) /\ Len(lobbies) <= MaxLobbies
  BY LobbyNumbers
<1>3. ASSUME NEW l \in 1 .. Len(lobbies) + 1, l \in 1 .. MaxLobbies,
             l \in DOMAIN lobbies => CanAddPlayers(lobbies[l]),
             Join(c, l, lobbies), playerQueue = <<>>, UNCHANGED playerQueue
      PROVE  Matching!Arrive(c)
  <2> DEFINE g == IF l \in DOMAIN lobbies THEN lobbies[l] ELSE NewLobby
             h == AddPlayer(g, c)
  <2>1. LobbyOK(g) /\ CanAddPlayers(g)
    BY <1>3, NewLobbyOK DEF IInv, LobbiesOK
  <2>2. Players(h) = Players(g) \cup {c} /\ ~ h.isPlayingGame /\ h \in Lobby
    BY <2>1, AddPlayerPlayers
  <2>3. lobbies' = IF l \in DOMAIN lobbies THEN [lobbies EXCEPT ![l] = h] ELSE Append(lobbies, h)
    BY <1>3 DEF Join
  <2>4. Players(g) = IF l \in Lobbies THEN PlayersOf(l) ELSE {}
    BY NewLobbyOK, PlayersOfLobby DEF Players, Lobbies
  <2>5. ~ g.isPlayingGame
    BY <2>1 DEF CanAddPlayers
  <2>6. l \notin PlayingNow
    BY <2>5 DEF PlayingNow, Lobbies
  <2> HIDE DEF g, h
  <2>7. /\ lobbies'[l] = h
        /\ DOMAIN lobbies' = DOMAIN lobbies \cup {l}
        /\ \A m \in DOMAIN lobbies \ {l} : lobbies'[m] = lobbies[m]
    BY <1>2, <2>2, <2>3
  <2>8. /\ SeatedNow' = [SeatedNow EXCEPT ![l] = Players(lobbies'[l])]
        /\ PlayingNow' = PlayingNow \ {l}
    BY <1>3, <2>2, <2>7, SeatedAfter
  <2>9. SeatedNow[l] = Players(g)
    BY <1>3, <2>4 DEF SeatedNow
  <2>10. SeatedNow' = [SeatedNow EXCEPT ![l] = @ \cup {c}] /\ UNCHANGED PlayingNow
    BY <2>2, <2>6, <2>7, <2>8, <2>9
  <2>11. Matching!HasRoom(l)
    BY <1>3, RoomInLobby DEF CanAddPlayers
  <2> QED
    BY <1>1, <1>3, <2>6, <2>10, <2>11, AbstractArrive
<1>4. CASE AvailableLobbies # {} /\ Join(c, FirstOf(AvailableLobbies), lobbies) /\ UNCHANGED playerQueue
  <2> DEFINE l == FirstOf(AvailableLobbies)
  <2>1. AvailableLobbies \in SUBSET Nat
    BY <1>2 DEF AvailableLobbies, Lobbies
  <2>2. l \in AvailableLobbies
    BY <1>4, <2>1, FirstOfMember
  <2>3. l \in DOMAIN lobbies /\ ~ IsFull(lobbies[l]) /\ CanAddPlayers(lobbies[l])
    BY <2>2 DEF AvailableLobbies, Lobbies, IInv, LobbiesOK, LobbyOK, CanAddPlayers
  <2>4. l \in 1 .. Len(lobbies) + 1 /\ l \in 1 .. MaxLobbies
    BY <1>2, <2>3
  <2>5. playerQueue = <<>>
    BY <2>3 DEF IInv, QueueOnlyWhenFull, Lobbies
  <2> HIDE DEF l
  <2>6. Join(c, l, lobbies)
    BY <1>4 DEF l
  <2> QED
    BY <1>3, <1>4, <2>3, <2>4, <2>5, <2>6
<1>5. CASE Len(lobbies) < MaxLobbies /\ Join(c, Len(lobbies) + 1, lobbies) /\ UNCHANGED playerQueue
  <2>1. /\ Len(lobbies) + 1 \in 1 .. Len(lobbies) + 1 /\ Len(lobbies) + 1 \notin DOMAIN lobbies
        /\ Len(lobbies) + 1 \in 1 .. MaxLobbies
    BY <1>2, <1>5, ConstantFacts
  <2>2. playerQueue = <<>>
    <3>1. Len(lobbies) < MaxLobbies
      BY <1>5
    <3>2. Len(lobbies) # MaxLobbies
      BY <1>2, <3>1, ConstantFacts, NumbersInOrder, Zenon
    <3> QED
      BY <3>2 DEF IInv, QueueOnlyWhenFull
  <2> QED
    BY <1>3, <1>5, <2>1, <2>2
<1>6. CASE /\ AvailableLobbies = {} /\ Len(lobbies) >= MaxLobbies
           /\ playerQueue' = Append(playerQueue, c) /\ UNCHANGED lobbies
  <2>1. DOMAIN lobbies = 1 .. MaxLobbies
    <3>0. Len(lobbies) >= MaxLobbies
      BY <1>6
    <3>1. Len(lobbies) = MaxLobbies
      BY <1>2, <3>0, ConstantFacts, NumbersInOrder, Zenon
    <3> QED
      BY <1>2, <3>1
  <2>2. \A l \in 1 .. MaxLobbies : ~ Matching!HasRoom(l)
    BY <1>6, <2>1, RoomInLobby DEF AvailableLobbies, Lobbies
  <2>3. UNCHANGED <<SeatedNow, PlayingNow>>
    BY <1>6 DEF SeatedNow, PlayingNow, PlayersOf, Lobbies
  <2> QED
    BY <1>1, <1>6, <2>2, <2>3, AbstractArrive
<1> QED
  BY <1>4, <1>5, <1>6 DEF Accept

\* The departure of c from lobby l, in terms of what Matchmaking sees.
LEMMA AbstractDepart ==
  ASSUME NEW c, NEW l \in 1 .. MaxLobbies, c \in SeatedNow[l], UNCHANGED accepted,
         SeatedNow' = [SeatedNow EXCEPT ![l] = IF playerQueue = <<>> THEN @ \ {c}
                                               ELSE (@ \ {c}) \cup {Head(playerQueue)}],
         playerQueue' = IF playerQueue = <<>> THEN playerQueue ELSE Tail(playerQueue),
         PlayingNow' = PlayingNow \ {l}
  PROVE  Matching!Depart(c, l)
BY DEF Matching!Depart, SeatedNow, PlayingNow

\* The end of a connection is a departure when it has a seat that counts.
LEMMA DisconnectMatches ==
  ASSUME IInv, NEW c \in Connections, HandleDisconnect(c), UNCHANGED accepted
  PROVE  (\E l \in 1 .. MaxLobbies : Matching!Depart(c, l)) \/ UNCHANGED Matching!vars
<1>1. CASE clientIsConnected[c] /\ lobby[c] # NoLobby
  <2> SUFFICES ASSUME NEW l, l = lobby[c]
               PROVE  \E m \in 1 .. MaxLobbies : Matching!Depart(c, m)
    OBVIOUS
  <2>1. /\ l \in DOMAIN lobbies /\ c \in PlayersOf(l) /\ DOMAIN lobbies' = DOMAIN lobbies
        /\ \A m \in DOMAIN lobbies \ {l} : lobbies'[m] = lobbies[m]
        /\ ~ lobbies'[l].isPlayingGame
    BY <1>1, DisconnectShape
  <2>a. l # NoLobby /\ clientIsConnected[c]
    BY <1>1
  <2>2. \E J \in SUBSET Connections : SeatGoesTo(c, l, J)
    BY <2>a, DisconnectShape
  <2>3. PICK J \in SUBSET Connections : SeatGoesTo(c, l, J)
    BY <2>2
  <2>4. /\ Players(lobbies'[l]) = (PlayersOf(l) \ {c}) \cup J
        /\ IF playerQueue = <<>> THEN J = {} /\ playerQueue' = playerQueue
                                 ELSE J = {Head(playerQueue)} /\ playerQueue' = Tail(playerQueue)
    BY <2>3 DEF SeatGoesTo
  <2>5. l \in 1 .. MaxLobbies /\ DOMAIN lobbies' = DOMAIN lobbies \cup {l}
    BY <2>1, LobbyNumbers
  <2>6. SeatedNow[l] = PlayersOf(l)
    BY <2>1, <2>5 DEF SeatedNow, Lobbies
  <2>7. /\ SeatedNow' = [SeatedNow EXCEPT ![l] = Players(lobbies'[l])]
        /\ PlayingNow' = PlayingNow \ {l}
    BY <2>1, <2>5, SeatedAfter
  <2>8. SeatedNow' = [SeatedNow EXCEPT ![l] = IF playerQueue = <<>> THEN @ \ {c}
                                              ELSE (@ \ {c}) \cup {Head(playerQueue)}]
    BY <2>4, <2>6, <2>7
  <2>9. playerQueue' = IF playerQueue = <<>> THEN playerQueue ELSE Tail(playerQueue)
    BY <2>4
  <2>10. c \in SeatedNow[l]
    BY <2>1, <2>6
  <2> QED
    BY <2>5, <2>7, <2>8, <2>9, <2>10, AbstractDepart
<1>2. CASE ~ clientIsConnected[c] \/ lobby[c] = NoLobby
  <2>1. UNCHANGED <<lobbies, playerQueue>>
    BY <1>2 DEF HandleDisconnect
  <2> QED
    BY <2>1 DEF Matching!vars, PlayersOf, Lobbies
<1> QED
  BY <1>1, <1>2

\* The start and the end of a game, likewise.
LEMMA AbstractGame ==
  ASSUME NEW l \in 1 .. MaxLobbies, UNCHANGED <<accepted, playerQueue, SeatedNow>>
  PROVE  /\ l \notin PlayingNow /\ ~ Matching!HasRoom(l) /\ PlayingNow' = PlayingNow \cup {l}
              => Matching!Start(l)
         /\ l \in PlayingNow /\ PlayingNow' = PlayingNow \ {l} => Matching!End(l)
         /\ UNCHANGED PlayingNow => UNCHANGED Matching!vars
BY DEF Matching!Start, Matching!End, Matching!vars, SeatedNow, PlayingNow

\* What a message that is read does to one lobby, whose players stay.
LEMMA GameAfter ==
  ASSUME IInv, NEW l \in DOMAIN lobbies, NEW h \in Lobby,
         h.players = lobbies[l].players, lobbies' = [lobbies EXCEPT ![l] = h]
  PROVE  /\ UNCHANGED SeatedNow
         /\ PlayingNow' = IF h.isPlayingGame THEN PlayingNow \cup {l} ELSE PlayingNow \ {l}
         /\ l \in 1 .. MaxLobbies
         /\ l \in PlayingNow <=> lobbies[l].isPlayingGame
<1>1. lobbies \in Seq(Lobby) /\ l \in 1 .. MaxLobbies
  BY LobbyNumbers
<1>2. /\ DOMAIN lobbies' = DOMAIN lobbies \cup {l} /\ lobbies'[l] = h
      /\ \A m \in DOMAIN lobbies \ {l} : lobbies'[m] = lobbies[m]
  BY <1>1
<1>3. /\ SeatedNow' = [SeatedNow EXCEPT ![l] = Players(lobbies'[l])]
      /\ PlayingNow' = IF h.isPlayingGame THEN PlayingNow \cup {l} ELSE PlayingNow \ {l}
  BY <1>1, <1>2, SeatedAfter
<1>4. Players(lobbies'[l]) = SeatedNow[l]
  BY <1>1, <1>2 DEF Players, Occupied, SeatedNow, PlayersOf, Lobbies
<1>5. UNCHANGED SeatedNow
  BY <1>3, <1>4 DEF SeatedNow
<1> QED
  BY <1>1, <1>3, <1>5 DEF PlayingNow, Lobbies

\* The last ready of a full lobby starts its game; any other only counts.
LEMMA ReadReadyMatches ==
  ASSUME IInv, NEW c \in Connections, ReadReady(c)
  PROVE  (\E l \in 1 .. MaxLobbies : Matching!Start(l)) \/ UNCHANGED Matching!vars
<1> SUFFICES ASSUME NEW l, l = lobby[c]
             PROVE  (\E m \in 1 .. MaxLobbies : Matching!Start(m)) \/ UNCHANGED Matching!vars
  OBVIOUS
<1> DEFINE g == lobbies[l]
           counted == CountReady(g)
<1>1. Reads(c, "ready") /\ UNCHANGED <<playerQueue, accepted>>
  BY DEF ReadReady
<1>2. l \in DOMAIN lobbies /\ LobbyOK(g) /\ g \in Lobby
  BY <1>1, ReadsFacts DEF LobbyOK
<1>3. 1 \in 1 .. MaxPlayers
  BY ConstantFacts
<1>4. /\ counted \in Lobby /\ counted.players = g.players
      /\ counted.numPlayers = g.numPlayers /\ counted.isPlayingGame = g.isPlayingGame
  <2>1. LobbyOK(counted) /\ counted.players = g.players /\ counted.numPlayers = g.numPlayers
    BY <1>2, <1>3, GameStep
  <2>2. counted.isPlayingGame = g.isPlayingGame
    BY <1>2 DEF CountReady, Lobby
  <2> QED
    BY <2>1, <2>2 DEF LobbyOK
<1>5. ASSUME UNCHANGED lobbies
      PROVE  UNCHANGED Matching!vars
  BY <1>1, <1>5 DEF Matching!vars, PlayersOf, Lobbies
<1>6. CASE lobbies' = [lobbies EXCEPT ![l] = counted]
  <2> HIDE DEF counted
  <2>1. /\ UNCHANGED SeatedNow /\ l \in 1 .. MaxLobbies
        /\ PlayingNow' = IF counted.isPlayingGame THEN PlayingNow \cup {l} ELSE PlayingNow \ {l}
        /\ l \in PlayingNow <=> g.isPlayingGame
    BY <1>2, <1>4, <1>6, GameAfter
  <2>2. UNCHANGED PlayingNow
    BY <1>4, <2>1
  <2> QED
    BY <1>1, <2>1, <2>2, AbstractGame
<1>7. ASSUME CanStart(counted), NEW first \in 1 .. MaxPlayers,
             lobbies' = [lobbies EXCEPT ![l] = StartGame(counted, first)]
      PROVE  (\E m \in 1 .. MaxLobbies : Matching!Start(m)) \/ UNCHANGED Matching!vars
  <2> DEFINE h == StartGame(counted, first)
  <2>1. h \in Lobby /\ h.players = g.players /\ h.isPlayingGame
    <3>1. LobbyOK(h) /\ h.players = g.players
      BY <1>2, <1>7, GameStep
    <3>2. h.isPlayingGame
      BY <1>4 DEF StartGame, Lobby
    <3> QED
      BY <3>1, <3>2 DEF LobbyOK
  <2>2. IsFull(g)
    BY <1>4, <1>7 DEF CanStart, IsFull
  <2>3. lobbies' = [lobbies EXCEPT ![l] = h]
    BY <1>7
  <2> HIDE DEF h, counted
  <2>4. /\ UNCHANGED SeatedNow /\ l \in 1 .. MaxLobbies
        /\ PlayingNow' = PlayingNow \cup {l}
    BY <1>2, <2>1, <2>3, GameAfter
  <2>5. ~ Matching!HasRoom(l)
    BY <1>2, <2>2, <2>4, RoomInLobby
  <2>6. l \in PlayingNow => UNCHANGED PlayingNow
    BY <2>4
  <2> QED
    BY <1>1, <2>4, <2>5, <2>6, AbstractGame
<1>8. \/ UNCHANGED lobbies
      \/ lobbies' = [lobbies EXCEPT ![l] = counted]
      \/ /\ CanStart(counted)
         /\ \E first \in 1 .. MaxPlayers : lobbies' = [lobbies EXCEPT ![l] = StartGame(counted, first)]
  BY DEF ReadReady
<1> QED
  BY <1>5, <1>6, <1>7, <1>8

\* A turn may end its lobby's game, and moves nobody.
LEMMA ReadTurnMatches ==
  ASSUME IInv, NEW c \in Connections, ReadTurn(c)
  PROVE  (\E l \in 1 .. MaxLobbies : Matching!End(l)) \/ UNCHANGED Matching!vars
<1> SUFFICES ASSUME NEW l, l = lobby[c]
             PROVE  (\E m \in 1 .. MaxLobbies : Matching!End(m)) \/ UNCHANGED Matching!vars
  OBVIOUS
<1> DEFINE g == lobbies[l]
<1>1. /\ Reads(c, "turn") /\ UNCHANGED <<playerQueue, accepted>>
      /\ TurnRefused(c, l) \/ TurnRejected(c, l) \/ TurnAccepted(c, l) \/ TurnEndsGame(c, l)
  BY DEF ReadTurn
<1>2. l \in DOMAIN lobbies /\ LobbyOK(g) /\ g \in Lobby
  BY <1>1, ReadsFacts DEF LobbyOK
<1>3. CASE TurnRefused(c, l) \/ TurnRejected(c, l)
  <2>1. UNCHANGED lobbies
    BY <1>3 DEF TurnRefused, TurnRejected
  <2> QED
    BY <1>1, <2>1 DEF Matching!vars, PlayersOf, Lobbies
<1>4. CASE TurnAccepted(c, l)
  <2> DEFINE next == NextPlayer(id[c], MaxPlayers)
             h == [g EXCEPT !.currentPlayer = next]
  <2>1. g.isPlayingGame /\ lobbies' = [lobbies EXCEPT ![l] = h]
    BY <1>4 DEF TurnAccepted
  <2>2. next \in 1 .. MaxPlayers
    <3>1. id[c] \in 0 .. MaxPlayers /\ MaxPlayers \in 1 .. 255
      BY ConstantFacts DEF IInv, TypeOK
    <3> QED
      BY <3>1, NextPlayerWraps
  <2> HIDE DEF next
  <2>3. h \in Lobby /\ h.players = g.players /\ h.isPlayingGame
    <3>1. LobbyOK(h) /\ h.players = g.players
      BY <1>2, <2>2, GameStep
    <3>2. h.isPlayingGame
      BY <1>2, <2>1 DEF Lobby
    <3> QED
      BY <3>1, <3>2 DEF LobbyOK
  <2> HIDE DEF h
  <2>4. /\ UNCHANGED SeatedNow /\ l \in 1 .. MaxLobbies
        /\ PlayingNow' = PlayingNow \cup {l} /\ l \in PlayingNow
    BY <1>2, <2>1, <2>3, GameAfter
  <2>5. UNCHANGED PlayingNow
    BY <2>4
  <2> QED
    BY <1>1, <2>4, <2>5, AbstractGame
<1>5. CASE TurnEndsGame(c, l)
  <2> DEFINE h == GameOver(g)
  <2>1. g.isPlayingGame /\ lobbies' = [lobbies EXCEPT ![l] = h]
    BY <1>5 DEF TurnEndsGame
  <2>2. h \in Lobby /\ h.players = g.players /\ ~ h.isPlayingGame
    <3>1. 1 \in 1 .. MaxPlayers
      BY ConstantFacts
    <3>2. LobbyOK(h) /\ h.players = g.players
      BY <1>2, <3>1, GameStep
    <3>3. ~ h.isPlayingGame
      BY <1>2 DEF GameOver, Lobby
    <3> QED
      BY <3>2, <3>3 DEF LobbyOK
  <2> HIDE DEF h
  <2>3. /\ UNCHANGED SeatedNow /\ l \in 1 .. MaxLobbies
        /\ PlayingNow' = PlayingNow \ {l} /\ l \in PlayingNow
    BY <1>2, <2>1, <2>2, GameAfter
  <2> QED
    BY <1>1, <2>3, AbstractGame
<1> QED
  BY <1>1, <1>3, <1>4, <1>5

\* The queue's timer, likewise.
LEMMA AbstractGiveUp ==
  ASSUME UNCHANGED <<accepted, SeatedNow, PlayingNow>>,
         \E n \in 0 .. Len(playerQueue) : \E at \in [1 .. n -> DOMAIN playerQueue] :
           /\ \A i, j \in 1 .. n : i < j => at[i] < at[j]
           /\ playerQueue' = [i \in 1 .. n |-> playerQueue[at[i]]]
  PROVE  Matching!GiveUp
<1>1. UNCHANGED SeatedNow /\ UNCHANGED PlayingNow /\ UNCHANGED accepted
  OBVIOUS
<1>2. UNCHANGED [l \in 1 .. MaxLobbies |-> IF l \in Lobbies THEN PlayersOf(l) ELSE {}]
  BY <1>1 DEF SeatedNow
<1>3. UNCHANGED {l \in Lobbies : lobbies[l].isPlayingGame}
  BY <1>1 DEF PlayingNow
<1> QED
  BY <1>1, <1>2, <1>3 DEF Matching!GiveUp

\* The queue's timer makes some of those who wait give up.
LEMMA TimerMatches ==
  ASSUME IInv, UpdateQueuePositions
  PROVE  Matching!GiveUp
<1> DEFINE alive == {i \in DOMAIN playerQueue : clientIsConnected[playerQueue[i]]}
<1>1. PICK n \in 0 .. Len(playerQueue) : \E at \in [1 .. n -> alive] :
        /\ \A i, j \in 1 .. n : i < j => at[i] < at[j]
        /\ playerQueue' = [i \in 1 .. n |-> playerQueue[at[i]]]
        /\ UNCHANGED <<accepting, lobbies, connVars, clientVars>>
  BY DEF UpdateQueuePositions
<1>2. PICK at \in [1 .. n -> alive] :
        /\ \A i, j \in 1 .. n : i < j => at[i] < at[j]
        /\ playerQueue' = [i \in 1 .. n |-> playerQueue[at[i]]]
        /\ UNCHANGED <<accepting, lobbies, connVars, clientVars>>
  BY <1>1
<1>3. at \in [1 .. n -> DOMAIN playerQueue]
  BY <1>2
<1>4. UNCHANGED accepted /\ UNCHANGED lobbies
  BY <1>2 DEF connVars
<1> HIDE DEF alive
<1>5. \E k \in 0 .. Len(playerQueue) : \E f \in [1 .. k -> DOMAIN playerQueue] :
        /\ \A i, j \in 1 .. k : i < j => f[i] < f[j]
        /\ playerQueue' = [i \in 1 .. k |-> playerQueue[f[i]]]
  BY <1>2, <1>3
<1>6. UNCHANGED <<SeatedNow, PlayingNow>>
  BY <1>4 DEF SeatedNow, PlayingNow, PlayersOf, Lobbies
<1> QED
  BY <1>4, <1>5, <1>6, AbstractGiveUp
-----------------------------------------------------------------------------
\* Nobody has come, nobody waits and nothing is played.
LEMMA InitMatches ==
  ASSUME Init
  PROVE  Matching!Init
BY DEF Init, Matching!Init, Matching!Lobbies, Lobbies

\* Each action is a step of Matchmaking or leaves what it sees alone.
LEMMA NextMatches ==
  ASSUME IInv, [Next]_vars
  PROVE  [Matching!Next]_Matching!vars
<1>1. CASE UpdateQueuePositions
  BY <1>1, TimerMatches DEF Matching!Next
<1>2. CASE \E c \in Connections : Accept(c)
  BY <1>2, AcceptMatches DEF Matching!Next
<1>3. CASE \E c \in Connections : ReadClosed(c) \/ PingTimeout(c)
  <2>1. PICK c \in Connections : HandleDisconnect(c) /\ UNCHANGED accepted
    BY <1>3 DEF ReadClosed, PingTimeout
  <2>2. (\E l \in 1 .. MaxLobbies : Matching!Depart(c, l)) \/ UNCHANGED Matching!vars
    BY <2>1, DisconnectMatches
  <2> QED
    BY <2>2 DEF Matching!Next, Matching!Lobbies
<1>4. CASE \E c \in Connections : ReadReady(c)
  <2>1. (\E l \in 1 .. MaxLobbies : Matching!Start(l)) \/ UNCHANGED Matching!vars
    BY <1>4, ReadReadyMatches
  <2> QED
    BY <2>1 DEF Matching!Next, Matching!Lobbies
<1>5. CASE \E c \in Connections : ReadTurn(c)
  <2>1. (\E l \in 1 .. MaxLobbies : Matching!End(l)) \/ UNCHANGED Matching!vars
    BY <1>5, ReadTurnMatches
  <2> QED
    BY <2>1 DEF Matching!Next, Matching!Lobbies
<1>6. ASSUME UNCHANGED <<lobbies, playerQueue, accepted>>
      PROVE  UNCHANGED Matching!vars
  BY <1>6 DEF Matching!vars, PlayersOf, Lobbies
<1>7. CASE UNCHANGED vars \/ AcceptError \/ \E c \in Connections : ReadError(c) \/ Answer(c) \/ Close(c)
  BY <1>6, <1>7 DEF vars, serverVars, connVars, AcceptError, ReadError, Answer, Close
<1> QED
  BY <1>1, <1>2, <1>3, <1>4, <1>5, <1>7 DEF Next

\* Whatever the clients, the network and the ping timers do, the server is a fair
\* matchmaker: seats in order of arrival, no seat free while anybody waits, no game
\* without all its players.  Each handler is one step of that, or none.
THEOREM ServerMatches == Spec => ImplementsMatchmaking
<1>1. Init => Matching!Init
  BY InitMatches
<1>2. IInv /\ [Next]_vars => [Matching!Next]_Matching!vars
  BY NextMatches
<1> QED
  BY <1>1, <1>2, Inductive, PTL DEF Spec, ImplementsMatchmaking, Matching!Spec
=============================================================================
