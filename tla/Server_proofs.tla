--------------------------- MODULE Server_proofs ----------------------------
(***************************************************************************)
(* Proof that IInv is an invariant of the server for any number of         *)
(* connections, lobbies and seats, and whether or not pings time out       *)
(* falsely; and what follows from it.                                      *)
(***************************************************************************)
EXTENDS Server, GameLobby_proofs

\* Connection c has a seat in one of the lobbies ls.
SeatedIn(ls, c) ==
  \E l \in DOMAIN ls : \E s \in Occupied(ls[l]) : ls[l].players[s] = c

LEMMA ConstantFacts ==
  /\ MaxPlayers \in Nat /\ MaxPlayers >= 2 /\ MaxPlayers <= 254
  /\ MaxLobbies \in Nat /\ MaxLobbies >= 1
  /\ Nobody \notin Connections
BY LobbyAssumption, ServerAssumption DEF MinNumPlayers

\* Join gives the connection a seat of its own and takes nobody's.
LEMMA JoinStep ==
  ASSUME NEW ls \in Seq(Lobby), NEW l \in 1 .. Len(ls) + 1, NEW c \in Connections,
         id \in [Connections -> 0 .. MaxPlayers],
         lobby \in [Connections -> 0 .. Len(ls)],
         accepted' \subseteq Connections, c \in accepted',
         LobbiesOK(ls, accepted', id, lobby), Unplaced(c),
         l \in DOMAIN ls => CanAddPlayers(ls[l]),
         Join(c, l, ls)
  PROVE  /\ lobbies' \in Seq(Lobby)
         /\ Len(lobbies') = IF l \in DOMAIN ls THEN Len(ls) ELSE Len(ls) + 1
         /\ l \in DOMAIN lobbies'
         /\ LobbiesOK(lobbies', accepted', id', lobby')
         /\ id' \in [Connections -> 0 .. MaxPlayers] /\ id'[c] # NoId
         /\ lobby' = [lobby EXCEPT ![c] = l]
         /\ \A d \in Connections \ {c} : id'[d] = id[d]
         /\ \A d : SeatedIn(lobbies', d) <=> d = c \/ SeatedIn(ls, d)
         /\ l \in DOMAIN ls => lobbies'[l].numPlayers = ls[l].numPlayers + 1
         /\ \A m \in DOMAIN ls \ {l} : lobbies'[m] = ls[m]
<1> DEFINE g == IF l \in DOMAIN ls THEN ls[l] ELSE NewLobby
           h == AddPlayer(g, c)
           k == FirstAvailableId(g)
<1>1. LobbyOK(g) /\ CanAddPlayers(g)
  BY NewLobbyOK DEF LobbiesOK
<1>2. /\ LobbyOK(h) /\ h \in Lobby
      /\ h.numPlayers = g.numPlayers + 1
      /\ h.players = [g.players EXCEPT ![k] = c]
      /\ Occupied(h) = Occupied(g) \cup {k}
      /\ k \in Seats \ Occupied(g)
      /\ NewId(g) \in 1 .. MaxPlayers /\ NewId(g) = k + 1
  BY <1>1, AddPlayerStep DEF LobbyOK, NewId
<1>3. g.players \in [Seats -> Connections \cup {Nobody}] /\ Occupied(g) \subseteq Seats
  BY <1>1 DEF LobbyOK, Lobby, Occupied
<1>4. /\ h.players[k] = c
      /\ \A s \in Occupied(g) : h.players[s] = g.players[s] /\ s # k
  BY <1>2, <1>3
<1>5. /\ lobbies' = IF l \in DOMAIN ls THEN [ls EXCEPT ![l] = h] ELSE Append(ls, h)
      /\ id' = [id EXCEPT ![c] = NewId(g)]
      /\ lobby' = [lobby EXCEPT ![c] = l]
  BY <1>1 DEF Join, Unplaced
<1> HIDE DEF g, h, k
<1>6. /\ lobbies' \in Seq(Lobby)
      /\ Len(lobbies') = IF l \in DOMAIN ls THEN Len(ls) ELSE Len(ls) + 1
      /\ l \in DOMAIN lobbies' /\ lobbies'[l] = h
      /\ DOMAIN ls \subseteq DOMAIN lobbies'
      /\ DOMAIN lobbies' = DOMAIN ls \cup {l}
      /\ \A m \in DOMAIN ls \ {l} : lobbies'[m] = ls[m]
  BY <1>2, <1>5
<1>7. /\ id' \in [Connections -> 0 .. MaxPlayers] /\ id'[c] = k + 1 /\ id'[c] # NoId
      /\ \A d \in Connections \ {c} : id'[d] = id[d] /\ lobby'[d] = lobby[d]
      /\ lobby'[c] = l
  BY <1>2, <1>5, ConstantFacts DEF NoId
<1>8. l \in DOMAIN ls => g = ls[l]
  BY DEF g
<1>9. l \notin DOMAIN ls => Occupied(g) = {}
  BY NewLobbyOK DEF g
<1>10. \A m \in DOMAIN ls : \A s \in Occupied(ls[m]) : ls[m].players[s] \in accepted' \ {c}
  <2>1. c \in Connections /\ lobby[c] = 0
    BY DEF Unplaced, NoLobby
  <2>2. 0 \notin DOMAIN ls
    OBVIOUS
  <2> QED
    BY <2>1, <2>2 DEF LobbiesOK
<1>11. LobbiesOK(lobbies', accepted', id', lobby')
  <2>1. SUFFICES ASSUME NEW m \in DOMAIN lobbies'
                 PROVE  /\ LobbyOK(lobbies'[m])
                        /\ \A s \in Occupied(lobbies'[m]) :
                             LET d == lobbies'[m].players[s]
                             IN  d \in accepted' /\ lobby'[d] = m /\ id'[d] = s + 1
    BY DEF LobbiesOK
  <2>2. CASE m # l
    <3>1. m \in DOMAIN ls /\ lobbies'[m] = ls[m]
      BY <1>6, <2>2
    <3> QED
      BY <3>1, <1>7, <1>10 DEF LobbiesOK
  <2>3. CASE m = l
    <3>1. lobbies'[m] = h
      BY <1>6, <2>3
    <3>2. \A s \in Occupied(g) :
            LET d == g.players[s] IN d \in accepted' \ {c} /\ lobby[d] = l /\ id[d] = s + 1
      BY <1>8, <1>9, <1>10 DEF LobbiesOK
    <3>3. ASSUME NEW s \in Occupied(h)
          PROVE  h.players[s] \in accepted' /\ lobby'[h.players[s]] = l /\ id'[h.players[s]] = s + 1
      <4>1. CASE s \in Occupied(g)
        <5>1. h.players[s] = g.players[s] /\ g.players[s] \in Connections \ {c}
          BY <1>4, <3>2, <4>1
        <5> QED
          BY <1>7, <3>2, <4>1, <5>1
      <4>2. CASE s = k
        BY <1>4, <1>7, <4>2
      <4> QED
        BY <1>2, <4>1, <4>2
    <3> QED
      BY <1>2, <2>3, <3>1, <3>3
  <2> QED
    BY <2>2, <2>3
<1>12. \A d : SeatedIn(lobbies', d) <=> d = c \/ SeatedIn(ls, d)
  <2>1. ASSUME NEW d, SeatedIn(ls, d)
        PROVE  SeatedIn(lobbies', d)
    <3>1. PICK m \in DOMAIN ls : \E s \in Occupied(ls[m]) : ls[m].players[s] = d
      BY <2>1 DEF SeatedIn
    <3>2. CASE m = l
      <4>1. PICK s \in Occupied(g) : g.players[s] = d
        BY <1>8, <3>1, <3>2
      <4>2. s \in Occupied(lobbies'[l]) /\ lobbies'[l].players[s] = d
        BY <1>2, <1>4, <1>6, <4>1
      <4> QED
        BY <1>6, <4>2 DEF SeatedIn
    <3>3. CASE m # l
      BY <1>6, <3>1, <3>3 DEF SeatedIn
    <3> QED
      BY <3>2, <3>3
  <2>2. SeatedIn(lobbies', c)
    BY <1>2, <1>4, <1>6 DEF SeatedIn
  <2>3. ASSUME NEW d, d # c, SeatedIn(lobbies', d)
        PROVE  SeatedIn(ls, d)
    <3>1. PICK m \in DOMAIN lobbies' :
            \E s \in Occupied(lobbies'[m]) : lobbies'[m].players[s] = d
      BY <2>3 DEF SeatedIn
    <3>2. CASE m = l
      <4>1. PICK s \in Occupied(g) : g.players[s] = d
        BY <1>2, <1>4, <1>6, <2>3, <3>1, <3>2
      <4> QED
        BY <4>1, <1>8, <1>9 DEF SeatedIn
    <3>3. CASE m # l
      BY <1>6, <3>1, <3>3 DEF SeatedIn
    <3> QED
      BY <3>2, <3>3
  <2> QED
    BY <2>1, <2>2, <2>3
<1> QED
  BY <1>2, <1>5, <1>6, <1>7, <1>8, <1>11, <1>12

\* onDisconnect's first half takes the seat from its player and from nobody else,
\* and leaves the lobby with room for one.
LEMMA LeaveStep ==
  ASSUME NEW ls \in Seq(Lobby), NEW l \in DOMAIN ls,
         NEW acc, NEW i, NEW lo, LobbiesOK(ls, acc, i, lo),
         NEW s \in Occupied(ls[l]),
         NEW new \in Seq(Lobby), DOMAIN new = DOMAIN ls,
         LobbyOK(new[l]),
         Occupied(new[l]) = Occupied(ls[l]) \ {s},
         \A t \in Occupied(new[l]) : new[l].players[t] = ls[l].players[t],
         \A m \in DOMAIN ls \ {l} : new[m] = ls[m]
  PROVE  /\ LobbiesOK(new, acc, i, lo)
         /\ \A d : SeatedIn(new, d) <=> d # ls[l].players[s] /\ SeatedIn(ls, d)
<1> DEFINE c == ls[l].players[s]
           h == new[l]
<1>2. /\ LobbyOK(h)
      /\ Occupied(h) = Occupied(ls[l]) \ {s}
  OBVIOUS
<1>4. \A t \in Occupied(h) : h.players[t] = ls[l].players[t] /\ t \in Occupied(ls[l])
  OBVIOUS
<1>5. /\ DOMAIN new = DOMAIN ls
      /\ new[l] = h
      /\ \A m \in DOMAIN ls \ {l} : new[m] = ls[m]
  OBVIOUS
<1>6. LobbiesOK(new, acc, i, lo)
  <2>1. SUFFICES ASSUME NEW m \in DOMAIN ls
                 PROVE  /\ LobbyOK(new[m])
                        /\ \A t \in Occupied(new[m]) :
                             LET d == new[m].players[t]
                             IN  d \in acc /\ lo[d] = m /\ i[d] = t + 1
    BY <1>5 DEF LobbiesOK
  <2>2. CASE m = l
    BY <1>2, <1>4, <1>5, <2>2 DEF LobbiesOK
  <2>3. CASE m # l
    BY <1>5, <2>3 DEF LobbiesOK
  <2> QED
    BY <2>2, <2>3
<1>7. ASSUME NEW d, d # c, SeatedIn(ls, d)
      PROVE  SeatedIn(new, d)
  <2>1. PICK m \in DOMAIN ls : \E t \in Occupied(ls[m]) : ls[m].players[t] = d
    BY <1>7 DEF SeatedIn
  <2>2. PICK t \in Occupied(ls[m]) : ls[m].players[t] = d
    BY <2>1
  <2>3. t \in Occupied(new[m]) /\ new[m].players[t] = d
    <3>1. CASE m = l
      <4>1. t # s
        BY <1>7, <2>2, <3>1
      <4>2. t \in Occupied(h)
        BY <1>2, <2>2, <3>1, <4>1
      <4> QED
        BY <1>4, <1>5, <2>2, <3>1, <4>2
    <3>2. CASE m # l
      BY <1>5, <2>2, <3>2
    <3> QED
      BY <3>1, <3>2
  <2> QED
    BY <1>5, <2>3 DEF SeatedIn
<1>8. ASSUME NEW d, SeatedIn(new, d)
      PROVE  d # c /\ SeatedIn(ls, d)
  <2>1. PICK m \in DOMAIN ls : \E t \in Occupied(new[m]) : new[m].players[t] = d
    BY <1>5, <1>8 DEF SeatedIn
  <2>2. PICK t \in Occupied(new[m]) : new[m].players[t] = d
    BY <2>1
  <2>3. t \in Occupied(ls[m]) /\ ls[m].players[t] = d /\ (m = l => t # s)
    <3>1. CASE m = l
      BY <1>2, <1>4, <1>5, <2>2, <3>1
    <3>2. CASE m # l
      BY <1>5, <2>2, <3>2
    <3> QED
      BY <3>1, <3>2
  <2>4. lo[d] = m /\ i[d] = t + 1
    BY <2>3 DEF LobbiesOK
  <2>5. lo[c] = l /\ i[c] = s + 1
    BY DEF LobbiesOK
  <2>6. t \in Int /\ s \in Int
    BY <2>3, ConstantFacts DEF Occupied, Seats
  <2>7. d # c
    BY <2>3, <2>4, <2>5, <2>6
  <2> QED
    BY <2>3, <2>7 DEF SeatedIn
<1> QED
  BY <1>2, <1>5, <1>6, <1>7, <1>8
\* The turn passes to the next id and from the last back to 1, at every number of
\* players: eight bits are enough for it.
LEMMA NextPlayerWraps ==
  ASSUME NEW n \in 1 .. 255, NEW i \in 0 .. n
  PROVE  /\ NextPlayer(i, n) = IF i = n THEN 1 ELSE i + 1
         /\ NextPlayer(i, n) \in 1 .. n
BY DEF NextPlayer, DefaultFirstPlayer

-----------------------------------------------------------------------------
(***************************************************************************)
(* The steps, conjunct by conjunct where a step disturbs one.              *)
(***************************************************************************)

\* NobodyIsLost in terms of SeatedIn.
LEMMA LostDef ==
  ASSUME IInv, NEW c \in accepted, clientIsConnected[c]
  PROVE  Queued(c) <=> ~ SeatedIn(lobbies, c)
BY DEF IInv, NobodyIsLost, PlayersOf, SeatedIn, Lobbies

\* A prompt only reaches connections it is meant for.
LEMMA ToldType ==
  ASSUME TypeOK, NEW C, NEW what \in {"ready", "turn"}, NEW conn
  PROVE  /\ Told(C, what, conn) \in [Connections -> {"none", "ready", "turn"}]
         /\ \A c \in Connections : Told(C, what, conn)[c] # "none" => c \in C \/ prompt[c] # "none"
BY DEF TypeOK, Told

\* Sequences of connections: joining at the end, leaving at the front.
LEMMA QueueFacts ==
  ASSUME NEW q \in Seq(Connections)
  PROVE  /\ \A c \in Connections : /\ Append(q, c) \in Seq(Connections)
                                  /\ DOMAIN Append(q, c) = 1 .. Len(q) + 1
                                  /\ \A k \in 1 .. Len(q) : Append(q, c)[k] = q[k]
                                  /\ Append(q, c)[Len(q) + 1] = c
         /\ q # <<>> => /\ Head(q) = q[1] /\ 1 \in DOMAIN q
                        /\ Tail(q) \in Seq(Connections)
                        /\ DOMAIN Tail(q) = 1 .. Len(q) - 1
                        /\ \A k \in 1 .. Len(q) - 1 : Tail(q)[k] = q[k + 1]
         /\ DOMAIN q = 1 .. Len(q) /\ Len(q) \in Nat
OBVIOUS

\* The seat onDisconnect finds by id is that of the connection that ended.
LEMMA SeatFound ==
  ASSUME IInv, NEW c \in Connections, clientIsConnected[c], lobby[c] # NoLobby
  PROVE  /\ lobby[c] \in DOMAIN lobbies
         /\ c \in accepted
         /\ \E s \in Occupied(lobbies[lobby[c]]) :
              /\ lobbies[lobby[c]].players[s] = c
              /\ SeatsWithId(lobbies[lobby[c]], id, id[c]) = {s}
              /\ FirstOf(SeatsWithId(lobbies[lobby[c]], id, id[c])) = s
<1>1. c \in accepted /\ ~ Queued(c)
  <2>1. c \in accepted
    BY DEF IInv, QueueOK, Unplaced
  <2>2. ~ Queued(c)
    BY DEF IInv, QueueOK, Unplaced, Queued
  <2> QED
    BY <2>1, <2>2
<1>2. PICK l \in DOMAIN lobbies : \E s \in Occupied(lobbies[l]) : lobbies[l].players[s] = c
  BY <1>1, LostDef DEF SeatedIn
<1>3. PICK s \in Occupied(lobbies[l]) : lobbies[l].players[s] = c
  BY <1>2
<1>4. \A t \in Occupied(lobbies[l]) :
        /\ id[lobbies[l].players[t]] = t + 1
        /\ lobby[lobbies[l].players[t]] = l
  BY DEF IInv, LobbiesOK
<1>5. \A t \in Occupied(lobbies[l]) : t \in Nat
  BY ConstantFacts DEF Occupied, Seats
<1>6. SeatsWithId(lobbies[l], id, id[c]) = {s}
  BY <1>3, <1>4, <1>5 DEF SeatsWithId
<1>7. FirstOf({s}) = s
  BY <1>3, <1>5, FirstOfMember
<1> QED
  BY <1>1, <1>3, <1>4, <1>6, <1>7

\* What the handlers that notice the end of a connection do besides.
DisconnectFrame ==
  /\ UNCHANGED <<accepting, accepted, closed>>
  /\ reading' \in [Connections -> BOOLEAN]
  /\ toServer' \in [Connections -> Seq({"ready", "turn"})]
  /\ \A d \in Connections : toServer'[d] # <<>> => toServer[d] # <<>>

\* The end of a connection, by whichever handler it is noticed.
LEMMA DisconnectStep ==
  ASSUME IInv, NEW c \in Connections, HandleDisconnect(c), DisconnectFrame
  PROVE  IInv'
<1>0. /\ TypeOK /\ LobbiesOK(lobbies, accepted, id, lobby) /\ QueueOK
      /\ OnlyPlayersAreAsked /\ NobodyIsLost /\ QueueOnlyWhenFull
  BY DEF IInv
<1>1. CASE ~ clientIsConnected[c] \/ lobby[c] = NoLobby
  <2>1. /\ UNCHANGED <<lobbies, playerQueue, id, lobby, clientIsReady, prompt>>
        /\ clientIsConnected' \in [Connections -> BOOLEAN]
        /\ \A d \in Connections : clientIsConnected'[d] => clientIsConnected[d]
    BY <1>0, <1>1 DEF HandleDisconnect, TypeOK
  <2>2. TypeOK' /\ LobbiesOK(lobbies, accepted, id, lobby)' /\ QueueOK' /\ OnlyPlayersAreAsked'
    BY <1>0, <2>1 DEF TypeOK, QueueOK, Unplaced, OnlyPlayersAreAsked, DisconnectFrame
  <2>3. NobodyIsLost'
    <3>1. \A d : Queued(d)' <=> Queued(d)
      BY <2>1 DEF Queued
    <3>2. Lobbies' = Lobbies /\ \A m : PlayersOf(m)' = PlayersOf(m)
      BY <2>1 DEF Lobbies, PlayersOf
    <3>3. \A d \in accepted : clientIsConnected'[d] => clientIsConnected[d]
      BY <1>0, <2>1 DEF TypeOK
    <3> QED
      BY <1>0, <2>1, <3>1, <3>2, <3>3 DEF NobodyIsLost, DisconnectFrame
  <2>4. QueueOnlyWhenFull'
    BY <1>0, <2>1 DEF QueueOnlyWhenFull, Lobbies
  <2> QED
    BY <2>2, <2>3, <2>4 DEF IInv
<1>2. CASE clientIsConnected[c] /\ lobby[c] # NoLobby
  <2> DEFINE l == lobby[c]
             g == lobbies[l]
  <2>1. /\ l \in DOMAIN lobbies /\ c \in accepted
        /\ \E s \in Occupied(g) : /\ g.players[s] = c
                                 /\ SeatsWithId(g, id, id[c]) = {s}
                                 /\ FirstOf(SeatsWithId(g, id, id[c])) = s
    BY <1>2, SeatFound
  <2>2. PICK s \in Occupied(g) : /\ g.players[s] = c
                                /\ SeatsWithId(g, id, id[c]) = {s}
                                /\ FirstOf(SeatsWithId(g, id, id[c])) = s
    BY <2>1
  <2> DEFINE left == Release(g, s, clientIsReady[c])
             open == IF g.isPlayingGame THEN GameOver(left) ELSE left
             rest == [lobbies EXCEPT ![l] = open]
             ended == IF g.isPlayingGame THEN Attached(l) ELSE {}
             q == Head(playerQueue)
             joins == CanAddPlayers(open) /\ playerQueue # <<>>
  <2>3. /\ clientIsConnected' = [clientIsConnected EXCEPT ![c] = FALSE]
        /\ clientIsReady' = [d \in Connections |-> d \notin ended /\ clientIsReady[d]]
        /\ IF joins
           THEN /\ Join(q, l, rest)
                /\ playerQueue' = Tail(playerQueue)
                /\ prompt' = Told(ended \cup {q}, "ready", clientIsConnected')
           ELSE /\ lobbies' = rest
                /\ prompt' = Told(ended, "ready", clientIsConnected')
                /\ UNCHANGED <<playerQueue, id, lobby>>
    BY <1>2, <2>2 DEF HandleDisconnect, OnDisconnect
  <2>4. /\ rest \in Seq(Lobby) /\ Len(rest) = Len(lobbies) /\ DOMAIN rest = DOMAIN lobbies
        /\ LobbiesOK(rest, accepted, id, lobby)
        /\ CanAddPlayers(rest[l])
        /\ rest[l].numPlayers = g.numPlayers - 1
        /\ \A m \in DOMAIN lobbies \ {l} : rest[m] = lobbies[m]
        /\ \A d : SeatedIn(rest, d) <=> d # c /\ SeatedIn(lobbies, d)
        /\ CanAddPlayers(open)
    <3>1. clientIsReady[c] \in BOOLEAN /\ lobbies \in Seq(Lobby)
      BY <1>0 DEF TypeOK
    <3>2. /\ open = IF lobbies[l].isPlayingGame
                    THEN GameOver(Release(lobbies[l], s, clientIsReady[c]))
                    ELSE Release(lobbies[l], s, clientIsReady[c])
          /\ rest = [lobbies EXCEPT ![l] = open]
          /\ s \in Occupied(lobbies[l]) /\ l \in DOMAIN lobbies
          /\ lobbies[l].players[s] = c
          /\ g = lobbies[l]
      BY <2>1, <2>2
    <3>3. LobbyOK(lobbies[l]) /\ LobbiesOK(lobbies, accepted, id, lobby)
      BY <1>0, <2>1 DEF LobbiesOK
    <3> HIDE DEF rest, open, g, l
    <3>4. /\ LobbyOK(open) /\ CanAddPlayers(open)
          /\ open.numPlayers = lobbies[l].numPlayers - 1
          /\ open.players = [lobbies[l].players EXCEPT ![s] = Nobody]
          /\ Occupied(open) = Occupied(lobbies[l]) \ {s}
      <4>1. LobbyOK(open) /\ lobbies[l].numPlayers \in Int /\ open.numPlayers \in Int
        <5>1. LobbyOK(open)
          BY <3>2, <3>3, ReleaseStep
        <5> QED
          BY <3>3, <5>1 DEF LobbyOK, Lobby
      <4> QED
        BY <3>2, <3>3, <4>1, ReleaseStep
    <3>5. /\ rest \in Seq(Lobby) /\ Len(rest) = Len(lobbies) /\ DOMAIN rest = DOMAIN lobbies
          /\ rest[l] = open
          /\ \A m \in DOMAIN lobbies \ {l} : rest[m] = lobbies[m]
      BY <3>1, <3>2, <3>4 DEF LobbyOK
    <3>6. \A t \in Occupied(open) : open.players[t] = lobbies[l].players[t]
      BY <3>3, <3>4 DEF LobbyOK, Lobby, Occupied
    <3>7. /\ LobbiesOK(rest, accepted, id, lobby)
          /\ \A d : SeatedIn(rest, d) <=> d # lobbies[l].players[s] /\ SeatedIn(lobbies, d)
      <4>1. /\ lobbies \in Seq(Lobby) /\ LobbiesOK(lobbies, accepted, id, lobby)
            /\ l \in DOMAIN lobbies /\ s \in Occupied(lobbies[l])
        BY <3>1, <3>2, <3>3
      <4>2. /\ rest \in Seq(Lobby) /\ DOMAIN rest = DOMAIN lobbies
            /\ LobbyOK(rest[l])
            /\ Occupied(rest[l]) = Occupied(lobbies[l]) \ {s}
            /\ \A t \in Occupied(rest[l]) : rest[l].players[t] = lobbies[l].players[t]
            /\ \A m \in DOMAIN lobbies \ {l} : rest[m] = lobbies[m]
        BY <3>4, <3>5, <3>6
      <4> QED
        BY <4>1, <4>2, LeaveStep
    <3> QED
      BY <3>2, <3>4, <3>5, <3>7
  <2>5. /\ clientIsConnected' \in [Connections -> BOOLEAN]
        /\ ~ clientIsConnected'[c]
        /\ \A d \in Connections \ {c} : clientIsConnected'[d] = clientIsConnected[d]
        /\ clientIsReady' \in [Connections -> BOOLEAN]
    BY <1>0, <2>3 DEF TypeOK
  <2> HIDE DEF l, g, rest, open, ended, joins
  <2>6. ended \subseteq Connections /\ \A d \in ended : lobby[d] = l /\ l # NoLobby
    BY <1>0, <1>2 DEF ended, l, Attached, TypeOK
  <2>7. CASE joins
    <3>1. /\ q \in Connections /\ q \in accepted /\ Unplaced(q)
          /\ playerQueue \in Seq(Connections) /\ playerQueue # <<>>
      BY <1>0, <2>7, QueueFacts DEF joins, TypeOK, QueueOK
    <3>2. q # c
      BY <1>2, <3>1 DEF Unplaced
    <3>3. /\ lobbies' \in Seq(Lobby) /\ Len(lobbies') = Len(lobbies)
          /\ DOMAIN lobbies' = DOMAIN lobbies
          /\ LobbiesOK(lobbies', accepted, id', lobby')
          /\ id' \in [Connections -> 0 .. MaxPlayers]
          /\ lobby' = [lobby EXCEPT ![q] = l]
          /\ \A d \in Connections \ {q} : id'[d] = id[d]
          /\ \A d : SeatedIn(lobbies', d) <=> d = q \/ SeatedIn(rest, d)
          /\ lobbies'[l].numPlayers = rest[l].numPlayers + 1
          /\ \A m \in DOMAIN rest \ {l} : lobbies'[m] = rest[m]
      <4>1. Join(q, l, rest) /\ l \in 1 .. Len(rest) + 1
        BY <1>0, <2>1, <2>3, <2>4, <2>7 DEF TypeOK
      <4>2. /\ id \in [Connections -> 0 .. MaxPlayers]
            /\ lobby \in [Connections -> 0 .. Len(rest)]
            /\ accepted' = accepted /\ accepted' \subseteq Connections
        BY <1>0, <2>4 DEF TypeOK, DisconnectFrame
      <4> HIDE DEF q
      <4>3. /\ lobbies' \in Seq(Lobby)
            /\ Len(lobbies') = IF l \in DOMAIN rest THEN Len(rest) ELSE Len(rest) + 1
            /\ l \in DOMAIN lobbies'
            /\ LobbiesOK(lobbies', accepted', id', lobby')
            /\ id' \in [Connections -> 0 .. MaxPlayers]
            /\ lobby' = [lobby EXCEPT ![q] = l]
            /\ \A d \in Connections \ {q} : id'[d] = id[d]
            /\ \A d : SeatedIn(lobbies', d) <=> d = q \/ SeatedIn(rest, d)
            /\ l \in DOMAIN rest => lobbies'[l].numPlayers = rest[l].numPlayers + 1
            /\ \A m \in DOMAIN rest \ {l} : lobbies'[m] = rest[m]
        <5>1. l \in DOMAIN rest => CanAddPlayers(rest[l])
          BY <2>4
        <5>2. LobbiesOK(rest, accepted', id, lobby) /\ rest \in Seq(Lobby) /\ q \in accepted'
          BY <2>4, <3>1, <4>2
        <5>3. q \in Connections /\ Unplaced(q)
          BY <3>1
        <5>4. l \in DOMAIN rest
          BY <2>1, <2>4
        <5>5. /\ lobbies' \in Seq(Lobby) /\ l \in DOMAIN lobbies'
              /\ LobbiesOK(lobbies', accepted', id', lobby')
              /\ id' \in [Connections -> 0 .. MaxPlayers]
              /\ lobby' = [lobby EXCEPT ![q] = l]
          BY <4>1, <4>2, <5>1, <5>2, <5>3, JoinStep
        <5>6. /\ \A d \in Connections \ {q} : id'[d] = id[d]
              /\ \A d : SeatedIn(lobbies', d) <=> d = q \/ SeatedIn(rest, d)
              /\ \A m \in DOMAIN rest \ {l} : lobbies'[m] = rest[m]
          BY <4>1, <4>2, <5>1, <5>2, <5>3, JoinStep
        <5>7. lobbies'[l].numPlayers \in Int /\ rest[l].numPlayers \in Int
          BY <5>2, <5>4, <5>5 DEF LobbiesOK, LobbyOK, Lobby
        <5>8. /\ Len(lobbies') = Len(rest)
              /\ lobbies'[l].numPlayers = rest[l].numPlayers + 1
          BY <4>1, <4>2, <5>1, <5>2, <5>3, <5>4, <5>7, JoinStep
        <5> QED
          BY <5>4, <5>5, <5>6, <5>8
      <4> QED
        BY <2>1, <2>4, <4>2, <4>3
    <3>a. playerQueue' = Tail(playerQueue) /\ q = Head(playerQueue)
      BY <2>3, <2>7
    <3> HIDE DEF q
    <3>4. /\ playerQueue' \in Seq(Connections)
          /\ DOMAIN playerQueue' = 1 .. Len(playerQueue) - 1
          /\ \A k \in DOMAIN playerQueue' : /\ playerQueue'[k] = playerQueue[k + 1]
                                           /\ k + 1 \in DOMAIN playerQueue
          /\ q = playerQueue[1] /\ 1 \in DOMAIN playerQueue
          /\ DOMAIN playerQueue = 1 .. Len(playerQueue) /\ Len(playerQueue) \in Nat
      <4>1. DOMAIN playerQueue = 1 .. Len(playerQueue) /\ Len(playerQueue) \in Nat
        BY <3>1, QueueFacts
      <4>2. /\ Head(playerQueue) = playerQueue[1] /\ 1 \in DOMAIN playerQueue
            /\ Tail(playerQueue) \in Seq(Connections)
            /\ DOMAIN Tail(playerQueue) = 1 .. Len(playerQueue) - 1
            /\ \A k \in 1 .. Len(playerQueue) - 1 : Tail(playerQueue)[k] = playerQueue[k + 1]
        BY <3>1, QueueFacts
      <4> QED
        BY <3>a, <4>1, <4>2
    <3>5. \A k \in DOMAIN playerQueue' : playerQueue'[k] # q
      <4>1. \A j, k \in DOMAIN playerQueue : playerQueue[j] = playerQueue[k] => j = k
        BY <1>0 DEF NobodyIsLost
      <4>2. SUFFICES ASSUME NEW k \in DOMAIN playerQueue', playerQueue'[k] = q
                     PROVE  FALSE
        OBVIOUS
      <4>3. k + 1 = 1 /\ k \in 1 .. Len(playerQueue) - 1 /\ Len(playerQueue) \in Nat
        BY <3>4, <4>1, <4>2
      <4> QED
        BY <4>3
    <3>6. /\ prompt' \in [Connections -> {"none", "ready", "turn"}]
          /\ \A d \in Connections : prompt'[d] # "none" => d = q \/ d \in ended \/ prompt[d] # "none"
      <4>1. prompt' = Told(ended \cup {q}, "ready", clientIsConnected') /\ TypeOK
        BY <1>0, <2>3, <2>7, <3>a
      <4>2. \A C, conn : /\ Told(C, "ready", conn) \in [Connections -> {"none", "ready", "turn"}]
                        /\ \A d \in Connections : Told(C, "ready", conn)[d] # "none"
                                                    => d \in C \/ prompt[d] # "none"
        BY <4>1, ToldType
      <4> QED
        BY <4>1, <4>2
    <3>7. lobby' \in [Connections -> 0 .. Len(lobbies')] /\ lobby'[q] = l
          /\ \A d \in Connections \ {q} : lobby'[d] = lobby[d]
      <4>1. lobby \in [Connections -> 0 .. Len(lobbies)] /\ l \in 0 .. Len(lobbies)
        BY <1>0, <2>1 DEF TypeOK
      <4> QED
        BY <3>1, <3>3, <4>1
    <3>8. TypeOK'
      BY <1>0, <2>5, <3>3, <3>4, <3>6, <3>7 DEF TypeOK, DisconnectFrame
    <3>9. LobbiesOK(lobbies, accepted, id, lobby)'
      BY <3>3 DEF DisconnectFrame
    <3>10. QueueOK'
      <4>1. \A d \in Connections \ {q} : Unplaced(d)' <=> Unplaced(d)
        BY <3>3, <3>7 DEF Unplaced
      <4>2. \A k \in DOMAIN playerQueue' :
              LET e == playerQueue'[k]
              IN  e \in accepted' /\ lobby'[e] = NoLobby /\ id'[e] = NoId
        <5>1. SUFFICES ASSUME NEW k \in DOMAIN playerQueue'
                       PROVE  LET e == playerQueue'[k]
                              IN  e \in accepted' /\ lobby'[e] = NoLobby /\ id'[e] = NoId
          OBVIOUS
        <5>2. playerQueue'[k] \in accepted /\ Unplaced(playerQueue'[k])
          BY <1>0, <3>4 DEF QueueOK, Unplaced
        <5>3. playerQueue'[k] \in Connections \ {q}
          BY <1>0, <3>5, <5>2 DEF TypeOK
        <5> DEFINE e == playerQueue'[k]
        <5>4. lobby'[e] = lobby[e] /\ id'[e] = id[e]
          BY <3>3, <3>7, <5>3
        <5> QED
          BY <5>2, <5>4 DEF Unplaced, DisconnectFrame
      <4>3. \A d \in Connections \ accepted' : Unplaced(d)'
        BY <1>0, <3>1, <4>1 DEF QueueOK, DisconnectFrame
      <4> QED
        BY <4>2, <4>3 DEF QueueOK, Unplaced
    <3>11. OnlyPlayersAreAsked'
      BY <1>0, <1>2, <2>6, <3>6, <3>7 DEF OnlyPlayersAreAsked, DisconnectFrame, l
    <3>12. NobodyIsLost'
      <4>1. ASSUME NEW d \in accepted, clientIsConnected'[d]
            PROVE  Queued(d)' <=> ~ SeatedIn(lobbies', d)
        <5>1. d # c /\ d \in Connections /\ clientIsConnected[d]
          BY <1>0, <2>5, <4>1 DEF TypeOK
        <5>2. Queued(d) <=> ~ SeatedIn(lobbies, d)
          BY <5>1, LostDef
        <5>3. Queued(d)' <=> Queued(d) /\ d # q
          <6>1. \A k \in DOMAIN playerQueue : k # 1 => k - 1 \in DOMAIN playerQueue'
            BY <3>4
          <6>2. \A k \in DOMAIN playerQueue : k # 1 => playerQueue'[k - 1] = playerQueue[k]
            BY <3>4, <6>1
          <6> QED
            BY <3>4, <3>5, <6>1, <6>2 DEF Queued
        <5> QED
          BY <2>4, <3>3, <5>1, <5>2, <5>3
      <4>2. \A j, k \in DOMAIN playerQueue' : playerQueue'[j] = playerQueue'[k] => j = k
        BY <1>0, <3>4 DEF NobodyIsLost
      <4>3. \A d : SeatedIn(lobbies', d) <=> ~ \A m \in DOMAIN lobbies' : d \notin PlayersOf(m)'
        BY DEF SeatedIn, PlayersOf
      <4> QED
        BY <4>1, <4>2, <4>3 DEF NobodyIsLost, Lobbies, DisconnectFrame
    <3>13. QueueOnlyWhenFull'
      <4>1. /\ Len(lobbies) = MaxLobbies
            /\ \A m \in DOMAIN lobbies : lobbies[m].numPlayers = MaxPlayers
        BY <1>0, <3>1 DEF QueueOnlyWhenFull, Lobbies, IsFull
      <4>2. \A m \in DOMAIN lobbies : lobbies'[m].numPlayers = MaxPlayers
        <5>1. lobbies'[l].numPlayers = MaxPlayers
          BY <2>1, <2>4, <3>3, <4>1, ConstantFacts DEF g
        <5> QED
          BY <2>4, <3>3, <4>1, <5>1
      <4> QED
        BY <3>3, <4>1, <4>2 DEF QueueOnlyWhenFull, Lobbies, IsFull
    <3> QED
      BY <3>8, <3>9, <3>10, <3>11, <3>12, <3>13 DEF IInv
  <2>8. CASE ~ joins
    <3>1. /\ lobbies' = rest /\ playerQueue = <<>>
          /\ prompt' = Told(ended, "ready", clientIsConnected')
          /\ UNCHANGED <<playerQueue, id, lobby>>
      BY <2>3, <2>4, <2>8 DEF joins
    <3>2. /\ prompt' \in [Connections -> {"none", "ready", "turn"}]
          /\ \A d \in Connections : prompt'[d] # "none" => d \in ended \/ prompt[d] # "none"
      BY <1>0, <3>1, ToldType
    <3>3. TypeOK'
      BY <1>0, <2>4, <2>5, <3>1, <3>2 DEF TypeOK, DisconnectFrame
    <3>4. LobbiesOK(lobbies, accepted, id, lobby)'
      BY <2>4, <3>1 DEF DisconnectFrame
    <3>5. QueueOK' /\ QueueOnlyWhenFull'
      BY <1>0, <3>1 DEF QueueOK, QueueOnlyWhenFull, Unplaced, DisconnectFrame
    <3>6. OnlyPlayersAreAsked'
      BY <1>0, <1>2, <2>6, <3>1, <3>2 DEF OnlyPlayersAreAsked, DisconnectFrame, l
    <3>7. NobodyIsLost'
      <4>1. ASSUME NEW d \in accepted, clientIsConnected'[d]
            PROVE  Queued(d)' <=> ~ SeatedIn(lobbies', d)
        <5>1. d # c /\ clientIsConnected[d]
          BY <1>0, <2>5, <4>1 DEF TypeOK
        <5>2. Queued(d) <=> ~ SeatedIn(lobbies, d)
          BY <5>1, LostDef
        <5> QED
          BY <2>4, <3>1, <5>1, <5>2 DEF Queued
      <4>2. \A d : SeatedIn(lobbies', d) <=> ~ \A m \in DOMAIN lobbies' : d \notin PlayersOf(m)'
        BY DEF SeatedIn, PlayersOf
      <4>3. \A j, k \in DOMAIN playerQueue' : playerQueue'[j] = playerQueue'[k] => j = k
        BY <1>0, <3>1 DEF NobodyIsLost
      <4> QED
        BY <4>1, <4>2, <4>3 DEF NobodyIsLost, Lobbies, DisconnectFrame
    <3> QED
      BY <3>3, <3>4, <3>5, <3>6, <3>7 DEF IInv
  <2> QED
    BY <2>7, <2>8
<1> QED
  BY <1>1, <1>2

LEMMA ReadClosedStep ==
  ASSUME IInv, NEW c \in Connections, ReadClosed(c)
  PROVE  IInv'
<1>1. DisconnectFrame
  BY DEF ReadClosed, DisconnectFrame, IInv, TypeOK
<1> QED
  BY <1>1, DisconnectStep DEF ReadClosed

LEMMA PingTimeoutStep ==
  ASSUME IInv, NEW c \in Connections, PingTimeout(c)
  PROVE  IInv'
<1>1. DisconnectFrame
  BY DEF PingTimeout, DisconnectFrame, IInv, TypeOK
<1> QED
  BY <1>1, DisconnectStep DEF PingTimeout
-----------------------------------------------------------------------------
\* A step that moves nobody: who sits where, who waits and which lobbies are full
\* stay as they are, and no connection comes back.
QuietFrame ==
  /\ lobbies' \in Seq(Lobby) /\ Len(lobbies') = Len(lobbies) /\ DOMAIN lobbies' = DOMAIN lobbies
  /\ LobbiesOK(lobbies', accepted, id, lobby)
  /\ \A d : SeatedIn(lobbies', d) <=> SeatedIn(lobbies, d)
  /\ \A m \in DOMAIN lobbies : IsFull(lobbies'[m]) <=> IsFull(lobbies[m])
  /\ UNCHANGED <<playerQueue, accepted, id, lobby>>
  /\ \A d \in Connections : clientIsConnected'[d] => clientIsConnected[d]

LEMMA QuietStep ==
  ASSUME IInv, QuietFrame, TypeOK', OnlyPlayersAreAsked'
  PROVE  IInv'
<1>1. LobbiesOK(lobbies, accepted, id, lobby)'
  BY DEF QuietFrame
<1>2. QueueOK'
  BY DEF IInv, QueueOK, Unplaced, QuietFrame
<1>3. NobodyIsLost'
  <2>1. ASSUME NEW d \in accepted, clientIsConnected'[d]
        PROVE  Queued(d)' <=> ~ SeatedIn(lobbies', d)
    <3>1. clientIsConnected[d]
      BY <2>1 DEF QuietFrame, IInv, TypeOK
    <3>2. Queued(d) <=> ~ SeatedIn(lobbies, d)
      BY <3>1, LostDef
    <3> QED
      BY <3>2 DEF QuietFrame, Queued
  <2>2. \A d : SeatedIn(lobbies', d) <=> ~ \A m \in DOMAIN lobbies' : d \notin PlayersOf(m)'
    BY DEF SeatedIn, PlayersOf
  <2>3. \A j, k \in DOMAIN playerQueue' : playerQueue'[j] = playerQueue'[k] => j = k
    BY DEF IInv, NobodyIsLost, QuietFrame
  <2>4. accepted' = accepted
    BY DEF QuietFrame
  <2> QED
    BY <2>1, <2>2, <2>3, <2>4 DEF NobodyIsLost, Lobbies
<1>4. QueueOnlyWhenFull'
  BY DEF IInv, QueueOnlyWhenFull, QuietFrame, Lobbies
<1> QED
  BY <1>1, <1>2, <1>3, <1>4 DEF IInv

\* The lobbies, the queue and who is connected are untouched.
LEMMA UntouchedStep ==
  ASSUME IInv, UNCHANGED <<lobbies, playerQueue, accepted, id, lobby, clientIsConnected>>,
         TypeOK', OnlyPlayersAreAsked'
  PROVE  IInv'
<1>1. QuietFrame
  BY DEF IInv, TypeOK, QuietFrame
<1> QED
  BY <1>1, QuietStep

LEMMA AcceptErrorStep ==
  ASSUME IInv, AcceptError
  PROVE  IInv'
<1>1. /\ UNCHANGED <<lobbies, playerQueue, accepted, id, lobby, clientIsConnected>>
      /\ TypeOK' /\ OnlyPlayersAreAsked'
  BY DEF IInv, TypeOK, AcceptError, connVars, clientVars, OnlyPlayersAreAsked
<1> QED
  BY <1>1, UntouchedStep

LEMMA ReadErrorStep ==
  ASSUME IInv, NEW c \in Connections, ReadError(c)
  PROVE  IInv'
<1>1. /\ UNCHANGED <<lobbies, playerQueue, accepted, id, lobby, clientIsConnected>>
      /\ TypeOK' /\ OnlyPlayersAreAsked'
  BY DEF IInv, TypeOK, ReadError, serverVars, clientVars, OnlyPlayersAreAsked
<1> QED
  BY <1>1, UntouchedStep

LEMMA AnswerStep ==
  ASSUME IInv, NEW c \in Connections, Answer(c)
  PROVE  IInv'
<1>1. UNCHANGED <<lobbies, playerQueue, accepted, id, lobby, clientIsConnected>>
  BY DEF Answer, serverVars, connVars
<1>2. /\ prompt \in [Connections -> {"none", "ready", "turn"}]
      /\ prompt[c] \in {"ready", "turn"}
      /\ toServer \in [Connections -> Seq({"ready", "turn"})]
  BY DEF Answer, IInv, TypeOK
<1>3. /\ toServer' \in [Connections -> Seq({"ready", "turn"})]
      /\ prompt' \in [Connections -> {"none", "ready", "turn"}]
      /\ \A d \in Connections \ {c} : toServer'[d] = toServer[d] /\ prompt'[d] = prompt[d]
  BY <1>2 DEF Answer
<1>4. TypeOK'
  BY <1>1, <1>3 DEF IInv, TypeOK, Answer, serverVars, connVars
<1>5. OnlyPlayersAreAsked'
  BY <1>1, <1>2, <1>3 DEF IInv, OnlyPlayersAreAsked
<1> QED
  BY <1>1, <1>4, <1>5, UntouchedStep

LEMMA CloseStep ==
  ASSUME IInv, NEW c \in Connections, Close(c)
  PROVE  IInv'
<1>1. /\ UNCHANGED <<lobbies, playerQueue, accepted, id, lobby, clientIsConnected>>
      /\ TypeOK' /\ OnlyPlayersAreAsked'
  BY DEF IInv, TypeOK, Close, serverVars, connVars, OnlyPlayersAreAsked
<1> QED
  BY <1>1, UntouchedStep

\* A message of a player changes its lobby, but neither who is in it nor whether
\* it is full.
LEMMA PlayStep ==
  ASSUME IInv, NEW l \in DOMAIN lobbies, NEW h, LobbyOK(h),
         h.players = lobbies[l].players, h.numPlayers = lobbies[l].numPlayers,
         lobbies' = [lobbies EXCEPT ![l] = h],
         UNCHANGED <<playerQueue, accepted, id, lobby, clientIsConnected>>
  PROVE  QuietFrame
<1>1. lobbies \in Seq(Lobby) /\ LobbiesOK(lobbies, accepted, id, lobby)
  BY DEF IInv, TypeOK
<1>2. h \in Lobby
  BY DEF LobbyOK
<1>3. lobbies' \in Seq(Lobby) /\ Len(lobbies') = Len(lobbies) /\ DOMAIN lobbies' = DOMAIN lobbies
  BY <1>1, <1>2
<1>4. \A m \in DOMAIN lobbies : lobbies'[m] = IF m = l THEN h ELSE lobbies[m]
  BY <1>1
<1>5. \A m \in DOMAIN lobbies : /\ lobbies'[m].players = lobbies[m].players
                                /\ lobbies'[m].numPlayers = lobbies[m].numPlayers
  BY <1>4
<1>6. \A m \in DOMAIN lobbies : Occupied(lobbies'[m]) = Occupied(lobbies[m])
  BY <1>5 DEF Occupied
<1>7. \A m \in DOMAIN lobbies : LobbyOK(lobbies'[m])
  BY <1>1, <1>4 DEF LobbiesOK
<1>8. LobbiesOK(lobbies', accepted, id, lobby)
  <2>1. \A m \in DOMAIN lobbies : \A s \in Occupied(lobbies[m]) :
          LET c == lobbies[m].players[s] IN c \in accepted /\ lobby[c] = m /\ id[c] = s + 1
    BY <1>1 DEF LobbiesOK
  <2>2. \A m \in DOMAIN lobbies : \A s \in Occupied(lobbies'[m]) :
          LET c == lobbies'[m].players[s] IN c \in accepted /\ lobby[c] = m /\ id[c] = s + 1
    BY <1>5, <1>6, <2>1
  <2> QED
    BY <1>3, <1>7, <2>2 DEF LobbiesOK
<1>9. \A d : SeatedIn(lobbies', d) <=> SeatedIn(lobbies, d)
  BY <1>3, <1>5, <1>6 DEF SeatedIn
<1>10. \A m \in DOMAIN lobbies : IsFull(lobbies'[m]) <=> IsFull(lobbies[m])
  BY <1>5 DEF IsFull
<1> QED
  BY <1>3, <1>8, <1>9, <1>10 DEF QuietFrame, IInv, TypeOK

\* Only a connection that has joined a lobby sends anything to be read.
LEMMA ReadsFacts ==
  ASSUME IInv, NEW c \in Connections, NEW what, Reads(c, what)
  PROVE  /\ lobby[c] \in DOMAIN lobbies
         /\ LobbyOK(lobbies[lobby[c]])
         /\ reading' \in [Connections -> BOOLEAN]
         /\ toServer' \in [Connections -> Seq({"ready", "turn"})]
         /\ \A d \in Connections : toServer'[d] # <<>> => toServer[d] # <<>>
<1>1. lobby[c] # NoLobby
  BY DEF IInv, OnlyPlayersAreAsked, Reads
<1>2. lobby[c] \in DOMAIN lobbies
  BY <1>1 DEF IInv, TypeOK, NoLobby
<1>3. toServer \in [Connections -> Seq({"ready", "turn"})] /\ toServer[c] # <<>>
  BY DEF IInv, TypeOK, Reads
<1>4. Tail(toServer[c]) \in Seq({"ready", "turn"})
  BY <1>3
<1>5. toServer' = [toServer EXCEPT ![c] = Tail(toServer[c])]
  BY <1>3 DEF Reads
<1>6. reading' \in [Connections -> BOOLEAN]
  BY DEF IInv, TypeOK, Reads
<1>7. LobbyOK(lobbies[lobby[c]])
  BY <1>2 DEF IInv, LobbiesOK
<1> QED
  BY <1>2, <1>3, <1>4, <1>5, <1>6, <1>7

\* What reading a message may touch, and whom it may prompt.
PlayFrame ==
  /\ UNCHANGED <<accepting, clientIsConnected, closed>>
  /\ reading' \in [Connections -> BOOLEAN]
  /\ clientIsReady' \in [Connections -> BOOLEAN]
  /\ toServer' \in [Connections -> Seq({"ready", "turn"})]
  /\ \A d \in Connections : toServer'[d] # <<>> => toServer[d] # <<>>
  /\ prompt' \in [Connections -> {"none", "ready", "turn"}]
  /\ \A d \in Connections : prompt'[d] # "none" => lobby[d] # NoLobby \/ prompt[d] # "none"

LEMMA PlayFrameStep ==
  ASSUME IInv, QuietFrame, PlayFrame
  PROVE  IInv'
<1>1. TypeOK'
  BY DEF IInv, TypeOK, QuietFrame, PlayFrame
<1>2. OnlyPlayersAreAsked'
  BY DEF IInv, OnlyPlayersAreAsked, QuietFrame, PlayFrame
<1> QED
  BY <1>1, <1>2, QuietStep

\* Prompts go to connections of a lobby only.
LEMMA ToldInLobby ==
  ASSUME IInv, NEW l \in DOMAIN lobbies, NEW C \in SUBSET Attached(l),
         NEW what \in {"ready", "turn"}, NEW conn
  PROVE  /\ Told(C, what, conn) \in [Connections -> {"none", "ready", "turn"}]
         /\ \A d \in Connections :
              Told(C, what, conn)[d] # "none" => lobby[d] # NoLobby \/ prompt[d] # "none"
<1>1. \A d \in C : lobby[d] # NoLobby
  BY DEF Attached, NoLobby, IInv, TypeOK
<1>2. /\ Told(C, what, conn) \in [Connections -> {"none", "ready", "turn"}]
      /\ \A d \in Connections : Told(C, what, conn)[d] # "none" => d \in C \/ prompt[d] # "none"
  BY ToldType DEF IInv
<1> QED
  BY <1>1, <1>2

LEMMA ReadReadyStep ==
  ASSUME IInv, NEW c \in Connections, ReadReady(c)
  PROVE  IInv'
<1> DEFINE l == lobby[c]
           g == lobbies[l]
           counted == CountReady(g)
<1>1. Reads(c, "ready") /\ UNCHANGED <<accepting, playerQueue, accepted, id, lobby, clientIsConnected, closed>>
  BY DEF ReadReady
<1>2. /\ l \in DOMAIN lobbies /\ LobbyOK(g)
      /\ reading' \in [Connections -> BOOLEAN]
      /\ toServer' \in [Connections -> Seq({"ready", "turn"})]
      /\ \A d \in Connections : toServer'[d] # <<>> => toServer[d] # <<>>
  BY <1>1, ReadsFacts
<1>3. /\ clientIsReady' \in [Connections -> BOOLEAN]
      /\ prompt \in [Connections -> {"none", "ready", "turn"}]
      /\ 1 \in 1 .. MaxPlayers
  BY ConstantFacts DEF IInv, TypeOK, ReadReady
<1>4. CASE SeatsWithId(g, id, id[c]) = {}
  <2>1. UNCHANGED <<lobbies, prompt>>
    BY <1>4 DEF ReadReady
  <2>2. QuietFrame
    BY <1>1, <2>1 DEF IInv, TypeOK, QuietFrame
  <2>3. PlayFrame
    BY <1>1, <1>2, <1>3, <2>1 DEF PlayFrame
  <2> QED
    BY <2>2, <2>3, PlayFrameStep
<1>5. CASE SeatsWithId(g, id, id[c]) # {} /\ CanStart(counted)
  <2>1. PICK first \in 1 .. MaxPlayers :
          /\ lobbies' = [lobbies EXCEPT ![l] = StartGame(counted, first)]
          /\ prompt' = IF g.isPlayingGame THEN prompt
                       ELSE Told(Called(l, first), "turn", clientIsConnected)
    BY <1>5 DEF ReadReady
  <2> DEFINE h == StartGame(counted, first)
  <2>2. LobbyOK(h) /\ h.players = g.players /\ h.numPlayers = g.numPlayers
    BY <1>2, <1>5, GameStep
  <2>3. lobbies' = [lobbies EXCEPT ![l] = h]
    BY <2>1
  <2> HIDE DEF h
  <2>4. QuietFrame
    BY <1>1, <1>2, <2>2, <2>3, PlayStep
  <2>5. Called(l, first) \in SUBSET Attached(l)
    BY DEF Called
  <2>6. /\ Told(Called(l, first), "turn", clientIsConnected) \in [Connections -> {"none", "ready", "turn"}]
        /\ \A d \in Connections :
             Told(Called(l, first), "turn", clientIsConnected)[d] # "none" => lobby[d] # NoLobby \/ prompt[d] # "none"
    BY <1>2, <2>5, ToldInLobby
  <2>7. PlayFrame
    BY <1>1, <1>2, <1>3, <2>1, <2>6 DEF PlayFrame
  <2> QED
    BY <2>4, <2>7, PlayFrameStep
<1>6. CASE SeatsWithId(g, id, id[c]) # {} /\ ~ CanStart(counted)
  <2>1. lobbies' = [lobbies EXCEPT ![l] = counted] /\ UNCHANGED prompt
    BY <1>6 DEF ReadReady
  <2>2. LobbyOK(counted) /\ counted.players = g.players /\ counted.numPlayers = g.numPlayers
    BY <1>2, <1>3, GameStep
  <2> HIDE DEF counted
  <2>3. QuietFrame
    BY <1>1, <1>2, <2>1, <2>2, PlayStep
  <2>4. PlayFrame
    BY <1>1, <1>2, <1>3, <2>1 DEF PlayFrame
  <2> QED
    BY <2>3, <2>4, PlayFrameStep
<1> QED
  BY <1>4, <1>5, <1>6

LEMMA ReadTurnStep ==
  ASSUME IInv, NEW c \in Connections, ReadTurn(c)
  PROVE  IInv'
<1> DEFINE l == lobby[c]
           g == lobbies[l]
<1>1. /\ Reads(c, "turn")
      /\ UNCHANGED <<accepting, playerQueue, accepted, id, lobby, clientIsConnected, closed>>
      /\ TurnRefused(c, l) \/ TurnRejected(c, l) \/ TurnAccepted(c, l) \/ TurnEndsGame(c, l)
  BY DEF ReadTurn
<1>2. /\ l \in DOMAIN lobbies /\ LobbyOK(g)
      /\ reading' \in [Connections -> BOOLEAN]
      /\ toServer' \in [Connections -> Seq({"ready", "turn"})]
      /\ \A d \in Connections : toServer'[d] # <<>> => toServer[d] # <<>>
  BY <1>1, ReadsFacts
<1>3. /\ clientIsReady \in [Connections -> BOOLEAN]
      /\ prompt \in [Connections -> {"none", "ready", "turn"}]
      /\ id[c] \in 0 .. MaxPlayers /\ MaxPlayers \in Nat /\ MaxPlayers >= 2 /\ MaxPlayers <= 254
  BY ConstantFacts DEF IInv, TypeOK
<1>4. CASE TurnRefused(c, l)
  <2>1. UNCHANGED <<lobbies, clientIsReady, prompt>>
    BY <1>4 DEF TurnRefused
  <2>2. QuietFrame
    BY <1>1, <2>1 DEF IInv, TypeOK, QuietFrame
  <2>3. PlayFrame
    BY <1>1, <1>2, <1>3, <2>1 DEF PlayFrame
  <2> QED
    BY <2>2, <2>3, PlayFrameStep
<1>5. CASE TurnRejected(c, l)
  <2>1. /\ prompt' = Told(Called(l, id[c]), "turn", clientIsConnected)
        /\ UNCHANGED <<lobbies, clientIsReady>>
    BY <1>5 DEF TurnRejected
  <2>2. QuietFrame
    BY <1>1, <2>1 DEF IInv, TypeOK, QuietFrame
  <2>3. Called(l, id[c]) \in SUBSET Attached(l)
    BY DEF Called
  <2>4. /\ prompt' \in [Connections -> {"none", "ready", "turn"}]
        /\ \A d \in Connections : prompt'[d] # "none" => lobby[d] # NoLobby \/ prompt[d] # "none"
    BY <1>2, <2>1, <2>3, ToldInLobby
  <2>5. PlayFrame
    BY <1>1, <1>2, <1>3, <2>1, <2>4 DEF PlayFrame
  <2> QED
    BY <2>2, <2>5, PlayFrameStep
<1>6. CASE TurnAccepted(c, l)
  <2> DEFINE next == NextPlayer(id[c], MaxPlayers)
             h == [g EXCEPT !.currentPlayer = next]
  <2>1. /\ lobbies' = [lobbies EXCEPT ![l] = h]
        /\ prompt' = Told(Called(l, next), "turn", clientIsConnected)
        /\ UNCHANGED clientIsReady
    BY <1>6 DEF TurnAccepted
  <2>2. next \in 1 .. MaxPlayers
    <3>1. MaxPlayers \in 1 .. 255 /\ id[c] \in 0 .. MaxPlayers
      BY <1>3
    <3> QED
      BY <3>1, NextPlayerWraps
  <2> HIDE DEF next
  <2>3. LobbyOK(h) /\ h.players = g.players /\ h.numPlayers = g.numPlayers
    BY <1>2, <2>2, GameStep
  <2> HIDE DEF h
  <2>4. QuietFrame
    BY <1>1, <1>2, <2>1, <2>3, PlayStep
  <2>5. Called(l, next) \in SUBSET Attached(l)
    BY DEF Called
  <2>6. /\ prompt' \in [Connections -> {"none", "ready", "turn"}]
        /\ \A d \in Connections : prompt'[d] # "none" => lobby[d] # NoLobby \/ prompt[d] # "none"
    BY <1>2, <2>1, <2>5, ToldInLobby
  <2>7. PlayFrame
    BY <1>1, <1>2, <1>3, <2>1, <2>6 DEF PlayFrame
  <2> QED
    BY <2>4, <2>7, PlayFrameStep
<1>7. CASE TurnEndsGame(c, l)
  <2> DEFINE h == GameOver(g)
  <2>1. /\ lobbies' = [lobbies EXCEPT ![l] = h]
        /\ clientIsReady' \in [Connections -> BOOLEAN]
        /\ prompt' = Told(Attached(l), "ready", clientIsConnected)
    BY <1>3, <1>7 DEF TurnEndsGame
  <2>2. LobbyOK(h) /\ h.players = g.players /\ h.numPlayers = g.numPlayers
    <3>1. 1 \in 1 .. MaxPlayers
      BY <1>3
    <3> QED
      BY <1>2, <3>1, GameStep
  <2> HIDE DEF h
  <2>3. QuietFrame
    BY <1>1, <1>2, <2>1, <2>2, PlayStep
  <2>4. /\ prompt' \in [Connections -> {"none", "ready", "turn"}]
        /\ \A d \in Connections : prompt'[d] # "none" => lobby[d] # NoLobby \/ prompt[d] # "none"
    BY <1>2, <2>1, ToldInLobby
  <2>5. PlayFrame
    BY <1>1, <1>2, <2>1, <2>4 DEF PlayFrame
  <2> QED
    BY <2>3, <2>5, PlayFrameStep
<1> QED
  BY <1>1, <1>4, <1>5, <1>6, <1>7

\* The queue's timer only drops who is known to be gone.
LEMMA UpdateQueuePositionsStep ==
  ASSUME IInv, UpdateQueuePositions
  PROVE  IInv'
<1> DEFINE alive == {i \in DOMAIN playerQueue : clientIsConnected[playerQueue[i]]}
<1>0. PICK n \in 0 .. Len(playerQueue) : \E at \in [1 .. n -> alive] :
        /\ \A i, j \in 1 .. n : i < j => at[i] < at[j]
        /\ \A k \in alive : \E i \in 1 .. n : at[i] = k
        /\ playerQueue' = [i \in 1 .. n |-> playerQueue[at[i]]]
        /\ UNCHANGED <<accepting, lobbies, connVars, clientVars>>
  BY DEF UpdateQueuePositions
<1>1. PICK at \in [1 .. n -> alive] :
        /\ \A i, j \in 1 .. n : i < j => at[i] < at[j]
        /\ \A k \in alive : \E i \in 1 .. n : at[i] = k
        /\ playerQueue' = [i \in 1 .. n |-> playerQueue[at[i]]]
        /\ UNCHANGED <<accepting, lobbies, connVars, clientVars>>
  BY <1>0
<1>2. /\ playerQueue \in Seq(Connections)
      /\ n \in Nat
      /\ \A i \in 1 .. n : /\ at[i] \in DOMAIN playerQueue /\ at[i] \in Int
                           /\ playerQueue[at[i]] \in Connections
  BY <1>1 DEF IInv, TypeOK
<1>3. /\ playerQueue' \in Seq(Connections)
      /\ DOMAIN playerQueue' = 1 .. n
      /\ \A i \in 1 .. n : playerQueue'[i] = playerQueue[at[i]]
      /\ playerQueue' # <<>> => playerQueue # <<>>
  <2>1. playerQueue' = [i \in 1 .. n |-> playerQueue[at[i]]]
    BY <1>1
  <2>2. playerQueue = <<>> => n = 0
    BY <1>2
  <2> QED
    BY <1>2, <2>1, <2>2
<1>4. UNCHANGED <<lobbies, accepted, id, lobby, clientIsConnected, prompt, toServer>>
  BY <1>1 DEF connVars, clientVars
<1>5. TypeOK'
  BY <1>1, <1>3 DEF IInv, TypeOK, connVars, clientVars
<1>6. QueueOK'
  BY <1>2, <1>3, <1>4 DEF IInv, QueueOK, Unplaced
<1>7. LobbiesOK(lobbies, accepted, id, lobby)' /\ OnlyPlayersAreAsked' /\ QueueOnlyWhenFull'
  BY <1>3, <1>4 DEF IInv, OnlyPlayersAreAsked, QueueOnlyWhenFull, Lobbies
<1>8. NobodyIsLost'
  <2>1. ASSUME NEW c \in accepted, clientIsConnected[c]
        PROVE  Queued(c)' <=> Queued(c)
    <3>1. ASSUME Queued(c) PROVE Queued(c)'
      <4>1. PICK k \in DOMAIN playerQueue : playerQueue[k] = c
        BY <3>1 DEF Queued
      <4>2. PICK i \in 1 .. n : at[i] = k
        BY <1>1, <2>1, <4>1
      <4> QED
        BY <1>3, <4>1, <4>2 DEF Queued
    <3>2. ASSUME Queued(c)' PROVE Queued(c)
      BY <1>2, <1>3, <3>2 DEF Queued
    <3> QED
      BY <3>1, <3>2
  <2>2. \A i, j \in DOMAIN playerQueue' : playerQueue'[i] = playerQueue'[j] => i = j
    <3>1. SUFFICES ASSUME NEW i \in 1 .. n, NEW j \in 1 .. n, playerQueue'[i] = playerQueue'[j]
                   PROVE  i = j
      BY <1>3
    <3>2. at[i] = at[j]
      <4>1. \A x, y \in DOMAIN playerQueue : playerQueue[x] = playerQueue[y] => x = y
        BY DEF IInv, NobodyIsLost
      <4> QED
        BY <1>2, <1>3, <3>1, <4>1
    <3>3. at[i] \in Int /\ at[j] \in Int /\ i \in Int /\ j \in Int
      BY <1>2
    <3> QED
      BY <1>1, <3>2, <3>3
  <2> QED
    BY <1>4, <2>1, <2>2 DEF IInv, NobodyIsLost, PlayersOf, Lobbies
<1> QED
  BY <1>5, <1>6, <1>7, <1>8 DEF IInv

-----------------------------------------------------------------------------
\* What accepting connection c does wherever c is put.
AcceptFrame(c) ==
  /\ c \notin accepted
  /\ accepted' = accepted \cup {c}
  /\ reading' \in [Connections -> BOOLEAN]
  /\ prompt' = IF id'[c] # NoId THEN Told({c}, "ready", clientIsConnected) ELSE prompt
  /\ UNCHANGED <<accepting, clientIsConnected, clientIsReady, toServer, closed>>

\* A new connection joins a lobby when there is one, and then nobody is queued.
LEMMA AcceptJoinStep ==
  ASSUME IInv, NEW c \in Connections, AcceptFrame(c),
         NEW l \in 1 .. Len(lobbies) + 1, l <= MaxLobbies,
         l \in DOMAIN lobbies => CanAddPlayers(lobbies[l]),
         Join(c, l, lobbies), playerQueue = <<>>, playerQueue' = playerQueue
  PROVE  IInv'
<1>1. /\ c \notin accepted /\ accepted' = accepted \cup {c} /\ accepted' \subseteq Connections
      /\ c \in accepted'
  BY DEF AcceptFrame, IInv, TypeOK
<1>2. /\ lobbies \in Seq(Lobby)
      /\ id \in [Connections -> 0 .. MaxPlayers]
      /\ lobby \in [Connections -> 0 .. Len(lobbies)]
      /\ Len(lobbies) \in Nat /\ Len(lobbies) <= MaxLobbies
  BY DEF IInv, TypeOK
<1>3. LobbiesOK(lobbies, accepted', id, lobby) /\ Unplaced(c)
  <2>1. LobbiesOK(lobbies, accepted, id, lobby) /\ Unplaced(c)
    BY <1>1 DEF IInv, QueueOK
  <2> QED
    BY <1>1, <2>1 DEF LobbiesOK
<1> DEFINE ls == lobbies
<1>a. /\ ls \in Seq(Lobby) /\ l \in 1 .. Len(ls) + 1
      /\ id \in [Connections -> 0 .. MaxPlayers]
      /\ lobby \in [Connections -> 0 .. Len(ls)]
      /\ accepted' \subseteq Connections /\ c \in accepted'
      /\ LobbiesOK(ls, accepted', id, lobby) /\ Unplaced(c)
  BY <1>1, <1>2, <1>3
<1>b. l \in DOMAIN ls => CanAddPlayers(ls[l])
  OBVIOUS
<1>c. Join(c, l, ls)
  OBVIOUS
<1> HIDE DEF ls
<1>d. /\ lobbies' \in Seq(Lobby)
      /\ l \in DOMAIN lobbies'
      /\ LobbiesOK(lobbies', accepted', id', lobby')
      /\ id' \in [Connections -> 0 .. MaxPlayers]
      /\ lobby' = [lobby EXCEPT ![c] = l]
  BY <1>a, <1>b, <1>c, JoinStep
<1>e. Len(lobbies') = IF l \in DOMAIN ls THEN Len(ls) ELSE Len(ls) + 1
  BY <1>a, <1>b, <1>c, JoinStep
<1>f. /\ id'[c] # NoId
      /\ \A d \in Connections \ {c} : id'[d] = id[d]
  BY <1>a, <1>b, <1>c, JoinStep
<1>g. \A d : SeatedIn(lobbies', d) <=> d = c \/ SeatedIn(ls, d)
  BY <1>a, <1>b, <1>c, JoinStep
<1>4. /\ lobbies' \in Seq(Lobby) /\ l \in DOMAIN lobbies'
      /\ Len(lobbies') = IF l \in DOMAIN lobbies THEN Len(lobbies) ELSE Len(lobbies) + 1
      /\ LobbiesOK(lobbies', accepted', id', lobby')
      /\ id' \in [Connections -> 0 .. MaxPlayers]
      /\ lobby' = [lobby EXCEPT ![c] = l]
  BY <1>d, <1>e DEF ls
<1>5. /\ id'[c] # NoId
      /\ \A d \in Connections \ {c} : id'[d] = id[d]
      /\ \A d : SeatedIn(lobbies', d) <=> d = c \/ SeatedIn(lobbies, d)
  BY <1>f, <1>g DEF ls
<1>6. /\ Len(lobbies') \in Nat /\ Len(lobbies) <= Len(lobbies') /\ Len(lobbies') <= MaxLobbies
      /\ l \in 1 .. Len(lobbies')
  BY <1>2, <1>4, ConstantFacts
<1>7. /\ lobby' \in [Connections -> 0 .. Len(lobbies')]
      /\ lobby'[c] = l /\ l # NoLobby
      /\ \A d \in Connections \ {c} : lobby'[d] = lobby[d]
  BY <1>2, <1>4, <1>6 DEF NoLobby
<1>8. /\ prompt' \in [Connections -> {"none", "ready", "turn"}]
      /\ \A d \in Connections : prompt'[d] # "none" => d = c \/ prompt[d] # "none"
  <2>1. prompt' = Told({c}, "ready", clientIsConnected) /\ TypeOK
    BY <1>5 DEF AcceptFrame, IInv
  <2>2. \A conn : /\ Told({c}, "ready", conn) \in [Connections -> {"none", "ready", "turn"}]
                  /\ \A d \in Connections : Told({c}, "ready", conn)[d] # "none"
                                              => d \in {c} \/ prompt[d] # "none"
    BY <2>1, ToldType
  <2> QED
    BY <2>1, <2>2
<1>9. TypeOK'
  BY <1>1, <1>4, <1>6, <1>7, <1>8 DEF IInv, TypeOK, AcceptFrame
<1>10. QueueOK'
  <2>1. \A k \in DOMAIN playerQueue' : FALSE
    OBVIOUS
  <2>2. \A d \in Connections \ accepted' : lobby'[d] = NoLobby /\ id'[d] = NoId
    BY <1>1, <1>5, <1>7 DEF IInv, QueueOK, Unplaced
  <2> QED
    BY <2>1, <2>2 DEF QueueOK, Unplaced
<1>11. OnlyPlayersAreAsked'
  BY <1>7, <1>8 DEF IInv, OnlyPlayersAreAsked, AcceptFrame
<1>12. NobodyIsLost'
  <2>1. \A d : ~ Queued(d) /\ ~ Queued(d)'
    BY DEF Queued
  <2>2. ASSUME NEW d \in accepted', clientIsConnected'[d]
        PROVE  SeatedIn(lobbies', d)
    <3>1. CASE d = c
      BY <1>5, <3>1
    <3>2. CASE d # c
      <4>1. d \in accepted /\ clientIsConnected[d]
        BY <1>1, <2>2, <3>2 DEF AcceptFrame
      <4> QED
        BY <1>5, <2>1, <4>1, LostDef
    <3> QED
      BY <3>1, <3>2
  <2>3. \A d : SeatedIn(lobbies', d) <=> ~ \A m \in DOMAIN lobbies' : d \notin PlayersOf(m)'
    BY DEF SeatedIn, PlayersOf
  <2> QED
    BY <2>1, <2>2, <2>3 DEF NobodyIsLost, Lobbies
<1>13. QueueOnlyWhenFull'
  BY DEF QueueOnlyWhenFull
<1> QED
  BY <1>4, <1>9, <1>10, <1>11, <1>12, <1>13 DEF IInv

\* The queue takes a new connection when every lobby exists and is full.
LEMMA AcceptQueueStep ==
  ASSUME IInv, NEW c \in Connections, AcceptFrame(c),
         AvailableLobbies = {}, Len(lobbies) >= MaxLobbies,
         playerQueue' = Append(playerQueue, c), UNCHANGED <<lobbies, id, lobby>>
  PROVE  IInv'
<1>1. /\ c \notin accepted /\ accepted' = accepted \cup {c} /\ accepted' \subseteq Connections
      /\ UNCHANGED <<accepting, clientIsConnected, clientIsReady, toServer, closed>>
  BY DEF AcceptFrame, IInv, TypeOK
<1>2. Unplaced(c) /\ UNCHANGED prompt
  BY <1>1 DEF IInv, QueueOK, Unplaced, AcceptFrame
<1>3. playerQueue \in Seq(Connections)
  BY DEF IInv, TypeOK
<1>4. /\ playerQueue' \in Seq(Connections)
      /\ DOMAIN playerQueue = 1 .. Len(playerQueue) /\ Len(playerQueue) \in Nat
      /\ DOMAIN playerQueue' = 1 .. Len(playerQueue) + 1
      /\ \A k \in 1 .. Len(playerQueue) : playerQueue'[k] = playerQueue[k]
      /\ playerQueue'[Len(playerQueue) + 1] = c
  BY <1>3, QueueFacts
<1>5. \A k \in DOMAIN playerQueue : playerQueue[k] \in accepted /\ playerQueue[k] # c
  BY <1>1 DEF IInv, QueueOK
<1>6. TypeOK'
  BY <1>1, <1>2, <1>4 DEF IInv, TypeOK, AcceptFrame
<1>7. LobbiesOK(lobbies, accepted, id, lobby)'
  <2>1. LobbiesOK(lobbies, accepted, id, lobby)
    BY DEF IInv
  <2> QED
    BY <1>1, <2>1 DEF LobbiesOK
<1>8. QueueOK'
  <2>1. \A k \in DOMAIN playerQueue' : playerQueue'[k] \in accepted' /\ Unplaced(playerQueue'[k])
    BY <1>1, <1>2, <1>4 DEF IInv, QueueOK
  <2>2. \A d \in Connections \ accepted' : Unplaced(d)
    BY <1>1 DEF IInv, QueueOK
  <2> QED
    BY <2>1, <2>2 DEF QueueOK, Unplaced
<1>9. OnlyPlayersAreAsked'
  BY <1>1, <1>2 DEF IInv, OnlyPlayersAreAsked
<1>10. NobodyIsLost'
  <2>1. \A d : Queued(d)' <=> Queued(d) \/ d = c
    BY <1>4 DEF Queued
  <2>2. ASSUME NEW d \in accepted', clientIsConnected'[d]
        PROVE  Queued(d)' <=> ~ SeatedIn(lobbies, d)
    <3>1. CASE d = c
      <4>1. ~ SeatedIn(lobbies, c)
        BY <1>1 DEF SeatedIn, IInv, LobbiesOK
      <4> QED
        BY <2>1, <3>1, <4>1
    <3>2. CASE d # c
      <4>1. d \in accepted /\ clientIsConnected[d]
        BY <1>1, <2>2, <3>2
      <4> QED
        BY <2>1, <3>2, <4>1, LostDef
    <3> QED
      BY <3>1, <3>2
  <2>3. \A d : SeatedIn(lobbies, d) <=> ~ \A m \in DOMAIN lobbies' : d \notin PlayersOf(m)'
    BY DEF SeatedIn, PlayersOf
  <2>4. \A i, j \in DOMAIN playerQueue' : playerQueue'[i] = playerQueue'[j] => i = j
    BY <1>4, <1>5 DEF IInv, NobodyIsLost
  <2> QED
    BY <2>2, <2>3, <2>4 DEF NobodyIsLost, Lobbies
<1>11. QueueOnlyWhenFull'
  <2>1. Len(lobbies) = MaxLobbies
    BY ConstantFacts DEF IInv, TypeOK
  <2>2. \A m \in DOMAIN lobbies : IsFull(lobbies[m])
    BY DEF AvailableLobbies, Lobbies
  <2> QED
    BY <2>1, <2>2 DEF QueueOnlyWhenFull, Lobbies
<1> QED
  BY <1>6, <1>7, <1>8, <1>9, <1>10, <1>11 DEF IInv

LEMMA AcceptStep ==
  ASSUME IInv, NEW c \in Connections, Accept(c)
  PROVE  IInv'
<1>1. AcceptFrame(c)
  BY DEF Accept, AcceptFrame, IInv, TypeOK
<1>2. lobbies \in Seq(Lobby) /\ Len(lobbies) \in Nat /\ Len(lobbies) <= MaxLobbies
  BY DEF IInv, TypeOK
<1>3. CASE AvailableLobbies # {}
  <2> DEFINE l == FirstOf(AvailableLobbies)
  <2>1. AvailableLobbies \in SUBSET Nat
    BY <1>2 DEF AvailableLobbies, Lobbies
  <2>2. l \in AvailableLobbies
    BY <1>3, <2>1, FirstOfMember
  <2>3. l \in DOMAIN lobbies /\ ~ IsFull(lobbies[l])
    BY <2>2 DEF AvailableLobbies, Lobbies
  <2>4. CanAddPlayers(lobbies[l])
    BY <2>3 DEF IInv, LobbiesOK, LobbyOK, CanAddPlayers
  <2>5. Join(c, l, lobbies) /\ playerQueue' = playerQueue
    BY <1>3 DEF Accept
  <2>6. playerQueue = <<>>
    BY <2>3 DEF IInv, QueueOnlyWhenFull, Lobbies
  <2>7. l \in 1 .. Len(lobbies) + 1 /\ l <= MaxLobbies
    BY <1>2, <2>3, ConstantFacts
  <2> HIDE DEF l
  <2> QED
    BY <1>1, <2>4, <2>5, <2>6, <2>7, AcceptJoinStep
<1>4. CASE AvailableLobbies = {} /\ Len(lobbies) < MaxLobbies
  <2> DEFINE l == Len(lobbies) + 1
  <2>1. Join(c, l, lobbies) /\ playerQueue' = playerQueue
    BY <1>2, <1>4, ConstantFacts DEF Accept
  <2>2. playerQueue = <<>>
    BY <1>2, <1>4, ConstantFacts DEF IInv, QueueOnlyWhenFull
  <2>3. l \in 1 .. Len(lobbies) + 1 /\ l <= MaxLobbies /\ l \notin DOMAIN lobbies
    BY <1>2, <1>4, ConstantFacts
  <2> HIDE DEF l
  <2> QED
    BY <1>1, <2>1, <2>2, <2>3, AcceptJoinStep
<1>5. CASE AvailableLobbies = {} /\ Len(lobbies) >= MaxLobbies
  <2>1. playerQueue' = Append(playerQueue, c) /\ UNCHANGED <<lobbies, id, lobby>>
    BY <1>2, <1>5, ConstantFacts DEF Accept
  <2> QED
    BY <1>1, <1>5, <2>1, AcceptQueueStep
<1> QED
  BY <1>2, <1>3, <1>4, <1>5, ConstantFacts
-----------------------------------------------------------------------------
LEMMA InitStep ==
  ASSUME Init
  PROVE  IInv
<1>1. /\ lobbies = <<>> /\ playerQueue = <<>> /\ accepted = {}
      /\ MaxPlayers \in Nat /\ MaxLobbies \in Nat
  BY ConstantFacts DEF Init
<1>2. TypeOK
  BY <1>1 DEF Init, TypeOK, NoId, NoLobby
<1>3. LobbiesOK(lobbies, accepted, id, lobby)
  BY <1>1 DEF LobbiesOK
<1>4. QueueOK
  BY <1>1 DEF Init, QueueOK, Unplaced
<1>5. OnlyPlayersAreAsked
  BY DEF Init, OnlyPlayersAreAsked
<1>6. NobodyIsLost /\ QueueOnlyWhenFull
  BY <1>1 DEF NobodyIsLost, QueueOnlyWhenFull
<1> QED
  BY <1>2, <1>3, <1>4, <1>5, <1>6 DEF IInv

\* Every step keeps the inductive invariant: one lemma for each action.
LEMMA NextStep ==
  ASSUME IInv, [Next]_vars
  PROVE  IInv'
<1>1. CASE AcceptError
  BY <1>1, AcceptErrorStep
<1>2. CASE UpdateQueuePositions
  BY <1>2, UpdateQueuePositionsStep
<1>3. CASE \E c \in Connections : Accept(c) \/ ReadClosed(c) \/ ReadError(c) \/ PingTimeout(c)
  BY <1>3, AcceptStep, ReadClosedStep, ReadErrorStep, PingTimeoutStep
<1>4. CASE \E c \in Connections : ReadReady(c) \/ ReadTurn(c) \/ Answer(c) \/ Close(c)
  BY <1>4, ReadReadyStep, ReadTurnStep, AnswerStep, CloseStep
<1>5. CASE UNCHANGED vars
  <2>1. /\ UNCHANGED <<lobbies, playerQueue, accepted, id, lobby, clientIsConnected>>
        /\ TypeOK' /\ OnlyPlayersAreAsked'
    BY <1>5 DEF IInv, TypeOK, OnlyPlayersAreAsked, vars, serverVars, connVars, clientVars
  <2> QED
    BY <2>1, UntouchedStep
<1> QED
  BY <1>1, <1>2, <1>3, <1>4, <1>5 DEF Next

\* The seats, the queue and the prompts of the server keep their shape: whatever
\* the number of clients, lobbies and seats, the handlers of server.cpp,
\* gamelobby.cpp and connection.cpp keep the inductive invariant.
THEOREM Inductive == Spec => []IInv
<1>1. Init => IInv
  BY InitStep
<1>2. IInv /\ [Next]_vars => IInv'
  BY NextStep
<1> QED
  BY <1>1, <1>2, PTL DEF Spec

\* Every variable of the server keeps its type: no seat, id, lobby or turn is out
\* of range, so no list is indexed beyond its end.
THEOREM TypeCorrect == Spec => []TypeOK
<1>1. IInv => TypeOK
  BY DEF IInv
<1> QED
  BY <1>1, Inductive, PTL

\* Whoever is found by id in a lobby is the connection that asks: a player's
\* lobby and id are those of its seat (onDisconnect and onReady rely on it).
THEOREM SeatsAreTheirOwners == Spec => []SeatsAreOwn
<1>1. IInv => SeatsAreOwn
  BY DEF IInv, LobbiesOK, SeatsAreOwn, Lobbies
<1> QED
  BY <1>1, Inductive, PTL

\* The count of players beside the list of players never parts from it, so that
\* getFirstAvailableId finds a seat whenever canAddPlayers says there is one.
THEOREM SeatsAreCounted == Spec => []SeatCount
<1>1. IInv => SeatCount
  BY DEF IInv, LobbiesOK, LobbyOK, SeatCount, Lobbies
<1> QED
  BY <1>1, Inductive, PTL

\* addPlayer's silent return never costs a client its place: every connection
\* that is still up sits in a lobby or waits in the queue once, never both.
THEOREM EverybodyHasAPlace == Spec => []NobodyIsLost
<1>1. IInv => NobodyIsLost
  BY DEF IInv
<1> QED
  BY <1>1, Inductive, PTL

\* The queue is only used when every lobby exists and is full, whatever order
\* connections come, go and are popped in: nobody overtakes who waits.
THEOREM NobodyWaitsForRoom == Spec => []QueueOnlyWhenFull
<1>1. IInv => QueueOnlyWhenFull
  BY DEF IInv
<1> QED
  BY <1>1, Inductive, PTL
=============================================================================
