-------------------------- MODULE GameLobby_proofs --------------------------
(***************************************************************************)
(* What the operations of a lobby preserve, for any number of seats.       *)
(***************************************************************************)
EXTENDS GameLobby, FiniteSetTheorems, TLAPS

\* find_if finds the first element there is: a least number exists.
LEMMA FirstOfMember ==
  ASSUME NEW S \in SUBSET Nat, S # {}
  PROVE  FirstOf(S) \in S /\ \A t \in S : FirstOf(S) <= t
<1>1. PICK x \in S : \A y \in S : ~ (<<y, x>> \in OpToRel(<, Nat))
  BY NatLessThanWellFounded, WFMin
<1>2. \A y \in S : ~ (y < x)
  BY <1>1 DEF OpToRel
<1>3. \A y \in S : x <= y
  BY <1>2
<1> QED
  BY <1>3 DEF FirstOf

\* The seats are finitely many, and so are those taken.
LEMMA SeatsFinite ==
  /\ IsFiniteSet(Seats)
  /\ Cardinality(Seats) = MaxPlayers
  /\ \A g \in Lobby : IsFiniteSet(Occupied(g)) /\ Occupied(g) \subseteq Seats
<1>1. MaxPlayers \in Nat /\ MaxPlayers >= 2
  BY LobbyAssumption DEF MinNumPlayers
<1>2. IsFiniteSet(0 .. MaxPlayers - 1) /\ Cardinality(0 .. MaxPlayers - 1) = MaxPlayers
  BY <1>1, FS_Interval
<1>3. \A g \in Lobby : Occupied(g) \subseteq Seats
  BY DEF Occupied
<1> QED
  BY <1>2, <1>3, FS_Subset DEF Seats

\* getFirstAvailableId stays in the list for a lobby that is not full.
LEMMA RoomMeansFreeSeat ==
  ASSUME NEW g, LobbyOK(g), ~ IsFull(g)
  PROVE  FirstAvailableId(g) \in Seats \ Occupied(g)
<1>1. Seats \ Occupied(g) # {}
  <2>1. SUFFICES ASSUME Occupied(g) = Seats
                 PROVE  FALSE
    BY SeatsFinite DEF LobbyOK
  <2>2. Cardinality(Occupied(g)) = MaxPlayers
    BY <2>1, SeatsFinite
  <2> QED
    BY <2>2 DEF LobbyOK, Counted, IsFull
<1>2. Seats \ Occupied(g) \in SUBSET Nat
  BY LobbyAssumption DEF Seats, MinNumPlayers
<1> QED
  BY <1>1, <1>2, FirstOfMember DEF FirstAvailableId

\* addPlayer, when it adds: one more player, in a seat that was free.
LEMMA AddPlayerStep ==
  ASSUME NEW g, LobbyOK(g), CanAddPlayers(g), NEW c \in Connections
  PROVE  /\ LobbyOK(AddPlayer(g, c))
         /\ AddPlayer(g, c).numPlayers = g.numPlayers + 1
         /\ AddPlayer(g, c).players = [g.players EXCEPT ![FirstAvailableId(g)] = c]
         /\ Occupied(AddPlayer(g, c)) = Occupied(g) \cup {FirstAvailableId(g)}
         /\ FirstAvailableId(g) \in Seats \ Occupied(g)
         /\ NewId(g) \in 1 .. MaxPlayers
<1> DEFINE k == FirstAvailableId(g)
<1> DEFINE h == [g EXCEPT !.players[k] = c, !.numPlayers = @ + 1]
<1>1. ~ g.isPlayingGame /\ ~ IsFull(g)
  BY DEF CanAddPlayers
<1>2. k \in Seats \ Occupied(g)
  BY <1>1, RoomMeansFreeSeat
<1>3. AddPlayer(g, c) = h
  BY DEF AddPlayer
<1>4. MaxPlayers \in Nat /\ g.numPlayers \in 0 .. MaxPlayers - 1
  BY <1>1, LobbyAssumption DEF LobbyOK, Lobby, IsFull, MinNumPlayers
<1>5. g.players \in [Seats -> Connections \cup {Nobody}]
  BY DEF LobbyOK, Lobby
<1>6. /\ h \in Lobby
      /\ h.players = [g.players EXCEPT ![k] = c]
      /\ h.numPlayers = g.numPlayers + 1
      /\ ~ h.isPlayingGame
  <2>1. [g.players EXCEPT ![k] = c] \in [Seats -> Connections \cup {Nobody}]
    BY <1>2, <1>5
  <2>2. g.numPlayers + 1 \in 0 .. MaxPlayers
    BY <1>4
  <2> QED
    BY <1>1, <2>1, <2>2 DEF LobbyOK, Lobby
<1>7. Occupied(h) = Occupied(g) \cup {k}
  BY <1>2, <1>5, <1>6, LobbyAssumption DEF Occupied
<1>8. Counted(h)
  <2>1. Cardinality(Occupied(g) \cup {k}) = Cardinality(Occupied(g)) + 1
    BY <1>2, SeatsFinite, FS_AddElement DEF LobbyOK
  <2> QED
    BY <2>1, <1>6, <1>7 DEF Counted, LobbyOK
<1>9. NewId(g) \in 1 .. MaxPlayers
  BY <1>2, <1>4 DEF NewId, Seats
<1> QED
  BY <1>2, <1>3, <1>6, <1>7, <1>8, <1>9 DEF LobbyOK

\* The first half of onDisconnect, and the end of the game if there was one: one
\* player less, and the lobby takes players again.
LEMMA ReleaseStep ==
  ASSUME NEW g, LobbyOK(g), NEW s \in Occupied(g), NEW wasReady,
         NEW h, h = IF g.isPlayingGame THEN GameOver(Release(g, s, wasReady))
                                       ELSE Release(g, s, wasReady)
  PROVE  /\ LobbyOK(h)
         /\ CanAddPlayers(h)
         /\ h.numPlayers = g.numPlayers - 1
         /\ h.players = [g.players EXCEPT ![s] = Nobody]
         /\ Occupied(h) = Occupied(g) \ {s}
<1>1. /\ g \in Lobby /\ Counted(g) /\ s \in Seats
      /\ g.players \in [Seats -> Connections \cup {Nobody}]
      /\ MaxPlayers \in Nat
      /\ g.numPlayers \in 0 .. MaxPlayers
      /\ g.numReady \in 0 .. 255
  BY LobbyAssumption DEF LobbyOK, Lobby, Occupied, UInt8, MinNumPlayers
<1>2. /\ Cardinality(Occupied(g) \ {s}) = g.numPlayers - 1
      /\ g.numPlayers - 1 \in Nat
  <2>1. Cardinality(Occupied(g) \ {s}) = g.numPlayers - 1 /\ IsFiniteSet(Occupied(g) \ {s})
    BY <1>1, SeatsFinite, FS_RemoveElement DEF Counted
  <2>2. Cardinality(Occupied(g) \ {s}) \in Nat
    BY <2>1, FS_CardinalityType
  <2> QED
    BY <2>1, <2>2
<1>3. /\ h \in Lobby
      /\ h.players = [g.players EXCEPT ![s] = Nobody]
      /\ h.numPlayers = g.numPlayers - 1
      /\ ~ h.isPlayingGame
  <2> DEFINE p == [g.players EXCEPT ![s] = Nobody]
             r == IF wasReady /\ g.numReady > 0 THEN g.numReady - 1 ELSE g.numReady
  <2>1. p \in [Seats -> Connections \cup {Nobody}]
    BY <1>1
  <2>2. g.numPlayers - 1 \in 0 .. MaxPlayers /\ g.numPlayers > 0
    BY <1>1, <1>2
  <2>3. r \in UInt8 /\ 0 \in UInt8
    BY <1>1 DEF UInt8
  <2>4. Release(g, s, wasReady) =
          [g EXCEPT !.players = p, !.numPlayers = g.numPlayers - 1, !.numReady = r]
    BY <2>2 DEF Release
  <2>5. NoPlayer \in 0 .. MaxPlayers
    BY <1>1 DEF NoPlayer
  <2> HIDE DEF p, r
  <2>6. /\ Release(g, s, wasReady) \in Lobby
        /\ Release(g, s, wasReady).players = p
        /\ Release(g, s, wasReady).numPlayers = g.numPlayers - 1
        /\ Release(g, s, wasReady).isPlayingGame = g.isPlayingGame
    BY <1>1, <2>1, <2>2, <2>3, <2>4 DEF Lobby
  <2>7. \A f \in Lobby : /\ GameOver(f) \in Lobby
                         /\ GameOver(f).players = f.players
                         /\ GameOver(f).numPlayers = f.numPlayers
                         /\ ~ GameOver(f).isPlayingGame
    BY <2>3, <2>5 DEF GameOver, Lobby
  <2> QED
    BY <2>6, <2>7 DEF p
<1>4. Occupied(h) = Occupied(g) \ {s}
  BY <1>1, <1>3 DEF Occupied
<1>5. ~ IsFull(h)
  BY <1>1, <1>3 DEF IsFull
<1> QED
  BY <1>2, <1>3, <1>4, <1>5 DEF LobbyOK, Counted, CanAddPlayers

\* The other operations leave the players and their number alone.
LEMMA GameStep ==
  ASSUME NEW g, LobbyOK(g), NEW i \in 1 .. MaxPlayers
  PROVE  /\ LobbyOK(CountReady(g))
         /\ CanStart(CountReady(g)) => LobbyOK(StartGame(CountReady(g), i))
         /\ LobbyOK(GameOver(g))
         /\ LobbyOK([g EXCEPT !.currentPlayer = i])
         /\ \A h \in {CountReady(g), StartGame(CountReady(g), i), GameOver(g),
                      [g EXCEPT !.currentPlayer = i]} :
              h.players = g.players /\ h.numPlayers = g.numPlayers
<1>1. /\ g \in Lobby /\ MaxPlayers \in Nat /\ i \in 0 .. MaxPlayers
      /\ (g.numReady + 1) % 256 \in 0 .. 255
  BY LobbyAssumption DEF LobbyOK, Lobby, UInt8, MinNumPlayers
<1>2. \A f \in Lobby :
        /\ GameOver(f) \in Lobby
        /\ GameOver(f).players = f.players /\ GameOver(f).numPlayers = f.numPlayers
  <2>1. 0 \in UInt8 /\ NoPlayer \in 0 .. MaxPlayers
    BY <1>1 DEF UInt8, NoPlayer
  <2> QED
    BY <2>1 DEF GameOver, Lobby
<1>3. \A f \in Lobby :
        /\ StartGame(f, i) \in Lobby
        /\ StartGame(f, i).players = f.players /\ StartGame(f, i).numPlayers = f.numPlayers
  BY <1>1 DEF StartGame, Lobby
<1>5. /\ CountReady(g) \in Lobby
      /\ CountReady(g).players = g.players /\ CountReady(g).numPlayers = g.numPlayers
  <2> DEFINE r == (g.numReady + 1) % 256
  <2>1. r \in UInt8
    BY <1>1 DEF UInt8
  <2> HIDE DEF r
  <2>2. CountReady(g) = [g EXCEPT !.numReady = r]
    BY DEF CountReady, r
  <2> QED
    BY <1>1, <2>1, <2>2 DEF Lobby
<1>6. LET h == [g EXCEPT !.currentPlayer = i]
      IN  h \in Lobby /\ h.players = g.players /\ h.numPlayers = g.numPlayers
  BY <1>1 DEF Lobby
<1>4. /\ CountReady(g).isPlayingGame = g.isPlayingGame
      /\ ~ GameOver(g).isPlayingGame
      /\ [g EXCEPT !.currentPlayer = i].isPlayingGame = g.isPlayingGame
  BY <1>1 DEF CountReady, GameOver, Lobby
<1>7. ASSUME NEW f \in Lobby, f.players = g.players, f.numPlayers = g.numPlayers,
             f.isPlayingGame => IsFull(f)
      PROVE  LobbyOK(f)
  BY <1>7 DEF LobbyOK, Counted, Occupied
<1>8. LobbyOK(CountReady(g)) /\ LobbyOK(GameOver(g)) /\ LobbyOK([g EXCEPT !.currentPlayer = i])
  BY <1>1, <1>2, <1>4, <1>5, <1>6, <1>7 DEF LobbyOK, IsFull
<1>9. CanStart(CountReady(g)) => LobbyOK(StartGame(CountReady(g), i))
  BY <1>3, <1>5, <1>7 DEF CanStart, IsFull
<1> QED
  BY <1>1, <1>2, <1>3, <1>5, <1>6, <1>8, <1>9

\* A lobby as makeNewLobby makes it.
LEMMA NewLobbyOK == LobbyOK(NewLobby) /\ CanAddPlayers(NewLobby) /\ Occupied(NewLobby) = {}
<1>1. NewLobby \in Lobby /\ MaxPlayers \in Nat /\ MaxPlayers >= 2
  BY LobbyAssumption DEF NewLobby, Lobby, UInt8, NoPlayer, MinNumPlayers
<1>2. Occupied(NewLobby) = {}
  BY DEF Occupied, NewLobby
<1>3. NewLobby.numPlayers = 0 /\ ~ NewLobby.isPlayingGame
  BY DEF NewLobby
<1>4. Counted(NewLobby) /\ ~ IsFull(NewLobby)
  BY <1>1, <1>2, <1>3, FS_EmptySet DEF Counted, IsFull
<1> QED
  BY <1>1, <1>2, <1>3, <1>4 DEF LobbyOK, CanAddPlayers
=============================================================================
