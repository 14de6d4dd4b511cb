--------------------------- MODULE Session_proofs ---------------------------
(***************************************************************************)
(* Proof that SessionInv is an invariant of the session, for any number of *)
(* connections, seats, games and turns; and what follows from it.          *)
(*                                                                         *)
(* First what a client makes of its messages: when one is appended, or the *)
(* first is handled, the rest of the replay stays as it was.  Then which   *)
(* players there are.  Then each step of the lobby, player by player       *)
(* (PlayerStep), put together by Assemble; and each step of a client, that *)
(* touches nobody else's exchange (OwnStep).                               *)
(***************************************************************************)
EXTENDS Session, GameLobby_proofs, SequenceTheorems

(***************************************************************************)
(* What a client makes of the messages sent to it.                         *)
(***************************************************************************)

LEMMA NaturalInduction ==
  ASSUME NEW S, 0 \in S, \A n \in Nat : n \in S => n + 1 \in S
  PROVE  \A n \in Nat : n \in S
<1> SUFFICES ASSUME Nat \ S # {} PROVE FALSE
  OBVIOUS
<1>1. FirstOf(Nat \ S) \in Nat \ S /\ \A t \in Nat \ S : FirstOf(Nat \ S) <= t
  BY FirstOfMember
<1>2. PICK m \in Nat \ S : \A t \in Nat \ S : m <= t
  BY <1>1
<1>3. m - 1 \in Nat /\ m - 1 \notin Nat \ S
  BY <1>2
<1>4. m - 1 + 1 \in S
  BY <1>3
<1> QED
  BY <1>2, <1>4

Follows(f, n, client, ms) ==
  f = [i \in 0 .. n |-> IF i = 0 THEN client ELSE Learns(ms[i], f[i - 1])]

LEMMA FollowsExists ==
  ASSUME NEW client, NEW ms
  PROVE  \A n \in Nat : \E f : Follows(f, n, client, ms)
<1> DEFINE S == {n \in Nat : \E f : Follows(f, n, client, ms)}
<1>1. 0 \in S
  <2>1. Follows([i \in 0 .. 0 |-> client], 0, client, ms)
    BY DEF Follows
  <2> QED
    BY <2>1
<1>2. ASSUME NEW n \in Nat, n \in S
      PROVE  n + 1 \in S
  <2>1. PICK f : Follows(f, n, client, ms)
    BY <1>2
  <2>2. f[0] = client /\ \A i \in 1 .. n : f[i] = Learns(ms[i], f[i - 1])
    BY <2>1 DEF Follows
  <2> DEFINE h == [i \in 0 .. n + 1 |-> IF i = 0 THEN client ELSE Learns(ms[i], f[i - 1])]
  <2>3. \A i \in 0 .. n : h[i] = f[i]
    BY <2>2
  <2>4. \A i \in 1 .. n + 1 : h[i - 1] = f[i - 1]
    BY <2>3
  <2>5. h = [i \in 0 .. n + 1 |-> IF i = 0 THEN client ELSE Learns(ms[i], h[i - 1])]
    <3> DEFINE e(i) == IF i = 0 THEN client ELSE Learns(ms[i], f[i - 1])
               d(i) == IF i = 0 THEN client ELSE Learns(ms[i], h[i - 1])
    <3>1. \A i \in 0 .. n + 1 : e(i) = d(i)
      <4>1. \A i \in 0 .. n + 1 : i = 0 \/ i \in 1 .. n + 1
        OBVIOUS
      <4> HIDE DEF h
      <4> QED
        BY <2>4, <4>1
    <3>2. h = [i \in 0 .. n + 1 |-> e(i)]
      OBVIOUS
    <3> HIDE DEF e, d, h
    <3>3. h = [i \in 0 .. n + 1 |-> d(i)]
      BY <3>1, <3>2
    <3> QED
      BY <3>3 DEF d
  <2>6. Follows(h, n + 1, client, ms)
    BY <2>5 DEF Follows
  <2> QED
    BY <2>6
<1> HIDE DEF S
<1>3. \A n \in Nat : n \in S
  BY <1>1, <1>2, NaturalInduction
<1> QED
  BY <1>3 DEF S

LEMMA ReplayedStep ==
  ASSUME NEW client, NEW ms, Len(ms) \in Nat
  PROVE  /\ Replayed(client, ms)[0] = client
         /\ \A i \in 1 .. Len(ms) :
              Replayed(client, ms)[i] = Learns(ms[i], Replayed(client, ms)[i - 1])
<1>1. \E f : Follows(f, Len(ms), client, ms)
  BY FollowsExists
<1>2. Replayed(client, ms) = CHOOSE f : Follows(f, Len(ms), client, ms)
  BY DEF Replayed, Follows
<1>3. Follows(Replayed(client, ms), Len(ms), client, ms)
  BY <1>1, <1>2
<1> QED
  BY <1>3 DEF Follows

\* The first "top" messages of ns are those of ms after its first k.
Continues(ns, ms, k, top) ==
  /\ top <= Len(ns) /\ top + k <= Len(ms)
  /\ \A i \in 1 .. top : ns[i] = ms[i + k]

LEMMA ReplayedAgain ==
  ASSUME NEW client, NEW ms, NEW ns, NEW k \in Nat, Len(ms) \in Nat, Len(ns) \in Nat,
         NEW top \in Nat, Continues(ns, ms, k, top)
  PROVE  \A i \in 0 .. top :
           Replayed(Replayed(client, ms)[k], ns)[i] = Replayed(client, ms)[i + k]
<1> DEFINE R == Replayed(client, ms)
           start == R[k]
           Q == Replayed(start, ns)
           S == {n \in Nat : n <= top => Q[n] = R[n + k]}
<1>1. /\ \A i \in 1 .. Len(ms) : R[i] = Learns(ms[i], R[i - 1])
      /\ Q[0] = start /\ \A i \in 1 .. Len(ns) : Q[i] = Learns(ns[i], Q[i - 1])
  BY ReplayedStep
<1>0. top <= Len(ns) /\ top + k <= Len(ms) /\ \A i \in 1 .. top : ns[i] = ms[i + k]
  BY DEF Continues
<1> HIDE DEF R, Q, start
<1>2. 0 \in S
  BY <1>1 DEF R, start
<1>3. ASSUME NEW n \in Nat, n \in S
      PROVE  n + 1 \in S
  <2>1. SUFFICES ASSUME n + 1 <= top
                 PROVE  Q[n + 1] = R[n + 1 + k]
    OBVIOUS
  <2>2. Q[n] = R[n + k]
    BY <1>3, <2>1
  <2>3. n + 1 \in 1 .. top /\ n + 1 \in 1 .. Len(ns) /\ n + 1 + k \in 1 .. Len(ms)
        /\ n + 1 - 1 = n /\ n + 1 + k - 1 = n + k
    BY <1>0, <2>1
  <2>4. ns[n + 1] = ms[n + 1 + k]
    BY <1>0, <2>3
  <2>5. Q[n + 1] = Learns(ns[n + 1], Q[n])
    BY <1>1, <2>3
  <2>6. R[n + 1 + k] = Learns(ms[n + 1 + k], R[n + k])
    BY <1>1, <2>3
  <2> QED
    BY <2>2, <2>4, <2>5, <2>6
<1> HIDE DEF S
<1>4. \A n \in Nat : n \in S
  BY <1>2, <1>3, NaturalInduction
<1> QED
  BY <1>4 DEF S, R, Q, start

LEMMA ReplayedPrefix ==
  ASSUME NEW client, NEW ms, NEW ns, Len(ms) \in Nat, Len(ns) \in Nat,
         NEW top \in Nat, Continues(ms, ns, 0, top)
  PROVE  \A i \in 0 .. top : Replayed(client, ns)[i] = Replayed(client, ms)[i]
<1>1. \A i \in 0 .. top : Replayed(Replayed(client, ns)[0], ms)[i] = Replayed(client, ns)[i]
  BY ReplayedAgain
<1>2. Replayed(client, ns)[0] = client
  BY ReplayedStep
<1> QED
  BY <1>1, <1>2

\* ns is ms with message m after it; ns is ms without its first message m.
OneMore(ns, ms, m) ==
  /\ Len(ns) = Len(ms) + 1 /\ ns[Len(ms) + 1] = m
  /\ \A i \in 1 .. Len(ms) : ns[i] = ms[i]

OneLess(ns, ms, m) ==
  /\ Len(ms) = Len(ns) + 1 /\ ms[1] = m
  /\ \A i \in 1 .. Len(ns) : ns[i] = ms[i + 1]

LEMMA AppendTail ==
  ASSUME NEW ms \in Seq(Messages)
  PROVE  /\ \A m \in Messages : Append(ms, m) \in Seq(Messages) /\ OneMore(Append(ms, m), ms, m)
         /\ ms # <<>> => /\ Tail(ms) \in Seq(Messages) /\ OneLess(Tail(ms), ms, Head(ms))
                         /\ Head(ms) \in Messages
BY DEF OneMore, OneLess

\* One more message is sent, that the client can handle in the end.
LEMMA HandlesOneMore ==
  ASSUME NEW client, NEW me, NEW ms \in Seq(Messages), NEW m \in Messages,
         Handles(client, me, ms),
         NEW last, last = Replayed(client, ms)[Len(ms)],
         Fits(m, last), Learns(m, last) \in Client, Learns(m, last).playerId = me,
         NEW ns \in Seq(Messages), OneMore(ns, ms, m)
  PROVE  /\ Len(ns) = Len(ms) + 1
         /\ Handles(client, me, ns)
         /\ Replayed(client, ns)[Len(ns)] = Learns(m, last)
         /\ \A i \in 0 .. Len(ms) : Replayed(client, ns)[i] = Replayed(client, ms)[i]
         /\ \A what : AskedIn(ns, what) =
              AskedIn(ms, what) \cup (IF AskedBy(m) = what THEN {Len(ns)} ELSE {})
<1> DEFINE R == Replayed(client, ms)
           Q == Replayed(client, ns)
           n == Len(ms)
<1>1. /\ ns \in Seq(Messages) /\ n \in Nat /\ Len(ns) = n + 1 /\ Len(ns) \in Nat
      /\ DOMAIN ms = 1 .. n /\ DOMAIN ns = 1 .. n + 1
      /\ \A i \in 1 .. n : ns[i] = ms[i]
      /\ ns[n + 1] = m
  BY DEF OneMore
<1>2. Q[n + 1] = Learns(m, Q[n]) /\ Q[0] = client
  <2>1. n + 1 \in 1 .. Len(ns) /\ n + 1 - 1 = n
    BY <1>1
  <2>2. /\ Replayed(client, ns)[0] = client
        /\ \A i \in 1 .. Len(ns) : Replayed(client, ns)[i] = Learns(ns[i], Replayed(client, ns)[i - 1])
    BY <1>1, ReplayedStep
  <2> HIDE DEF n
  <2> QED
    BY <1>1, <2>1, <2>2
<1>3. \A i \in 0 .. n : Q[i] = R[i]
  <2>1. Continues(ms, ns, 0, n)
    BY <1>1 DEF Continues
  <2>2. Len(ns) \in Nat /\ Len(ms) \in Nat /\ n \in Nat
    BY <1>1
  <2> QED
    BY <2>1, <2>2, ReplayedPrefix
<1>4. Q[n + 1] = Learns(m, last) /\ Q[n] = last
  BY <1>1, <1>2, <1>3
<1>5. Handles(client, me, ns)
  <2>1. /\ \A i \in 0 .. n : R[i] \in Client
        /\ \A i \in 1 .. n : R[i].playerId = me
        /\ \A i \in 1 .. n : Fits(ms[i], R[i - 1])
    BY DEF Handles
  <2> HIDE DEF R, Q, n
  <2>2. \A i \in 0 .. n + 1 : Q[i] \in Client
    BY <1>1, <1>3, <1>4, <2>1
  <2>3. \A i \in 1 .. n + 1 : Q[i].playerId = me
    BY <1>1, <1>3, <1>4, <2>1
  <2>4. \A i \in 1 .. n + 1 : Fits(ns[i], Q[i - 1])
    <3>1. ASSUME NEW i \in 1 .. n PROVE Fits(ns[i], Q[i - 1])
      <4>1. i - 1 \in 0 .. n
        BY <1>1
      <4> QED
        BY <1>1, <1>3, <2>1, <4>1
    <3>2. n + 1 - 1 = n
      BY <1>1
    <3>3. \A i \in 1 .. n + 1 : i \in 1 .. n \/ i = n + 1
      BY <1>1
    <3> QED
      BY <1>1, <1>4, <3>1, <3>2, <3>3
  <2> QED
    BY <1>1, <2>2, <2>3, <2>4 DEF Handles, Q
<1>6. \A what : AskedIn(ns, what) =
        AskedIn(ms, what) \cup (IF AskedBy(m) = what THEN {Len(ns)} ELSE {})
  BY <1>1 DEF AskedIn
<1> QED
  BY <1>1, <1>3, <1>4, <1>5, <1>6

\* The first message is handled.
LEMMA HandlesTail ==
  ASSUME NEW client, NEW me, NEW ms \in Seq(Messages), NEW m,
         Handles(client, me, ms),
         NEW new, new = Learns(m, client),
         NEW ns \in Seq(Messages), OneLess(ns, ms, m)
  PROVE  /\ Len(ms) = Len(ns) + 1
         /\ Handles(new, me, ns)
         /\ new \in Client /\ new.playerId = me
         /\ \A i \in 0 .. Len(ns) : Replayed(new, ns)[i] = Replayed(client, ms)[i + 1]
         /\ Fits(m, client)
         /\ \A what : AskedIn(ns, what) = {i \in 1 .. Len(ns) : i + 1 \in AskedIn(ms, what)}
         /\ \A what : 1 \in AskedIn(ms, what) <=> AskedBy(m) = what
<1> DEFINE R == Replayed(client, ms)
           Q == Replayed(new, ns)
           n == Len(ns)
<1>1. /\ ns \in Seq(Messages) /\ n \in Nat /\ Len(ms) = n + 1 /\ Len(ms) \in Nat
      /\ DOMAIN ms = 1 .. n + 1 /\ DOMAIN ns = 1 .. n
      /\ \A i \in 1 .. n : ns[i] = ms[i + 1]
      /\ ms[1] = m
  BY DEF OneLess
<1>2. R[0] = client /\ R[1] = new
  <2>1. 1 \in 1 .. Len(ms) /\ 1 - 1 = 0
    BY <1>1
  <2> QED
    BY <1>1, <2>1, ReplayedStep
<1>3. \A i \in 0 .. n : Q[i] = R[i + 1]
  <2>1. Continues(ns, ms, 1, n)
    BY <1>1 DEF Continues
  <2>2. Len(ns) \in Nat /\ Len(ms) \in Nat /\ n \in Nat /\ 1 \in Nat /\ new = R[1]
    BY <1>1, <1>2
  <2> HIDE DEF n
  <2> QED
    BY <2>1, <2>2, ReplayedAgain
<1>4. /\ \A i \in 0 .. n + 1 : R[i] \in Client
      /\ \A i \in 1 .. n + 1 : R[i].playerId = me
      /\ \A i \in 1 .. n + 1 : Fits(ms[i], R[i - 1])
  BY <1>1 DEF Handles
<1> HIDE DEF R, Q, n
<1>5. Handles(new, me, ns)
  <2>1. \A i \in 0 .. n : i + 1 \in 0 .. n + 1 /\ i + 1 \in 1 .. n + 1
    BY <1>1
  <2>2. \A i \in 0 .. n : Q[i] \in Client /\ Q[i].playerId = me
    BY <1>3, <1>4, <2>1
  <2>3. ASSUME NEW i \in 1 .. n PROVE Fits(ns[i], Q[i - 1])
    <3>1. i - 1 \in 0 .. n /\ i - 1 + 1 = i /\ i + 1 - 1 = i /\ i + 1 \in 1 .. n + 1
      BY <1>1
    <3>2. Fits(ms[i + 1], R[i])
      BY <1>4, <3>1
    <3> QED
      BY <1>1, <1>3, <3>1, <3>2
  <2>4. \A i \in 1 .. n : i \in 0 .. n
    BY <1>1
  <2> QED
    BY <2>2, <2>3, <2>4 DEF Handles, Q, n
<1>6. new \in Client /\ new.playerId = me /\ Fits(m, client)
  <2>1. 1 \in 0 .. n + 1 /\ 1 \in 1 .. n + 1 /\ 1 - 1 = 0
    BY <1>1
  <2>2. Fits(ms[1], R[0])
    BY <1>4, <2>1
  <2> QED
    BY <1>1, <1>2, <1>4, <2>1, <2>2
<1>7. \A what : AskedIn(ns, what) = {i \in 1 .. n : i + 1 \in AskedIn(ms, what)}
  BY <1>1 DEF AskedIn
<1>8. \A what : 1 \in AskedIn(ms, what) <=> AskedBy(m) = what
  BY <1>1 DEF AskedIn
<1> QED
  BY <1>1, <1>3, <1>5, <1>6, <1>7, <1>8 DEF R, Q, n
-----------------------------------------------------------------------------
(***************************************************************************)
(* The messages.                                                           *)
(***************************************************************************)

LEMMA SessionConstants ==
  /\ MaxPlayers \in Nat /\ MaxPlayers >= 2 /\ MaxPlayers <= 254
  /\ MaxGames \in Nat /\ MaxTurns \in Nat /\ MaxTurns >= 1
BY LobbyAssumption, SessionAssumption DEF MinNumPlayers

LEMMA MessageFacts ==
  ASSUME NEW type \in MessageTypes, NEW p \in 0 .. MaxPlayers
  PROVE  /\ Message(type, p) \in Messages
         /\ Message(type, p).type = type /\ Message(type, p).player = p
BY SessionConstants DEF Message, Messages

LEMMA LearnsFacts ==
  ASSUME NEW m \in Messages, NEW client
  PROVE  /\ m.type = "connected" =>
              Learns(m, client) = [playerId |-> m.player, copy |-> client.copy]
         /\ m.type = "gameStart" =>
              Learns(m, client) = [playerId |-> client.playerId, copy |-> NewGame(m.no, m.player)]
         /\ m.type = "success" =>
              Learns(m, client) = [playerId |-> client.playerId,
                                   copy |-> TakeTurn(client.copy, client.playerId)]
         /\ m.type = "update" =>
              Learns(m, client) = [playerId |-> client.playerId,
                                   copy |-> TakeTurn(client.copy, m.player)]
         /\ m.type \in {"takeTurn", "rejected", "error", "gameEnd"} =>
              Learns(m, client) = [playerId |-> client.playerId, copy |-> client.copy]
BY DEF Learns

LEMMA AskedByFacts ==
  ASSUME NEW m \in Messages
  PROVE  /\ m.type \in {"connected", "gameEnd"} => AskedBy(m) = "ready"
         /\ m.type \in {"rejected", "takeTurn"} => AskedBy(m) = "turn"
         /\ m.type \in {"gameStart", "success", "update", "error"} => AskedBy(m) = "none"
         /\ AskedBy(m) \in {"ready", "turn", "none"}
BY DEF AskedBy

\* Turns advance a position within its type.
LEMMA AdvanceFacts ==
  ASSUME NEW position \in Game, Exists(position), position.turns < MaxTurns
  PROVE  /\ Advance(position) \in Game /\ Exists(Advance(position))
         /\ Advance(position).turns = position.turns + 1
         /\ Advance(position).current = NextPlayer(position.current, MaxPlayers)
         /\ Advance(position).current \in 1 .. MaxPlayers
         /\ TakeTurn(position, position.current) = Advance(position)
<1>1. position.current \in 1 .. MaxPlayers /\ position.turns \in 0 .. MaxTurns
      /\ position.no \in 0 .. MaxGames
  BY SessionConstants DEF Game, Exists, NoPlayer
<1>2. NextPlayer(position.current, MaxPlayers) \in 1 .. MaxPlayers
  BY <1>1, SessionConstants DEF NextPlayer, DefaultFirstPlayer
<1>3. position.turns + 1 \in 0 .. MaxTurns
  BY <1>1, SessionConstants
<1>4. NextPlayer(position.current, MaxPlayers) \in 0 .. MaxPlayers
      /\ NextPlayer(position.current, MaxPlayers) # 0
  BY <1>2, SessionConstants
<1>5. /\ Advance(position) \in Game
      /\ Advance(position).turns = position.turns + 1
      /\ Advance(position).current = NextPlayer(position.current, MaxPlayers)
  <2> DEFINE t == position.turns + 1
             p == NextPlayer(position.current, MaxPlayers)
  <2>1. t \in 0 .. MaxTurns /\ p \in 0 .. MaxPlayers
    BY <1>3, <1>4
  <2>2. Advance(position) = [position EXCEPT !.turns = t, !.current = p]
    BY DEF Advance
  <2> HIDE DEF t, p
  <2>3. Advance(position) \in Game /\ Advance(position).turns = t /\ Advance(position).current = p
    BY <2>1, <2>2 DEF Game
  <2> QED
    BY <2>3 DEF t, p
<1> QED
  BY <1>2, <1>4, <1>5 DEF Exists, NoPlayer, TakeTurn

\* A client that goes by "me" has "position" once it has handled ms, all of which it can.
Knows(client, me, ms, position) ==
  /\ ms \in Seq(Messages)
  /\ Handles(client, me, ms)
  /\ Replayed(client, ms)[Len(ms)] = [playerId |-> me, copy |-> position]

\* ms with m after it: what it asks for, and the client after the messages before m.
OneMoreAsked(client, ns, ms, m) ==
  /\ Len(ns) = Len(ms) + 1
  /\ \A i \in 0 .. Len(ms) : Replayed(client, ns)[i] = Replayed(client, ms)[i]
  /\ \A what : AskedIn(ns, what) =
       AskedIn(ms, what) \cup (IF AskedBy(m) = what THEN {Len(ns)} ELSE {})

LEMMA KnowsMore ==
  ASSUME NEW client, NEW me \in 0 .. MaxPlayers, NEW ms, NEW m \in Messages,
         NEW position, Knows(client, me, ms, position),
         NEW new \in Game, Fits(m, [playerId |-> me, copy |-> position]),
         Learns(m, [playerId |-> me, copy |-> position]) = [playerId |-> me, copy |-> new]
  PROVE  /\ Knows(client, me, Append(ms, m), new)
         /\ OneMoreAsked(client, Append(ms, m), ms, m)
<1> DEFINE ns == Append(ms, m)
           last == [playerId |-> me, copy |-> position]
           then == [playerId |-> me, copy |-> new]
<1>1. ms \in Seq(Messages) /\ ns \in Seq(Messages) /\ OneMore(ns, ms, m)
  BY AppendTail DEF Knows
<1>2. Handles(client, me, ms) /\ last = Replayed(client, ms)[Len(ms)]
  BY DEF Knows
<1>3. then \in Client /\ then.playerId = me
  BY DEF Client
<1>4. Fits(m, last) /\ Learns(m, last) = then
  OBVIOUS
<1> HIDE DEF ns, last, then
<1>5. /\ Len(ns) = Len(ms) + 1
      /\ Handles(client, me, ns)
      /\ Replayed(client, ns)[Len(ns)] = Learns(m, last)
      /\ \A i \in 0 .. Len(ms) : Replayed(client, ns)[i] = Replayed(client, ms)[i]
      /\ \A what : AskedIn(ns, what) =
           AskedIn(ms, what) \cup (IF AskedBy(m) = what THEN {Len(ns)} ELSE {})
  BY <1>1, <1>2, <1>3, <1>4, HandlesOneMore
<1> QED
  BY <1>1, <1>4, <1>5 DEF Knows, OneMoreAsked, ns, then

LEMMA KnowsStart ==
  ASSUME NEW client, NEW me \in 0 .. MaxPlayers, NEW ms, NEW m \in Messages,
         NEW position \in Game, Knows(client, me, ms, position), m.type = "gameStart"
  PROVE  /\ NewGame(m.no, m.player) \in Game
         /\ Knows(client, me, Append(ms, m), NewGame(m.no, m.player))
         /\ OneMoreAsked(client, Append(ms, m), ms, m)
<1> DEFINE last == [playerId |-> me, copy |-> position]
<1>1. NewGame(m.no, m.player) \in Game
  BY SessionConstants DEF NewGame, Messages, Game
<1>2. Learns(m, last) = [playerId |-> me, copy |-> NewGame(m.no, m.player)]
  BY LearnsFacts
<1>3. Fits(m, last)
  BY DEF Fits
<1> QED
  BY <1>1, <1>2, <1>3, KnowsMore

LEMMA KnowsTurn ==
  ASSUME NEW client, NEW me \in 0 .. MaxPlayers, NEW ms, NEW m \in Messages,
         NEW position \in Game, Knows(client, me, ms, position),
         Exists(position), position.turns < MaxTurns, m.player = position.current,
         m.type = IF m.player = me THEN "success" ELSE "update"
  PROVE  /\ Knows(client, me, Append(ms, m), Advance(position))
         /\ OneMoreAsked(client, Append(ms, m), ms, m)
<1> DEFINE last == [playerId |-> me, copy |-> position]
<1>1. Advance(position) \in Game /\ TakeTurn(position, position.current) = Advance(position)
  BY AdvanceFacts
<1>2. Learns(m, last) = [playerId |-> me, copy |-> Advance(position)]
  BY <1>1, LearnsFacts
<1>3. Fits(m, last)
  BY DEF Fits
<1> QED
  BY <1>1, <1>2, <1>3, KnowsMore

LEMMA KnowsAsk ==
  ASSUME NEW client, NEW me \in 0 .. MaxPlayers, NEW ms, NEW m \in Messages,
         NEW position \in Game, Knows(client, me, ms, position),
         Exists(position), m.player = position.current, m.player = me,
         m.type \in {"takeTurn", "rejected"}
  PROVE  /\ Knows(client, me, Append(ms, m), position)
         /\ OneMoreAsked(client, Append(ms, m), ms, m)
<1> DEFINE last == [playerId |-> me, copy |-> position]
<1>2. Learns(m, last) = [playerId |-> me, copy |-> position]
  BY LearnsFacts
<1>3. Fits(m, last)
  BY DEF Fits
<1> QED
  BY <1>2, <1>3, KnowsMore

LEMMA KnowsNotice ==
  ASSUME NEW client, NEW me \in 0 .. MaxPlayers, NEW ms, NEW m \in Messages,
         NEW position \in Game, Knows(client, me, ms, position),
         m.type \in {"error", "gameEnd"}
  PROVE  /\ Knows(client, me, Append(ms, m), position)
         /\ OneMoreAsked(client, Append(ms, m), ms, m)
<1> DEFINE last == [playerId |-> me, copy |-> position]
<1>2. Learns(m, last) = [playerId |-> me, copy |-> position]
  BY LearnsFacts
<1>3. Fits(m, last)
  BY DEF Fits
<1> QED
  BY <1>2, <1>3, KnowsMore

-----------------------------------------------------------------------------
(***************************************************************************)
(* The players.                                                            *)
(***************************************************************************)

\* The players are those who joined and did not end; each goes by an id of its own.
LEMMA PlayerFacts ==
  ASSUME TypeOK, Seating
  PROVE  /\ PlayersOf = {c \in joined : clientIsConnected[c]}
         /\ PlayersOf \subseteq Connections
         /\ \A c \in PlayersOf : id[c] \in 1 .. MaxPlayers /\ id[c] \in 0 .. MaxPlayers
         /\ \A c, d \in PlayersOf : id[c] = id[d] => c = d
         /\ \A c \in PlayersOf : /\ id[c] - 1 \in Occupied(g) /\ g.players[id[c] - 1] = c
                                 /\ SeatsWithId(g, id, id[c]) = {id[c] - 1}
<1>1. /\ \A s \in Occupied(g) : /\ g.players[s] \in joined /\ clientIsConnected[g.players[s]]
                                /\ id[g.players[s]] = s + 1
                                /\ s \in 0 .. MaxPlayers - 1
      /\ \A c \in joined : clientIsConnected[c] =>
           id[c] \in 1 .. MaxPlayers /\ g.players[id[c] - 1] = c
      /\ joined \subseteq Connections /\ Nobody \notin Connections
  BY LobbyAssumption DEF Seating, TypeOK, Occupied, Seats
<1>2. \A c \in joined : clientIsConnected[c] =>
        id[c] - 1 \in Occupied(g) /\ g.players[id[c] - 1] = c /\ id[c] \in 1 .. MaxPlayers
  <2> TAKE c \in joined
  <2> HAVE clientIsConnected[c]
  <2>1. id[c] \in 1 .. MaxPlayers /\ g.players[id[c] - 1] = c /\ c # Nobody
    BY <1>1
  <2>2. id[c] - 1 \in 0 .. MaxPlayers - 1
    BY <2>1, SessionConstants
  <2> QED
    BY <2>1, <2>2 DEF Occupied, Seats
<1>3. PlayersOf = {c \in joined : clientIsConnected[c]}
  BY <1>1, <1>2 DEF PlayersOf
<1>4. ASSUME NEW c \in PlayersOf
      PROVE  SeatsWithId(g, id, id[c]) = {id[c] - 1}
  <2>1. id[c] - 1 \in Occupied(g) /\ g.players[id[c] - 1] = c /\ id[c] \in 1 .. MaxPlayers
    BY <1>2, <1>3
  <2>2. \A s \in Occupied(g) : id[g.players[s]] = id[c] => s = id[c] - 1
    BY <1>1, <2>1
  <2> QED
    BY <2>1, <2>2 DEF SeatsWithId
<1>5. \A c \in PlayersOf : id[c] \in 1 .. MaxPlayers /\ id[c] \in 0 .. MaxPlayers
  BY <1>2, <1>3
<1> QED
  BY <1>1, <1>2, <1>3, <1>4, <1>5

\* The players are as many as numPlayers says: as many as there are seats are all of them.
LEMMA PlayersCount ==
  ASSUME TypeOK, Seating
  PROVE  /\ IsFiniteSet(PlayersOf)
         /\ Cardinality(PlayersOf) = g.numPlayers
         /\ g.numPlayers \in Nat /\ g.numPlayers <= MaxPlayers
         /\ \A S \in SUBSET PlayersOf :
              /\ IsFiniteSet(S) /\ Cardinality(S) \in Nat
              /\ Cardinality(S) <= g.numPlayers
              /\ Cardinality(S) = MaxPlayers => S = PlayersOf /\ IsFull(g)
<1> DEFINE O == Occupied(g)
           f == [s \in O |-> g.players[s]]
<1>1. LobbyOK(g) /\ g \in Lobby /\ g.numPlayers \in 0 .. MaxPlayers
  BY DEF Seating, LobbyOK, Lobby
<1>2. IsFiniteSet(O) /\ Cardinality(O) = g.numPlayers /\ g.numPlayers \in Nat /\ MaxPlayers \in Nat
  BY <1>1, SeatsFinite, SessionConstants DEF LobbyOK, Counted
<1>3. \A s, t \in O : f[s] = f[t] => s = t
  <2>1. \A s \in O : id[g.players[s]] = s + 1 /\ s \in Int
    BY SessionConstants DEF Seating, Occupied, Seats
  <2> QED
    BY <2>1
<1>4. f \in Bijection(O, PlayersOf)
  BY <1>3 DEF Bijection, Injection, Surjection, IsInjective, PlayersOf
<1>5. IsFiniteSet(PlayersOf) /\ Cardinality(PlayersOf) = g.numPlayers
  BY <1>2, <1>4, FS_Bijection DEF ExistsBijection
<1>6. ASSUME NEW S \in SUBSET PlayersOf
      PROVE  /\ IsFiniteSet(S) /\ Cardinality(S) \in Nat
             /\ Cardinality(S) <= g.numPlayers
             /\ Cardinality(S) = MaxPlayers => S = PlayersOf /\ IsFull(g)
  <2>1. /\ IsFiniteSet(S) /\ Cardinality(S) <= g.numPlayers
        /\ Cardinality(S) = g.numPlayers => S = PlayersOf
    BY <1>5, FS_Subset
  <2>2. Cardinality(S) \in Nat
    BY <2>1, FS_CardinalityType
  <2> QED
    BY <1>1, <1>2, <2>1, <2>2 DEF IsFull
<1> QED
  BY <1>1, <1>2, <1>5, <1>6

\* A lobby that plays is full, and all its players are ready.
LEMMA AllReady ==
  ASSUME TypeOK, Seating, GameInStep
  PROVE  /\ ReadyPlayers \in SUBSET PlayersOf /\ IsFiniteSet(ReadyPlayers)
         /\ g.numReady = Cardinality(ReadyPlayers) /\ g.numReady \in Nat
         /\ g.numReady <= g.numPlayers
         /\ g.isPlayingGame => IsFull(g) /\ \A c \in PlayersOf : clientIsReady[c]
<1>1. ReadyPlayers \in SUBSET PlayersOf
  BY DEF ReadyPlayers
<1> QED
  BY <1>1, PlayersCount DEF GameInStep, ReadyPlayers

\* What a player that is there knows in the end.
LEMMA PlayerKnows ==
  ASSUME SessionInv, NEW c \in PlayersOf, ~ closed[c]
  PROVE  /\ LastCopy(c) \in Game
         /\ Knows(ClientOf(c), id[c], toClient[c], LastCopy(c))
         /\ g.isPlayingGame => LastCopy(c) = game
<1> DEFINE R == Replayed(ClientOf(c), toClient[c])
           n == Len(toClient[c])
<1>1. /\ c \in Connections /\ toClient[c] \in Seq(Messages) /\ n \in Nat
      /\ Informed(c) /\ (g.isPlayingGame => LastCopy(c) = game)
  BY PlayerFacts DEF SessionInv, TypeOK, CopyIsExact
<1>2. /\ \A i \in 0 .. n : R[i] \in Client
      /\ \A i \in 1 .. n : R[i].playerId = id[c]
      /\ Handles(ClientOf(c), id[c], toClient[c])
  BY <1>1 DEF Informed, Handles
<1>3. R[0] = ClientOf(c)
  BY <1>1, ReplayedStep
<1>4. R[n].playerId = id[c]
  <2>1. CASE n = 0
    <3>1. playerId[c] = id[c]
      BY <1>1, <2>1 DEF Informed
    <3> QED
      BY <1>3, <2>1, <3>1 DEF ClientOf
  <2>2. CASE n # 0
    <3>1. n \in 1 .. n
      BY <1>1, <2>2
    <3> QED
      BY <1>2, <3>1
  <2> QED
    BY <2>1, <2>2
<1>5. R[n] \in Client /\ R[n].copy = LastCopy(c)
  BY <1>1, <1>2 DEF LastCopy, Replay
<1>6. R[n] = [playerId |-> id[c], copy |-> LastCopy(c)] /\ LastCopy(c) \in Game
  BY <1>4, <1>5 DEF Client
<1> QED
  BY <1>1, <1>2, <1>6 DEF Knows

\* What a step leaves alone of c, and of its exchange with the lobby.
SameClient(c) ==
  /\ id'[c] = id[c] /\ playerId'[c] = playerId[c] /\ copy'[c] = copy[c]
  /\ prompt'[c] = prompt[c] /\ closed'[c] = closed[c]

SameExchange(c) ==
  /\ SameClient(c)
  /\ toClient'[c] = toClient[c] /\ toServer'[c] = toServer[c]

LEMMA SameClientFacts ==
  ASSUME NEW c, SameClient(c)
  PROVE  ClientOf(c)' = ClientOf(c)
BY DEF SameClient, ClientOf

\* c stays informed by what is appended to its channel.
LEMMA KeepsInformed ==
  ASSUME NEW c, NEW position, Knows(ClientOf(c), id[c], toClient'[c], position),
         SameClient(c), toClient[c] \in Seq(Messages), Len(toClient'[c]) >= Len(toClient[c]),
         Informed(c), \A i \in DOMAIN toServer'[c] : toServer'[c][i].player = id[c]
  PROVE  Informed(c)' /\ LastCopy(c)' = position
<1>1. ClientOf(c)' = ClientOf(c)
  BY SameClientFacts
<1>2. LastCopy(c)' = position
  BY <1>1 DEF Knows, LastCopy, Replay
<1>3. toClient[c] # <<>> => toClient'[c] # <<>>
  BY DEF Knows
<1>4. Handles(ClientOf(c)', id'[c], toClient'[c])
  BY <1>1 DEF Knows, SameClient
<1>5. Informed(c)'
  BY <1>3, <1>4 DEF Informed, SameClient
<1> QED
  BY <1>2, <1>5

LEMMA SameInformed ==
  ASSUME NEW c, SameExchange(c)
  PROVE  /\ Informed(c) => Informed(c)'
         /\ LastCopy(c)' = LastCopy(c)
<1>1. ClientOf(c)' = ClientOf(c)
  BY SameClientFacts DEF SameExchange
<1>2. Replay(c)' = Replay(c)
  BY <1>1 DEF Replay, SameExchange
<1>3. LastCopy(c)' = LastCopy(c)
  BY <1>2 DEF LastCopy, SameExchange
<1>4. Handles(ClientOf(c), id[c], toClient[c]) => Handles(ClientOf(c)', id'[c], toClient'[c])
  BY <1>1 DEF SameExchange, SameClient
<1>5. Informed(c) => Informed(c)'
  BY <1>4 DEF Informed, SameExchange, SameClient
<1> QED
  BY <1>3, <1>5

LEMMA SameInStep ==
  ASSUME NEW c, SameExchange(c), InStep(c), game' = game,
         g'.isPlayingGame = g.isPlayingGame, clientIsReady'[c] = clientIsReady[c]
  PROVE  InStep(c)'
<1>1. Replay(c)' = Replay(c)
  BY SameClientFacts DEF Replay, SameExchange
<1>2. \A i : SeesGame(c, i) => SeesGame(c, i)'
  BY <1>1 DEF SeesGame, SameExchange
<1>3. NothingIsSent(c)' = NothingIsSent(c) /\ OnlyTurns(c)' = OnlyTurns(c)
  BY DEF NothingIsSent, OnlyTurns, SameExchange
<1>4. Idle(c) => Idle(c)'
  BY <1>3 DEF Idle, SameExchange, SameClient
<1>5. IsToMove(c) => IsToMove(c)'
  BY <1>2, <1>3 DEF IsToMove, SameExchange, SameClient
<1>6. IsToBeReady(c) => IsToBeReady(c)'
  BY <1>3 DEF IsToBeReady, SameExchange, SameClient
<1> QED
  BY <1>4, <1>5, <1>6 DEF InStep, SameExchange, SameClient

\* After the messages of a start or of a turn, the one to move is asked.
LEMMA AskedNow ==
  ASSUME NEW c, NEW ms, id[c] \in 0 .. MaxPlayers, SameClient(c), prompt[c] = "none",
         g'.isPlayingGame, game' \in Game, Exists(game)',
         Knows(ClientOf(c), id[c], ms, game'),
         AskedIn(ms, "turn") = {}, AskedIn(ms, "ready") = {},
         toServer'[c] = <<>>,
         NEW m \in Messages, m.type \in {"takeTurn", "rejected"}, m.player = game'.current,
         toClient'[c] = IF id[c] = game'.current THEN Append(ms, m) ELSE ms
  PROVE  /\ InStep(c)'
         /\ Knows(ClientOf(c), id[c], toClient'[c], game')
         /\ Len(toClient'[c]) >= Len(ms)
<1>1. ClientOf(c)' = ClientOf(c) /\ id'[c] = id[c] /\ prompt'[c] = "none"
  BY SameClientFacts DEF SameClient
<1>2. ms \in Seq(Messages)
  BY DEF Knows
<1>3. CASE id[c] # game'.current
  <2>1. Idle(c)'
    BY <1>1, <1>3 DEF Idle, NothingIsSent
  <2> QED
    BY <1>1, <1>2, <1>3, <2>1 DEF InStep
<1>4. CASE id[c] = game'.current
  <2> DEFINE ns == Append(ms, m)
  <2>1. m.player = id[c]
    BY <1>4
  <2>2. Exists(game') /\ game' \in Game
    BY DEF Exists
  <2>3. /\ Knows(ClientOf(c), id[c], ns, game')
        /\ OneMoreAsked(ClientOf(c), ns, ms, m)
    BY <1>4, <2>1, <2>2, KnowsAsk
  <2>4. AskedBy(m) = "turn"
    BY AskedByFacts
  <2>5. toClient'[c] = ns
    BY <1>4
  <2> HIDE DEF ns
  <2>6. /\ Len(ns) = Len(ms) + 1 /\ Len(ms) \in Nat
        /\ ns \in Seq(Messages) /\ DOMAIN ns = 1 .. Len(ns)
        /\ AskedIn(ns, "turn") = {Len(ns)} /\ AskedIn(ns, "ready") = {}
    <3>1. AskedIn(ns, "turn") = {Len(ns)}
      BY <2>3, <2>4 DEF OneMoreAsked
    <3>2. AskedIn(ns, "ready") = {}
      BY <2>3, <2>4 DEF OneMoreAsked
    <3>3. ns \in Seq(Messages) /\ Len(ns) = Len(ms) + 1
      BY <2>3 DEF OneMoreAsked, Knows
    <3> QED
      BY <1>2, <3>1, <3>2, <3>3
  <2>7. Replay(c)' = Replayed(ClientOf(c), ns)
    BY <1>1, <2>5 DEF Replay
  <2>8. Replayed(ClientOf(c), ns)[Len(ns)].copy = game'
    BY <2>3 DEF Knows
  <2>9. PICK k \in DOMAIN ns : k = Len(ns)
    BY <2>6
  <2>10. SeesGame(c, k)'
    <3>1. \A j \in k .. Len(ns) : j = k
      BY <2>6, <2>9
    <3> QED
      BY <2>5, <2>7, <2>8, <2>9, <3>1 DEF SeesGame
  <2>11. AskedIn(ns, "turn") = {k} /\ k \in DOMAIN toClient'[c]
    BY <2>5, <2>6, <2>9
  <2>12. IsToMove(c)'
    BY <1>1, <2>5, <2>6, <2>10, <2>11 DEF IsToMove
  <2>13. InStep(c)'
    BY <1>1, <1>4, <2>12 DEF InStep
  <2> QED
    BY <2>3, <2>5, <2>6, <2>13
<1> QED
  BY <1>3, <1>4

\* After the end of a game, told last, everyone is to be ready.
LEMMA EndedNow ==
  ASSUME NEW c, NEW ms, NEW position \in Game, id[c] \in 0 .. MaxPlayers, SameClient(c),
         ~ g'.isPlayingGame, ~ clientIsReady'[c],
         Knows(ClientOf(c), id[c], ms, position),
         AskedIn(ms, "ready") = {}, prompt[c] # "ready", OnlyTurns(c)',
         NEW winner \in 0 .. MaxPlayers,
         toClient'[c] = Append(ms, Message("gameEnd", winner))
  PROVE  /\ InStep(c)'
         /\ Knows(ClientOf(c), id[c], toClient'[c], position)
         /\ Len(toClient'[c]) >= Len(ms)
<1> DEFINE m == Message("gameEnd", winner)
           ns == Append(ms, m)
<1>1. m \in Messages /\ m.type = "gameEnd"
  BY MessageFacts DEF MessageTypes
<1> HIDE DEF m
<1>2. /\ Knows(ClientOf(c), id[c], ns, position)
      /\ OneMoreAsked(ClientOf(c), ns, ms, m)
  BY <1>1, KnowsNotice
<1>3. AskedBy(m) = "ready"
  BY <1>1, AskedByFacts
<1>4. toClient'[c] = ns
  BY DEF m
<1> HIDE DEF ns
<1>5. /\ Len(ns) = Len(ms) + 1 /\ Len(ms) \in Nat
      /\ ns \in Seq(Messages) /\ DOMAIN ns = 1 .. Len(ns)
      /\ AskedIn(ns, "ready") = {Len(ns)} /\ AskedIn(ns, "turn") = AskedIn(ms, "turn")
  BY <1>2, <1>3 DEF OneMoreAsked, Knows
<1>6. \A j \in AskedIn(ns, "turn") : j < Len(ns)
  <2>1. ms \in Seq(Messages)
    BY DEF Knows
  <2>2. \A j \in AskedIn(ms, "turn") : j \in 1 .. Len(ms)
    BY <2>1 DEF AskedIn
  <2> QED
    BY <1>5, <2>2
<1>7. Len(ns) \in DOMAIN ns
  BY <1>5
<1>8. IsToBeReady(c)'
  BY <1>4, <1>5, <1>6, <1>7 DEF IsToBeReady, SameClient
<1>9. InStep(c)'
  BY <1>8 DEF InStep
<1>10. Knows(ClientOf(c), id[c], toClient'[c], position)
  BY <1>2, <1>4
<1>11. Len(toClient'[c]) >= Len(ms)
  BY <1>4, <1>5
<1> QED
  BY <1>9, <1>10, <1>11

\* Who has left is not told, and is where the lobby has it if it owes no answers.
LEMMA GoneInStep ==
  ASSUME NEW c, closed'[c], toClient'[c] = <<>>, prompt'[c] = "none", OnlyTurns(c)',
         g'.isPlayingGame \/ clientIsReady'[c] => toServer'[c] = <<>>
  PROVE  InStep(c)'
<1>1. NothingIsSent(c)'
  BY DEF NothingIsSent, AskedIn
<1> QED
  BY <1>1 DEF InStep, Idle, IsToMove, IsToBeReady
-----------------------------------------------------------------------------
(***************************************************************************)
(* Steps of the lobby.                                                     *)
(***************************************************************************)

\* What is shown of player d in each step that the lobby makes.
PlayerStep(d) ==
  /\ InStep(d)'
  /\ IF closed[d]
     THEN toClient'[d] = toClient[d]
     ELSE \E position \in Game :
            /\ Knows(ClientOf(d), id[d], toClient'[d], position)
            /\ Len(toClient'[d]) >= Len(toClient[d])
            /\ g'.isPlayingGame => position = game'

LEMMA SameChannel ==
  ASSUME NEW c, SameClient(c), toClient'[c] = toClient[c], Informed(c),
         \A i \in DOMAIN toServer'[c] : toServer'[c][i].player = id[c]
  PROVE  Informed(c)'
<1>1. ClientOf(c)' = ClientOf(c)
  BY SameClientFacts
<1>2. Handles(ClientOf(c)', id'[c], toClient'[c])
  BY <1>1 DEF Informed, SameClient
<1> QED
  BY <1>2 DEF Informed, SameClient

LEMMA Assemble ==
  ASSUME SessionInv, TypeOK', Seating', GameInStep',
         UNCHANGED <<id, playerId, copy, prompt, closed>>,
         \A d \in PlayersOf' : d \in PlayersOf /\ PlayerStep(d),
         \A d \in Connections : d \notin PlayersOf' => toClient'[d] = toClient[d],
         \A d \in Connections : Outside(d)',
         \A d \in Connections : \A i \in DOMAIN toServer'[d] : toServer'[d][i].player = id[d]
  PROVE  SessionInv'
<1>1. \A d \in Connections : /\ SameClient(d) /\ Informed(d)
                             /\ toClient[d] \in Seq(Messages)
  BY DEF SameClient, SessionInv, TypeOK
<1>2. PlayersOf \subseteq Connections
  BY PlayerFacts DEF SessionInv
<1>3. ASSUME NEW d \in PlayersOf', ~ closed[d]
      PROVE  Informed(d)' /\ (g'.isPlayingGame => LastCopy(d)' = game')
  <2>1. d \in PlayersOf /\ PlayerStep(d) /\ d \in Connections
    BY <1>2
  <2>2. PICK position \in Game :
          /\ Knows(ClientOf(d), id[d], toClient'[d], position)
          /\ Len(toClient'[d]) >= Len(toClient[d])
          /\ g'.isPlayingGame => position = game'
    BY <1>3, <2>1 DEF PlayerStep
  <2>3. Informed(d)' /\ LastCopy(d)' = position
    BY <1>1, <2>1, <2>2, KeepsInformed
  <2> QED
    BY <2>2, <2>3
<1>4. ASSUME NEW d \in Connections
      PROVE  Informed(d)'
  <2>1. CASE d \in PlayersOf' /\ ~ closed[d]
    BY <1>3, <2>1
  <2>2. CASE ~ (d \in PlayersOf' /\ ~ closed[d])
    <3>1. toClient'[d] = toClient[d]
      BY <2>2 DEF PlayerStep
    <3> QED
      BY <1>1, <3>1, SameChannel
  <2> QED
    BY <2>1, <2>2
<1>5. CopyIsExact'
  BY <1>3 DEF CopyIsExact
<1>6. \A d \in PlayersOf' : InStep(d)'
  BY DEF PlayerStep
<1> QED
  BY <1>4, <1>5, <1>6 DEF SessionInv

\* The lobby reads a message of c.
ReadFrame(c) ==
  /\ toServer' = [toServer EXCEPT ![c] = Tail(toServer[c])]
  /\ UNCHANGED <<joined, id, clientIsConnected, playerId, copy, prompt, closed>>

LEMMA Heard ==
  ASSUME SessionInv, NEW c \in Connections, NEW type, Reads(c, type)
  PROVE  /\ c \in PlayersOf /\ InStep(c)
         /\ toServer[c] \in Seq(Answers) /\ toServer[c] # <<>> /\ toServer[c][1].type = type
         /\ toServer'[c] = Tail(toServer[c])
         /\ ReadFrame(c)
<1>1. c \in PlayersOf
  BY PlayerFacts DEF Reads, SessionInv
<1>2. InStep(c) /\ toServer \in [Connections -> Seq(Answers)]
  BY <1>1 DEF SessionInv, TypeOK
<1>3. toServer[c] # <<>> /\ Head(toServer[c]).type = type
  BY DEF Reads
<1>4. toServer[c] \in Seq(Answers) /\ Head(toServer[c]) = toServer[c][1]
  BY <1>2, <1>3
<1>5. ReadFrame(c)
  BY DEF Reads, ReadFrame, clientVars
<1>6. toServer'[c] = Tail(toServer[c])
  BY <1>2, <1>5 DEF ReadFrame
<1> QED
  BY <1>1, <1>2, <1>3, <1>4, <1>5, <1>6

LEMMA ReadAssemble ==
  ASSUME SessionInv, NEW c \in PlayersOf, toServer[c] # <<>>, ReadFrame(c),
         LobbyOK(g'), g'.players = g.players, game' \in Game,
         clientIsReady' \in [Connections -> BOOLEAN], toClient' \in [Connections -> Seq(Messages)],
         GameInStep',
         \A d \in PlayersOf : PlayerStep(d),
         \A d \in Connections : d \notin PlayersOf =>
           /\ toClient'[d] = toClient[d]
           /\ d \notin joined => clientIsReady'[d] = clientIsReady[d]
  PROVE  SessionInv'
<1>1. /\ TypeOK /\ Seating /\ c \in Connections
      /\ PlayersOf = {d \in joined : clientIsConnected[d]}
  BY PlayerFacts DEF SessionInv
<1>2. /\ UNCHANGED <<joined, id, clientIsConnected, playerId, copy, prompt, closed>>
      /\ toServer' = [toServer EXCEPT ![c] = Tail(toServer[c])]
      /\ toServer \in [Connections -> Seq(Answers)]
  BY <1>1 DEF ReadFrame, TypeOK
<1>3. toServer[c] \in Seq(Answers) /\ Tail(toServer[c]) \in Seq(Answers)
  BY <1>1, <1>2
<1>4. TypeOK'
  <2>1. g' \in Lobby
    BY DEF LobbyOK
  <2>2. toServer' \in [Connections -> Seq(Answers)]
    BY <1>2, <1>3
  <2> QED
    BY <1>1, <1>2, <2>1, <2>2 DEF TypeOK
<1>5. Seating' /\ PlayersOf' = PlayersOf
  BY <1>1, <1>2 DEF Seating, PlayersOf, Occupied
<1>6. ASSUME NEW d \in Connections, NEW i \in DOMAIN toServer'[d]
      PROVE  toServer'[d][i].player = id[d]
  <2>1. \A j \in DOMAIN toServer[d] : toServer[d][j].player = id[d]
    BY DEF SessionInv, Informed
  <2>2. CASE d = c
    <3>1. toServer'[d] = Tail(toServer[c])
      BY <1>1, <1>2, <2>2
    <3>2. i + 1 \in DOMAIN toServer[c] /\ Tail(toServer[c])[i] = toServer[c][i + 1]
      BY <1>3, <1>6, <3>1
    <3> QED
      BY <2>1, <2>2, <3>1, <3>2
  <2>3. CASE d # c
    BY <1>1, <1>2, <1>6, <2>1, <2>3
  <2> QED
    BY <2>2, <2>3
<1>7. ASSUME NEW d \in Connections
      PROVE  Outside(d)'
  <2>1. Outside(d)
    BY DEF SessionInv
  <2>2. closed[d] => toClient'[d] = toClient[d]
    BY DEF PlayerStep
  <2>3. CASE d = c
    <3>1. d \in joined' /\ clientIsConnected'[d]
      BY <1>1, <1>2, <2>3
    <3> QED
      BY <1>2, <2>1, <2>2, <3>1 DEF Outside
  <2>4. CASE d # c
    <3>1. toServer'[d] = toServer[d]
      BY <1>1, <1>2, <2>4
    <3>2. d \notin joined => d \notin PlayersOf
      BY <1>1
    <3> QED
      BY <1>2, <2>1, <2>2, <3>1, <3>2 DEF Outside
  <2> QED
    BY <2>3, <2>4
<1> QED
  BY <1>2, <1>4, <1>5, <1>6, <1>7, Assemble

\* What Sent sends.
LEMMA SentFacts ==
  ASSUME NEW ms, toClient' = Sent(ms)
  PROVE  /\ \A d \in Connections : toClient'[d] =
              IF d \in joined' /\ clientIsConnected'[d] /\ ~ closed[d]
              THEN toClient[d] \o ms[d] ELSE toClient[d]
         /\ (\A d \in Connections : toClient'[d] \in Seq(Messages)) =>
              toClient' \in [Connections -> Seq(Messages)]
BY DEF Sent

\* Where a player is during a game, and before it.
LEMMA WhenPlaying ==
  ASSUME NEW c, InStep(c), g.isPlayingGame
  PROVE  /\ id[c] = game.current => IsToMove(c)
         /\ id[c] # game.current => Idle(c)
         /\ AskedIn(toClient[c], "ready") = {} \/ closed[c]
         /\ prompt[c] # "ready" \/ closed[c]
         /\ OnlyTurns(c)
         /\ toServer[c] # <<>> =>
              /\ id[c] = game.current /\ prompt[c] = "none" /\ NothingIsSent(c)
              /\ Len(toServer[c]) = 1
<1>1. CASE id[c] = game.current
  <2>1. IsToMove(c)
    BY <1>1 DEF InStep
  <2>2. OnlyTurns(c)
    BY <2>1 DEF IsToMove, OnlyTurns
  <2> QED
    BY <1>1, <2>1, <2>2 DEF IsToMove, NothingIsSent
<1>2. CASE id[c] # game.current
  <2>1. Idle(c)
    BY <1>2 DEF InStep
  <2> QED
    BY <1>2, <2>1 DEF Idle, NothingIsSent, OnlyTurns
<1> QED
  BY <1>1, <1>2

LEMMA WhenWaiting ==
  ASSUME NEW c, InStep(c), ~ g.isPlayingGame
  PROVE  /\ clientIsReady[c] => Idle(c)
         /\ toServer[c] # <<>> => ~ clientIsReady[c] /\ IsToBeReady(c)
BY DEF InStep, Idle

\* The answer of a player that is to be ready is the last it sends.
LEMMA ReadyIsLast ==
  ASSUME NEW c, IsToBeReady(c), toServer[c] \in Seq(Answers), toServer[c] # <<>>,
         toServer[c][1].type = "ready"
  PROVE  Tail(toServer[c]) = <<>> /\ prompt[c] = "none" /\ NothingIsSent(c)
<1>1. Len(toServer[c]) \in Nat \ {0} /\ DOMAIN toServer[c] = 1 .. Len(toServer[c])
  OBVIOUS
<1>2. 1 \in DOMAIN toServer[c]
  BY <1>1
<1>3. ~ OnlyTurns(c)
  BY <1>2 DEF OnlyTurns
<1>4. PICK n \in DOMAIN toServer[c] :
         n = Len(toServer[c]) /\ \A i \in 1 .. n - 1 : toServer[c][i].type = "takeTurn"
  BY <1>3 DEF IsToBeReady
<1>5. Len(toServer[c]) = 1
  <2>1. 1 \notin 1 .. n - 1
    BY <1>4
  <2>2. n \in Nat /\ n >= 1
    BY <1>1
  <2>3. n = 1
    BY <2>1, <2>2
  <2> QED
    BY <1>4, <2>3
<1>6. Tail(toServer[c]) = <<>>
  <2>1. Tail(toServer[c]) \in Seq(Answers) /\ Len(Tail(toServer[c])) = Len(toServer[c]) - 1
    BY HeadTailProperties
  <2>2. Len(Tail(toServer[c])) \notin Nat \ {0}
    BY <1>5, <2>1
  <2> QED
    BY <2>1, <2>2, EmptySeq
<1> QED
  BY <1>3, <1>6 DEF IsToBeReady

\* A turn of a game that is over is read, and what is sent asks for nothing.
LEMMA TurnIsOld ==
  ASSUME NEW c, IsToBeReady(c), toServer[c] \in Seq(Answers), toServer[c] # <<>>,
         toServer[c][1].type = "takeTurn", toServer'[c] = Tail(toServer[c]), SameClient(c),
         toClient[c] \in Seq(Messages), toClient'[c] \in Seq(Messages),
         Len(toClient'[c]) >= Len(toClient[c]),
         \A what \in {"turn", "ready"} : AskedIn(toClient'[c], what) = AskedIn(toClient[c], what)
  PROVE  IsToBeReady(c)'
<1> DEFINE t == toServer[c]
           u == toServer'[c]
<1>1. /\ Len(t) \in Nat \ {0} /\ DOMAIN t = 1 .. Len(t)
      /\ Len(u) = Len(t) - 1 /\ DOMAIN u = 1 .. Len(t) - 1
      /\ \A i \in 1 .. Len(t) - 1 : u[i] = t[i + 1]
  OBVIOUS
<1>2. NothingIsSent(c) => NothingIsSent(c)'
  BY DEF NothingIsSent
<1>3. OnlyTurns(c) => OnlyTurns(c)'
  <2>1. SUFFICES ASSUME OnlyTurns(c), NEW i \in DOMAIN u PROVE u[i].type = "takeTurn"
    BY DEF OnlyTurns
  <2>2. i + 1 \in DOMAIN t /\ u[i] = t[i + 1]
    BY <1>1
  <2> HIDE DEF t, u
  <2> QED
    BY <2>1, <2>2 DEF OnlyTurns, t, u
<1>4. DOMAIN toClient[c] \subseteq DOMAIN toClient'[c]
  OBVIOUS
<1>5. CASE \E n \in DOMAIN t :
              /\ n = Len(t) /\ t[n].type = "ready"
              /\ \A i \in 1 .. n - 1 : t[i].type = "takeTurn"
  <2>1. PICK n \in DOMAIN t : /\ n = Len(t) /\ t[n].type = "ready"
                              /\ \A i \in 1 .. n - 1 : t[i].type = "takeTurn"
    BY <1>5
  <2>2. n # 1
    BY <2>1
  <2>3. n - 1 \in DOMAIN u /\ n - 1 = Len(u) /\ u[n - 1] = t[n]
    BY <1>1, <2>1, <2>2
  <2>4. \A i \in 1 .. n - 1 - 1 : u[i].type = "takeTurn"
    <3> TAKE i \in 1 .. n - 1 - 1
    <3>1. i + 1 \in 1 .. n - 1 /\ u[i] = t[i + 1]
      BY <1>1, <2>1
    <3> QED
      BY <2>1, <3>1
  <2>5. PICK k \in DOMAIN u : k = n - 1
    BY <2>3
  <2>6. k = Len(u) /\ u[k].type = "ready" /\ \A i \in 1 .. k - 1 : u[i].type = "takeTurn"
    BY <2>1, <2>3, <2>4, <2>5
  <2>7. ~ OnlyTurns(c)
    BY <2>1 DEF OnlyTurns
  <2>8. prompt[c] = "none" /\ NothingIsSent(c)
    BY <2>7 DEF IsToBeReady
  <2>9. prompt'[c] = "none" /\ NothingIsSent(c)'
    BY <1>2, <2>8 DEF SameClient
  <2> HIDE DEF t, u
  <2> QED
    BY <2>6, <2>9 DEF IsToBeReady, u
<1>6. CASE OnlyTurns(c)
  <2>1. OnlyTurns(c)' /\ prompt'[c] = prompt[c] /\ closed'[c] = closed[c]
    BY <1>3, <1>6 DEF SameClient
  <2>2. CASE prompt[c] = "ready" /\ NothingIsSent(c)
    BY <1>2, <2>1, <2>2 DEF IsToBeReady
  <2>3. CASE closed[c]
    BY <2>1, <2>3 DEF IsToBeReady
  <2>4. CASE /\ prompt[c] # "ready"
             /\ \E k \in DOMAIN toClient[c] :
                  AskedIn(toClient[c], "ready") = {k} /\ \A j \in AskedIn(toClient[c], "turn") : j < k
    <3>1. \E k \in DOMAIN toClient'[c] :
             AskedIn(toClient'[c], "ready") = {k} /\ \A j \in AskedIn(toClient'[c], "turn") : j < k
      BY <1>4, <2>4
    <3> QED
      BY <2>1, <2>4, <3>1 DEF IsToBeReady
  <2>5. ~ \E n \in DOMAIN t : t[n].type = "ready"
    BY <1>6 DEF OnlyTurns
  <2> QED
    BY <2>2, <2>3, <2>4, <2>5 DEF IsToBeReady
<1> HIDE DEF t, u
<1> QED
  BY <1>5, <1>6 DEF IsToBeReady, t

\* Player d, of whom nothing changes.
LEMMA StillStep ==
  ASSUME SessionInv, NEW d \in PlayersOf, SameExchange(d), game' = game,
         g'.isPlayingGame = g.isPlayingGame, clientIsReady'[d] = clientIsReady[d]
  PROVE  PlayerStep(d)
<1>1. InStep(d)'
  BY SameInStep DEF SessionInv
<1>2. ASSUME ~ closed[d]
      PROVE  /\ LastCopy(d) \in Game
             /\ Knows(ClientOf(d), id[d], toClient'[d], LastCopy(d))
             /\ g'.isPlayingGame => LastCopy(d) = game'
  BY <1>2, PlayerKnows DEF SameExchange
<1>3. toClient[d] \in Seq(Messages) /\ toClient'[d] = toClient[d]
  BY PlayerFacts DEF SessionInv, TypeOK, SameExchange
<1>4. Len(toClient'[d]) >= Len(toClient[d])
  BY <1>3
<1> QED
  BY <1>1, <1>2, <1>3, <1>4 DEF PlayerStep

\* One more player is ready.
LEMMA OneMoreReady ==
  ASSUME SessionInv, NEW c \in PlayersOf, ~ clientIsReady[c],
         clientIsReady' = [clientIsReady EXCEPT ![c] = TRUE], PlayersOf' = PlayersOf
  PROVE  /\ ReadyPlayers' = ReadyPlayers \cup {c}
         /\ ReadyPlayers' \in SUBSET PlayersOf
         /\ Cardinality(ReadyPlayers') = g.numReady + 1
         /\ CountReady(g).numReady = g.numReady + 1
         /\ g.numReady + 1 = MaxPlayers =>
              CanStart(CountReady(g)) /\ ReadyPlayers' = PlayersOf
         /\ CanStart(CountReady(g)) => g.numReady + 1 = MaxPlayers
<1>1. /\ TypeOK /\ Seating /\ GameInStep /\ PlayersOf \subseteq Connections
      /\ g \in Lobby /\ clientIsReady \in [Connections -> BOOLEAN]
  BY PlayerFacts DEF SessionInv, TypeOK
<1>2. /\ IsFiniteSet(ReadyPlayers) /\ g.numReady = Cardinality(ReadyPlayers) /\ g.numReady \in Nat
      /\ ReadyPlayers \in SUBSET PlayersOf
  BY <1>1, AllReady
<1>3. ReadyPlayers' = ReadyPlayers \cup {c} /\ c \notin ReadyPlayers
  BY <1>1 DEF ReadyPlayers
<1>4. Cardinality(ReadyPlayers \cup {c}) = g.numReady + 1
  BY <1>2, <1>3, FS_AddElement
<1>5. ReadyPlayers \cup {c} \in SUBSET PlayersOf
  BY <1>2
<1>6. /\ Cardinality(ReadyPlayers \cup {c}) <= g.numPlayers
      /\ Cardinality(ReadyPlayers \cup {c}) = MaxPlayers =>
           ReadyPlayers \cup {c} = PlayersOf /\ IsFull(g)
      /\ g.numPlayers <= MaxPlayers /\ g.numPlayers \in Nat
  BY <1>1, <1>5, PlayersCount
<1>7. (g.numReady + 1) % 256 = g.numReady + 1
  BY <1>2, <1>4, <1>6, SessionConstants
<1>8. CountReady(g).numReady = g.numReady + 1 /\ CountReady(g).numPlayers = g.numPlayers
  BY <1>1, <1>7 DEF CountReady, Lobby
<1>9. ReadyPlayers' \in SUBSET PlayersOf /\ Cardinality(ReadyPlayers') = g.numReady + 1
  BY <1>3, <1>4, <1>5
<1>10. g.numReady + 1 = MaxPlayers => CanStart(CountReady(g)) /\ ReadyPlayers' = PlayersOf
  BY <1>3, <1>4, <1>6, <1>8 DEF CanStart, AllPlayersAreReady, IsFull
<1>11. CanStart(CountReady(g)) => g.numReady + 1 = MaxPlayers
  BY <1>8 DEF CanStart, AllPlayersAreReady, IsFull
<1> QED
  BY <1>3, <1>8, <1>9, <1>10, <1>11

LEMMA OthersSame ==
  ASSUME SessionInv, NEW c, ReadFrame(c), NEW d \in Connections
  PROVE  /\ SameClient(d)
         /\ d # c => toServer'[d] = toServer[d]
         /\ d # c /\ toClient'[d] = toClient[d] => SameExchange(d)
<1>1. toServer \in [Connections -> Seq(Answers)]
  BY DEF SessionInv, TypeOK
<1> QED
  BY <1>1 DEF ReadFrame, SameClient, SameExchange

\* What Outside says of players.
LEMMA PlayerIsIn ==
  ASSUME SessionInv, NEW d \in PlayersOf
  PROVE  /\ d \in Connections /\ d \in joined /\ clientIsConnected[d]
         /\ closed[d] => prompt[d] = "none" /\ toClient[d] = <<>>
         /\ id[d] \in 1 .. MaxPlayers /\ id[d] \in 0 .. MaxPlayers
         /\ toClient[d] \in Seq(Messages) /\ toServer[d] \in Seq(Answers)
         /\ InStep(d)
<1>1. d \in Connections /\ d \in joined /\ clientIsConnected[d] /\ id[d] \in 1 .. MaxPlayers
      /\ id[d] \in 0 .. MaxPlayers
  BY PlayerFacts DEF SessionInv
<1>2. Outside(d) /\ InStep(d)
  BY <1>1 DEF SessionInv
<1>3. toClient[d] \in Seq(Messages) /\ toServer[d] \in Seq(Answers)
  BY <1>1 DEF SessionInv, TypeOK
<1> QED
  BY <1>1, <1>2, <1>3 DEF Outside

\* One message sent to a channel is appended to it.
LEMMA OneSent ==
  ASSUME NEW ms \in Seq(Messages)
  PROVE  /\ ms \o <<>> = ms
         /\ \A m \in Messages : ms \o <<m>> = Append(ms, m)
         /\ \A m, n \in Messages : ms \o (<<m>> \o <<n>>) = Append(Append(ms, m), n)
         /\ \A m \in Messages : ms \o (<<m>> \o <<>>) = Append(ms, m)
         /\ \A m \in Messages : ms \o (<<>> \o <<m>>) = Append(ms, m)
<1>1. ms \o <<>> = ms
  BY ConcatEmptySeq
<1>2. \A m \in Messages : ms \o <<m>> = Append(ms, m)
  OBVIOUS
<1>3. \A m, n \in Messages : ms \o (<<m>> \o <<n>>) = Append(Append(ms, m), n)
  OBVIOUS
<1>4. \A m \in Messages : <<m>> \o <<>> = <<m>> /\ <<>> \o <<m>> = <<m>>
  OBVIOUS
<1> QED
  BY <1>1, <1>2, <1>3, <1>4

\* Player d when a game starts.
LEMMA StartedStep ==
  ASSUME SessionInv, NEW d \in PlayersOf, SameClient(d), toServer'[d] = <<>>,
         prompt[d] = "none", NothingIsSent(d),
         NEW no \in 0 .. MaxGames, NEW first \in 1 .. MaxPlayers,
         g'.isPlayingGame, game' = NewGame(no, first),
         toClient'[d] = IF closed[d] THEN toClient[d] ELSE toClient[d] \o GameStarted(no, first)[d]
  PROVE  PlayerStep(d) /\ toClient'[d] \in Seq(Messages)
<1>1. /\ d \in Connections
      /\ closed[d] => toClient[d] = <<>>
      /\ id[d] \in 0 .. MaxPlayers /\ toClient[d] \in Seq(Messages)
  BY PlayerIsIn
<1>2. CASE closed[d]
  <2>1. toClient'[d] = <<>> /\ closed'[d] /\ prompt'[d] = "none"
    BY <1>1, <1>2 DEF SameClient
  <2>2. OnlyTurns(d)'
    BY DEF OnlyTurns
  <2>3. InStep(d)'
    BY <2>1, <2>2, GoneInStep
  <2> QED
    BY <1>1, <1>2, <2>1, <2>3 DEF PlayerStep
<1>3. CASE ~ closed[d]
  <2> DEFINE m == [Message("gameStart", first) EXCEPT !.no = no]
             ms == Append(toClient[d], m)
             asks == Message("takeTurn", first)
  <2>1. first \in 0 .. MaxPlayers
    BY SessionConstants
  <2>2. m \in Messages /\ m.type = "gameStart" /\ m.no = no /\ m.player = first
    BY <2>1 DEF Message, Messages, MessageTypes
  <2>3. asks \in Messages /\ asks.type = "takeTurn" /\ asks.player = first
    BY <2>1, MessageFacts DEF MessageTypes
  <2>4. /\ LastCopy(d) \in Game
        /\ Knows(ClientOf(d), id[d], toClient[d], LastCopy(d))
    BY <1>3, PlayerKnows
  <2>5. GameStarted(no, first)[d] = <<m>> \o (IF id[d] = first THEN <<asks>> ELSE <<>>)
    BY <1>1 DEF GameStarted, Then, ToAll, ToMover
  <2> HIDE DEF m, asks
  <2>6. /\ NewGame(m.no, m.player) \in Game
        /\ Knows(ClientOf(d), id[d], ms, NewGame(m.no, m.player))
        /\ OneMoreAsked(ClientOf(d), ms, toClient[d], m)
    BY <1>1, <2>2, <2>4, KnowsStart
  <2>7. game' = NewGame(m.no, m.player) /\ game' \in Game /\ game'.current = first
    BY <2>2, <2>6 DEF NewGame
  <2>8. toClient'[d] = IF id[d] = first THEN Append(ms, asks) ELSE ms
    <3>1. /\ toClient[d] \o (<<m>> \o <<asks>>) = Append(ms, asks)
          /\ toClient[d] \o (<<m>> \o <<>>) = ms
      <4>1. toClient[d] \in Seq(Messages) /\ m \in Messages /\ asks \in Messages
        BY <1>1, <2>2, <2>3
      <4>2. toClient[d] \o (<<m>> \o <<asks>>) = Append(Append(toClient[d], m), asks)
        BY <4>1, OneSent
      <4>3. toClient[d] \o (<<m>> \o <<>>) = Append(toClient[d], m)
        BY <4>1, OneSent
      <4> QED
        BY <4>2, <4>3
    <3>2. toClient'[d] = toClient[d] \o GameStarted(no, first)[d]
      BY <1>3
    <3> HIDE DEF ms
    <3> QED
      BY <2>5, <3>1, <3>2
  <2> HIDE DEF ms
  <2>9. Knows(ClientOf(d), id[d], ms, game') /\ Exists(game)'
    <3>1. first # 0
      BY SessionConstants
    <3> QED
      BY <2>6, <2>7, <3>1 DEF Exists, NoPlayer
  <2>10. AskedBy(m) = "none"
    BY <2>2, AskedByFacts
  <2>11. AskedIn(ms, "turn") = {} /\ AskedIn(ms, "ready") = {}
    BY <2>6, <2>10 DEF OneMoreAsked, NothingIsSent
  <2>12. toClient'[d] = IF id[d] = game'.current THEN Append(ms, asks) ELSE ms
    BY <2>7, <2>8
  <2>13. /\ InStep(d)'
         /\ Knows(ClientOf(d), id[d], toClient'[d], game')
         /\ Len(toClient'[d]) >= Len(ms)
    BY <1>1, <2>3, <2>7, <2>9, <2>11, <2>12, AskedNow
  <2>14. Len(ms) = Len(toClient[d]) + 1 /\ Len(toClient[d]) \in Nat
    BY <1>1, <2>6 DEF OneMoreAsked
  <2>15. toClient'[d] \in Seq(Messages)
    BY <2>13 DEF Knows
  <2>16. Len(toClient'[d]) >= Len(toClient[d])
    <3> DEFINE new == Len(toClient'[d])
               old == Len(toClient[d])
    <3>1. new \in Nat /\ new >= Len(ms)
      BY <2>13, <2>15, LenProperties
    <3>2. old \in Nat /\ Len(ms) = old + 1
      BY <2>14
    <3> HIDE DEF new, old
    <3>3. new >= old
      BY <3>1, <3>2
    <3> QED
      BY <3>3 DEF new, old
  <2> QED
    BY <1>3, <2>7, <2>13, <2>15, <2>16 DEF PlayerStep
<1> QED
  BY <1>2, <1>3

LEMMA SamePlayers ==
  ASSUME g'.players = g.players
  PROVE  PlayersOf' = PlayersOf
BY DEF PlayersOf, Occupied

LEMMA ReadReadyStep ==
  ASSUME SessionInv, NEW c \in Connections, ReadReady(c)
  PROVE  SessionInv'
<1> DEFINE counted == CountReady(g)
<1>1. /\ Reads(c, "ready")
      /\ clientIsReady' = [clientIsReady EXCEPT ![c] = TRUE]
      /\ \/ /\ CanStart(counted)
            /\ \E first \in 1 .. MaxPlayers :
                 /\ game.no < MaxGames
                 /\ g' = StartGame(counted, first)
                 /\ game' = NewGame(game.no + 1, first)
                 /\ toClient' = Sent(GameStarted(game.no + 1, first))
         \/ /\ ~ CanStart(counted)
            /\ g' = counted /\ UNCHANGED <<game, toClient>>
  BY DEF ReadReady
<1>2. /\ c \in PlayersOf /\ InStep(c) /\ ReadFrame(c)
      /\ toServer[c] \in Seq(Answers) /\ toServer[c] # <<>> /\ toServer[c][1].type = "ready"
      /\ toServer'[c] = Tail(toServer[c])
  BY <1>1, Heard
<1>3. /\ TypeOK /\ Seating /\ GameInStep /\ LobbyOK(g) /\ g \in Lobby
      /\ clientIsReady \in [Connections -> BOOLEAN]
      /\ toClient \in [Connections -> Seq(Messages)]
      /\ game \in Game
  BY DEF SessionInv, TypeOK, Seating
<1>4. ~ g.isPlayingGame
  <2>1. 1 \in DOMAIN toServer[c]
    BY <1>2
  <2>2. ~ OnlyTurns(c)
    BY <1>2, <2>1 DEF OnlyTurns
  <2> QED
    BY <1>2, <2>2, WhenPlaying
<1>5. /\ ~ clientIsReady[c]
      /\ toServer'[c] = <<>> /\ prompt[c] = "none" /\ NothingIsSent(c)
  BY <1>2, <1>4, WhenWaiting, ReadyIsLast
<1>6. \A i \in 1 .. MaxPlayers :
        /\ LobbyOK(counted)
        /\ CanStart(counted) => LobbyOK(StartGame(counted, i))
        /\ counted.players = g.players /\ StartGame(counted, i).players = g.players
  BY <1>3, GameStep
<1>7. 1 \in 1 .. MaxPlayers
  BY SessionConstants
<1>8. counted.isPlayingGame = g.isPlayingGame
  BY <1>3 DEF CountReady
<1>9. clientIsReady' \in [Connections -> BOOLEAN] /\ clientIsReady'[c]
      /\ \A d \in Connections \ {c} : clientIsReady'[d] = clientIsReady[d]
  BY <1>1, <1>3
<1> HIDE DEF counted
<1>10. CASE ~ CanStart(counted)
  <2>1. g' = counted /\ game' = game /\ toClient' = toClient
    BY <1>1, <1>10
  <2>2. LobbyOK(g') /\ g'.players = g.players /\ ~ g'.isPlayingGame
    BY <1>4, <1>6, <1>7, <1>8, <2>1
  <2>3. /\ ReadyPlayers' \in SUBSET PlayersOf
        /\ Cardinality(ReadyPlayers') = g.numReady + 1
        /\ g'.numReady = g.numReady + 1
        /\ g.numReady + 1 # MaxPlayers
    BY <1>1, <1>2, <1>5, <1>10, <2>1, <2>2, SamePlayers, OneMoreReady DEF counted
  <2>4. GameInStep'
    <3>1. g'.numReady = Cardinality(ReadyPlayers') /\ g'.numReady # MaxPlayers
      BY <2>3
    <3>2. ~ Exists(game)'
      BY <1>3, <1>4, <2>1 DEF GameInStep, Exists
    <3> QED
      BY <2>2, <3>1, <3>2 DEF GameInStep
  <2>5. ASSUME NEW d \in PlayersOf
        PROVE  PlayerStep(d)
    <3>1. d \in Connections /\ SameClient(d) /\ toClient'[d] = toClient[d]
      BY <1>2, <2>1, PlayerIsIn, OthersSame
    <3>2. CASE d # c
      <4>1. SameExchange(d) /\ clientIsReady'[d] = clientIsReady[d]
        BY <1>2, <1>9, <3>1, <3>2, OthersSame
      <4>2. g'.isPlayingGame = g.isPlayingGame /\ game' = game
        BY <1>8, <2>1
      <4> QED
        BY <4>1, <4>2, StillStep
    <3>3. CASE d = c
      <4>1. Idle(c)'
        BY <1>5, <3>1, <3>3 DEF Idle, NothingIsSent, SameClient
      <4>2. InStep(c)'
        BY <1>9, <2>2, <4>1 DEF InStep
      <4>3. ~ closed[c] => /\ LastCopy(c) \in Game
                           /\ Knows(ClientOf(c), id[c], toClient'[c], LastCopy(c))
        BY <1>2, <3>1, <3>3, PlayerKnows
      <4>4. toClient[c] \in Seq(Messages) /\ toClient'[c] = toClient[c]
        BY <1>3, <3>1, <3>3
      <4>5. Len(toClient'[c]) >= Len(toClient[c])
        BY <4>4
      <4> QED
        BY <2>2, <3>3, <4>2, <4>3, <4>4, <4>5 DEF PlayerStep
    <3> QED
      BY <3>2, <3>3
  <2>6. game' \in Game /\ toClient' \in [Connections -> Seq(Messages)]
    BY <1>3, <2>1
  <2>7. \A d \in Connections : d \notin PlayersOf =>
          toClient'[d] = toClient[d] /\ clientIsReady'[d] = clientIsReady[d]
    BY <1>2, <1>9, <2>1
  <2> QED
    BY <1>2, <1>9, <2>2, <2>4, <2>5, <2>6, <2>7, ReadAssemble
<1>11. CASE CanStart(counted)
  <2>1. PICK first \in 1 .. MaxPlayers :
          /\ game.no < MaxGames
          /\ g' = StartGame(counted, first)
          /\ game' = NewGame(game.no + 1, first)
          /\ toClient' = Sent(GameStarted(game.no + 1, first))
    BY <1>1, <1>11
  <2>2. LobbyOK(g') /\ g'.players = g.players
    BY <1>6, <1>11, <2>1
  <2>3. g'.isPlayingGame /\ g'.currentPlayer = first /\ g'.numReady = counted.numReady
    <3>1. counted \in Lobby
      BY <1>6, <1>7 DEF LobbyOK
    <3> QED
      BY <2>1, <3>1 DEF StartGame, Lobby
  <2>4. /\ ReadyPlayers' = ReadyPlayers \cup {c} /\ ReadyPlayers' = PlayersOf
        /\ Cardinality(ReadyPlayers') = g.numReady + 1
        /\ g'.numReady = g.numReady + 1
        /\ g.numReady + 1 = MaxPlayers
    BY <1>1, <1>2, <1>5, <1>11, <2>2, <2>3, SamePlayers, OneMoreReady DEF counted
  <2>5. PICK no \in 0 .. MaxGames : no = game.no + 1
    BY <1>3, <2>1, SessionConstants DEF Game
  <2>6. /\ game' = NewGame(no, first) /\ game' \in Game
        /\ game'.current = first /\ game'.turns = 0 /\ first # 0
    BY <2>1, <2>5, SessionConstants DEF NewGame, Game
  <2>7. GameInStep'
    <3>1. g'.numReady = Cardinality(ReadyPlayers') /\ g'.numReady = MaxPlayers
      BY <2>4
    <3>2. Exists(game)' /\ game'.turns < MaxTurns
      BY <2>6, SessionConstants DEF Exists, NoPlayer
    <3> QED
      BY <2>3, <2>6, <3>1, <3>2 DEF GameInStep
  <2>8. UNCHANGED <<joined, clientIsConnected>> /\ toClient' = Sent(GameStarted(no, first))
    BY <1>2, <2>1, <2>5 DEF ReadFrame
  <2>9. ASSUME NEW d \in PlayersOf
        PROVE  PlayerStep(d) /\ toClient'[d] \in Seq(Messages)
    <3>1. d \in Connections /\ SameClient(d) /\ d \in joined' /\ clientIsConnected'[d]
      BY <1>2, <2>8, PlayerIsIn, OthersSame
    <3>2. toServer'[d] = <<>> /\ prompt[d] = "none" /\ NothingIsSent(d)
      <4>1. CASE d = c
        BY <1>5, <4>1
      <4>2. CASE d # c
        <5>1. clientIsReady[d]
          BY <2>4, <2>9, <4>2 DEF ReadyPlayers
        <5>2. Idle(d)
          BY <1>4, <5>1, PlayerIsIn, WhenWaiting
        <5> QED
          BY <1>2, <3>1, <4>2, <5>2, OthersSame DEF Idle
      <4> QED
        BY <4>1, <4>2
    <3>3. toClient'[d] = IF closed[d] THEN toClient[d]
                         ELSE toClient[d] \o GameStarted(no, first)[d]
      BY <2>8, <3>1, SentFacts
    <3> QED
      BY <2>3, <2>6, <3>1, <3>2, <3>3, StartedStep
  <2>10. \A d \in Connections : d \notin PlayersOf =>
           toClient'[d] = toClient[d] /\ clientIsReady'[d] = clientIsReady[d]
    <3>1. PlayersOf = {d \in joined : clientIsConnected[d]}
      BY <1>3, PlayerFacts
    <3> QED
      BY <1>2, <1>9, <2>8, <3>1, SentFacts
  <2>11. toClient' \in [Connections -> Seq(Messages)]
    <3>1. \A d \in Connections : toClient'[d] \in Seq(Messages)
      BY <1>3, <2>9, <2>10
    <3> QED
      BY <2>8, <3>1, SentFacts
  <2> QED
    BY <1>2, <1>9, <2>2, <2>6, <2>7, <2>9, <2>10, <2>11, ReadAssemble
<1> QED
  BY <1>10, <1>11

\* Who sends a turn during a game is to move, and nothing else is under way.
LEMMA OnTurn ==
  ASSUME SessionInv, NEW c \in Connections, Reads(c, "takeTurn"), g.isPlayingGame
  PROVE  /\ id[c] = game.current /\ Exists(game) /\ game.turns < MaxTurns /\ game \in Game
         /\ \A d \in PlayersOf : toServer'[d] = <<>> /\ prompt[d] = "none" /\ NothingIsSent(d)
<1>1. /\ c \in PlayersOf /\ InStep(c) /\ ReadFrame(c)
      /\ toServer[c] \in Seq(Answers) /\ toServer[c] # <<>>
      /\ toServer'[c] = Tail(toServer[c])
  BY Heard
<1>2. /\ id[c] = game.current /\ prompt[c] = "none" /\ NothingIsSent(c)
      /\ Len(toServer[c]) = 1
  BY <1>1, WhenPlaying
<1>3. toServer'[c] = <<>>
  <2>1. Tail(toServer[c]) \in Seq(Answers) /\ Len(Tail(toServer[c])) = Len(toServer[c]) - 1
    BY <1>1, HeadTailProperties
  <2>2. Len(Tail(toServer[c])) \notin Nat \ {0}
    BY <1>2, <2>1
  <2>3. Tail(toServer[c]) = <<>>
    BY <2>1, <2>2, EmptySeq
  <2> QED
    BY <1>1, <2>3
<1>4. ASSUME NEW d \in PlayersOf, d # c
      PROVE  toServer'[d] = <<>> /\ prompt[d] = "none" /\ NothingIsSent(d)
  <2>1. id[d] # game.current
    BY <1>1, <1>2, <1>4, PlayerFacts DEF SessionInv
  <2>2. d \in Connections /\ InStep(d)
    BY PlayerIsIn
  <2>3. Idle(d)
    BY <2>1, <2>2, WhenPlaying
  <2> QED
    BY <1>1, <1>4, <2>2, <2>3, OthersSame DEF Idle
<1>5. Exists(game) /\ game.turns < MaxTurns /\ game \in Game
  BY DEF SessionInv, GameInStep, TypeOK
<1> QED
  BY <1>2, <1>3, <1>4, <1>5

\* An accepted turn is told to player d.
LEMMA TurnIsTold ==
  ASSUME SessionInv, NEW d \in PlayersOf, ~ closed[d], NothingIsSent(d), g.isPlayingGame,
         Exists(game), game.turns < MaxTurns, NEW p, p = game.current
  PROVE  LET m == Message(IF id[d] = p THEN "success" ELSE "update", p)
             ms == Append(toClient[d], m)
         IN  /\ m \in Messages /\ ToldTurn(p)[d] = <<m>>
             /\ Knows(ClientOf(d), id[d], ms, Advance(game))
             /\ AskedIn(ms, "turn") = {} /\ AskedIn(ms, "ready") = {}
             /\ ms \in Seq(Messages) /\ Len(ms) = Len(toClient[d]) + 1
<1> DEFINE type == IF id[d] = p THEN "success" ELSE "update"
           m == Message(type, p)
           ms == Append(toClient[d], m)
<1>1. d \in Connections /\ id[d] \in 0 .. MaxPlayers /\ toClient[d] \in Seq(Messages)
  BY PlayerIsIn
<1>2. game \in Game /\ p \in 0 .. MaxPlayers
  BY DEF SessionInv, TypeOK, Game
<1>3. type \in MessageTypes /\ type \in {"success", "update"}
  BY DEF MessageTypes
<1> HIDE DEF type
<1>4. m \in Messages /\ m.type = type /\ m.player = p
  BY <1>2, <1>3, MessageFacts
<1>5. ToldTurn(p)[d] = <<m>>
  BY <1>1 DEF ToldTurn, type
<1> HIDE DEF m
<1>6. Knows(ClientOf(d), id[d], toClient[d], game)
  BY PlayerKnows
<1>7. m.player = game.current /\ m.type = IF m.player = id[d] THEN "success" ELSE "update"
  BY <1>4 DEF type
<1>8. /\ Knows(ClientOf(d), id[d], ms, Advance(game))
      /\ OneMoreAsked(ClientOf(d), ms, toClient[d], m)
  BY <1>1, <1>2, <1>4, <1>6, <1>7, KnowsTurn
<1>9. AskedBy(m) = "none"
  BY <1>3, <1>4, AskedByFacts
<1>10. AskedIn(ms, "turn") = {} /\ AskedIn(ms, "ready") = {} /\ Len(ms) = Len(toClient[d]) + 1
  BY <1>8, <1>9 DEF OneMoreAsked, NothingIsSent
<1>11. ms \in Seq(Messages)
  BY <1>8 DEF Knows
<1> QED
  BY <1>4, <1>5, <1>8, <1>10, <1>11 DEF m, type

\* Player d has left, and its read has not ended.
LEMMA GoneStep ==
  ASSUME SessionInv, NEW d \in PlayersOf, closed[d], SameClient(d),
         toClient'[d] = toClient[d], OnlyTurns(d)',
         g'.isPlayingGame \/ clientIsReady'[d] => toServer'[d] = <<>>
  PROVE  PlayerStep(d) /\ toClient'[d] \in Seq(Messages)
<1>1. toClient[d] = <<>> /\ prompt[d] = "none" /\ toClient[d] \in Seq(Messages)
  BY PlayerIsIn
<1>2. toClient'[d] = <<>> /\ prompt'[d] = "none" /\ closed'[d]
  BY <1>1 DEF SameClient
<1>3. InStep(d)'
  BY <1>2, GoneInStep
<1> QED
  BY <1>1, <1>3 DEF PlayerStep

\* What the lobby's messages make of player d, when a turn is accepted.
LEMMA AcceptedStep ==
  ASSUME SessionInv, NEW c \in Connections, Reads(c, "takeTurn"), TurnAccepted(c),
         NEW d \in PlayersOf
  PROVE  PlayerStep(d) /\ toClient'[d] \in Seq(Messages)
<1> DEFINE next == Advance(game)
           p == id[c]
           turn == Message(IF id[d] = p THEN "success" ELSE "update", p)
           ms == Append(toClient[d], turn)
           asks == Message("takeTurn", next.current)
<1>1. /\ g.isPlayingGame /\ p = game.current
      /\ g' = [g EXCEPT !.currentPlayer = next.current]
      /\ game' = next
      /\ toClient' = Sent(Then(ToldTurn(p), ToMover(next.current)))
  BY DEF TurnAccepted
<1>2. /\ Exists(game) /\ game.turns < MaxTurns /\ game \in Game
      /\ toServer'[d] = <<>> /\ prompt[d] = "none" /\ NothingIsSent(d)
  BY <1>1, OnTurn
<1>3. next \in Game /\ Exists(next) /\ next.current \in 1 .. MaxPlayers
  BY <1>2, AdvanceFacts
<1>4. g'.isPlayingGame
  BY <1>1 DEF SessionInv, TypeOK, Lobby
<1>5. ReadFrame(c) /\ d \in Connections /\ SameClient(d)
  BY Heard, PlayerIsIn, OthersSame
<1>6. /\ d \in joined /\ clientIsConnected[d] /\ id[d] \in 0 .. MaxPlayers
      /\ toClient[d] \in Seq(Messages)
      /\ joined' = joined /\ clientIsConnected' = clientIsConnected
  BY <1>5, PlayerIsIn DEF ReadFrame
<1>7. toClient'[d] = IF closed[d] THEN toClient[d]
                     ELSE toClient[d] \o Then(ToldTurn(p), ToMover(next.current))[d]
  BY <1>1, <1>5, <1>6, SentFacts
<1>8. CASE closed[d]
  BY <1>2, <1>5, <1>7, <1>8, GoneStep DEF OnlyTurns
<1>9. CASE ~ closed[d]
  <2>1. /\ turn \in Messages /\ ToldTurn(p)[d] = <<turn>>
        /\ Knows(ClientOf(d), id[d], ms, Advance(game))
        /\ AskedIn(ms, "turn") = {} /\ AskedIn(ms, "ready") = {}
        /\ ms \in Seq(Messages) /\ Len(ms) = Len(toClient[d]) + 1
    BY <1>1, <1>2, <1>9, TurnIsTold
  <2>2. asks \in Messages /\ asks.type = "takeTurn" /\ asks.player = next.current
    <3>1. next.current \in 0 .. MaxPlayers
      BY <1>3, SessionConstants
    <3> QED
      BY <3>1, MessageFacts DEF MessageTypes
  <2>3. Then(ToldTurn(p), ToMover(next.current))[d] =
          <<turn>> \o (IF id[d] = next.current THEN <<asks>> ELSE <<>>)
    BY <1>5, <2>1 DEF Then, ToMover
  <2> HIDE DEF turn, asks, p, next
  <2>4. /\ toClient[d] \o (<<turn>> \o <<asks>>) = Append(ms, asks)
        /\ toClient[d] \o (<<turn>> \o <<>>) = ms
    <3>1. toClient[d] \o (<<turn>> \o <<asks>>) = Append(Append(toClient[d], turn), asks)
      BY <1>6, <2>1, <2>2, OneSent
    <3>2. toClient[d] \o (<<turn>> \o <<>>) = Append(toClient[d], turn)
      BY <1>6, <2>1, OneSent
    <3> QED
      BY <3>1, <3>2
  <2> HIDE DEF ms
  <2>5. toClient'[d] = IF id[d] = next.current THEN Append(ms, asks) ELSE ms
    BY <1>7, <1>9, <2>3, <2>4
  <2>6. toClient'[d] = IF id[d] = game'.current THEN Append(ms, asks) ELSE ms
    BY <1>1, <2>5 DEF next
  <2>7. /\ game' \in Game /\ Exists(game)' /\ Knows(ClientOf(d), id[d], ms, game')
        /\ asks.player = game'.current
    BY <1>1, <1>3, <2>1, <2>2 DEF next, Exists
  <2>8. /\ InStep(d)'
        /\ Knows(ClientOf(d), id[d], toClient'[d], game')
        /\ Len(toClient'[d]) >= Len(ms)
    BY <1>2, <1>4, <1>5, <1>6, <2>1, <2>2, <2>6, <2>7, AskedNow
  <2>9. toClient'[d] \in Seq(Messages)
    BY <2>8 DEF Knows
  <2>10. Len(toClient'[d]) >= Len(toClient[d])
    <3>1. Len(toClient'[d]) \in Nat /\ Len(toClient[d]) \in Nat
      BY <1>6, <2>9, LenProperties
    <3> QED
      BY <2>1, <2>8, <3>1
  <2> QED
    BY <1>9, <2>7, <2>8, <2>9, <2>10 DEF PlayerStep
<1> QED
  BY <1>8, <1>9

\* A game ends: player d is told so, after what it is told before.
LEMMA OverStep ==
  ASSUME SessionInv, NEW d \in PlayersOf, SameClient(d), d \in joined', clientIsConnected'[d],
         NEW told, NEW winner \in 0 .. MaxPlayers,
         toClient' = Sent(Then(told, ToAll(Message("gameEnd", winner)))),
         ~ g'.isPlayingGame, ~ clientIsReady'[d], OnlyTurns(d)',
         NEW ms \in Seq(Messages), NEW position \in Game,
         ~ closed[d] => /\ toClient[d] \o (told[d] \o <<Message("gameEnd", winner)>>) =
                             Append(ms, Message("gameEnd", winner))
                        /\ Knows(ClientOf(d), id[d], ms, position)
                        /\ AskedIn(ms, "ready") = {} /\ prompt[d] # "ready"
                        /\ Len(ms) >= Len(toClient[d])
  PROVE  PlayerStep(d) /\ toClient'[d] \in Seq(Messages)
<1>1. d \in Connections /\ id[d] \in 0 .. MaxPlayers /\ toClient[d] \in Seq(Messages)
  BY PlayerIsIn
<1>2. toClient'[d] = IF closed[d] THEN toClient[d]
                     ELSE toClient[d] \o Then(told, ToAll(Message("gameEnd", winner)))[d]
  BY <1>1, SentFacts
<1>3. CASE closed[d]
  BY <1>2, <1>3, GoneStep
<1>4. CASE ~ closed[d]
  <2>1. Then(told, ToAll(Message("gameEnd", winner)))[d] =
          told[d] \o <<Message("gameEnd", winner)>>
    BY <1>1 DEF Then, ToAll
  <2>2. toClient'[d] = Append(ms, Message("gameEnd", winner))
    BY <1>2, <1>4, <2>1
  <2>3. /\ InStep(d)'
        /\ Knows(ClientOf(d), id[d], toClient'[d], position)
        /\ Len(toClient'[d]) >= Len(ms)
    BY <1>1, <1>4, <2>2, EndedNow
  <2>4. toClient'[d] \in Seq(Messages)
    BY <2>3 DEF Knows
  <2>5. Len(toClient'[d]) >= Len(toClient[d])
    <3> DEFINE n == Len(toClient'[d])
               old == Len(toClient[d])
    <3>1. n \in Nat /\ old \in Nat /\ Len(ms) \in Nat
      BY <1>1, <2>4, LenProperties
    <3>2. n >= Len(ms) /\ Len(ms) >= old
      BY <1>4, <2>3
    <3> HIDE DEF n, old
    <3>3. n >= old
      BY <3>1, <3>2
    <3> QED
      BY <3>3 DEF n, old
  <2> QED
    BY <1>4, <2>3, <2>4, <2>5 DEF PlayerStep
<1> QED
  BY <1>3, <1>4

\* After a game nobody is ready, and there is none.
LEMMA OverInStep ==
  ASSUME TypeOK, PlayersOf' \subseteq joined,
         g'.numReady = 0, ~ g'.isPlayingGame, game' = NoGame(game.no),
         clientIsReady' = [c \in Connections |-> c \notin joined /\ clientIsReady[c]]
  PROVE  /\ GameInStep' /\ game' \in Game
         /\ clientIsReady' \in [Connections -> BOOLEAN]
         /\ \A d \in joined : ~ clientIsReady'[d]
         /\ \A d \in Connections \ joined : clientIsReady'[d] = clientIsReady[d]
<1>1. /\ joined \subseteq Connections /\ clientIsReady \in [Connections -> BOOLEAN] /\ game \in Game
  BY DEF TypeOK
<1>2. \A d \in joined : ~ clientIsReady'[d]
  BY <1>1
<1>3. ReadyPlayers' = {}
  BY <1>2 DEF ReadyPlayers
<1>4. g'.numReady = Cardinality(ReadyPlayers') /\ g'.numReady # MaxPlayers
  BY <1>3, FS_EmptySet, SessionConstants
<1>5. game' \in Game /\ ~ Exists(game)'
  BY <1>1, SessionConstants DEF NoGame, NewGame, Game, Exists, NoPlayer
<1>6. GameInStep'
  BY <1>4, <1>5 DEF GameInStep
<1>7. clientIsReady' \in [Connections -> BOOLEAN]
  BY <1>1
<1>8. \A d \in Connections \ joined : clientIsReady'[d] = clientIsReady[d]
  BY <1>1
<1> QED
  BY <1>2, <1>5, <1>6, <1>7, <1>8

LEMMA TurnRefusedStep ==
  ASSUME SessionInv, NEW c \in Connections, Reads(c, "takeTurn"), TurnRefused(c)
  PROVE  SessionInv'
<1>1. /\ ~ g.isPlayingGame
      /\ toClient' = Sent(ToPlayer("error", id[c]))
      /\ g' = g /\ game' = game /\ clientIsReady' = clientIsReady
  BY DEF TurnRefused
<1>2. /\ c \in PlayersOf /\ InStep(c) /\ ReadFrame(c)
      /\ toServer[c] \in Seq(Answers) /\ toServer[c] # <<>> /\ toServer[c][1].type = "takeTurn"
      /\ toServer'[c] = Tail(toServer[c])
  BY Heard
<1>3. ~ clientIsReady[c] /\ IsToBeReady(c)
  BY <1>1, <1>2, WhenWaiting
<1>4. UNCHANGED <<joined, id, clientIsConnected>>
  BY <1>2 DEF ReadFrame
<1>5. ASSUME NEW d \in PlayersOf, d # c
      PROVE  PlayerStep(d) /\ toClient'[d] \in Seq(Messages)
  <2>1. d \in Connections /\ toClient[d] \in Seq(Messages) /\ id[d] # id[c]
    BY <1>2, <1>5, PlayerIsIn, PlayerFacts DEF SessionInv
  <2>2. ToPlayer("error", id[c])[d] = <<>>
    BY <2>1 DEF ToPlayer
  <2>3. toClient'[d] = toClient[d]
    <3>1. toClient[d] \o <<>> = toClient[d]
      BY <2>1, OneSent
    <3>2. toClient'[d] = IF d \in joined' /\ clientIsConnected'[d] /\ ~ closed[d]
                         THEN toClient[d] \o ToPlayer("error", id[c])[d] ELSE toClient[d]
      BY <1>1, <2>1, SentFacts
    <3> QED
      BY <2>2, <3>1, <3>2
  <2>4. SameExchange(d) /\ clientIsReady'[d] = clientIsReady[d]
    BY <1>1, <1>2, <1>5, <2>1, <2>3, OthersSame
  <2> QED
    BY <1>1, <2>1, <2>3, <2>4, StillStep
<1>6. PlayerStep(c) /\ toClient'[c] \in Seq(Messages)
  <2> DEFINE m == Message("error", id[c])
             ms == toClient[c]
  <2>1. /\ c \in joined /\ clientIsConnected[c] /\ id[c] \in 0 .. MaxPlayers
        /\ ms \in Seq(Messages)
        /\ SameClient(c)
    BY <1>2, PlayerIsIn, OthersSame
  <2>2. toClient'[c] = IF closed[c] THEN ms ELSE ms \o ToPlayer("error", id[c])[c]
    BY <1>1, <1>4, <2>1, SentFacts
  <2>3. ToPlayer("error", id[c])[c] = <<m>>
    BY DEF ToPlayer
  <2>4. m \in Messages /\ m.type = "error"
    BY <2>1, MessageFacts DEF MessageTypes
  <2>5. CASE closed[c]
    <3>1. toClient'[c] = ms
      BY <2>2, <2>5
    <3>2. Len(toClient'[c]) >= Len(ms)
      BY <2>1, <3>1
    <3>3. IsToBeReady(c)'
      BY <1>2, <1>3, <2>1, <3>1, <3>2, TurnIsOld
    <3>4. InStep(c)'
      BY <1>1, <1>3, <3>3 DEF InStep
    <3> QED
      BY <2>1, <2>5, <3>1, <3>4 DEF PlayerStep
  <2>6. CASE ~ closed[c]
    <3> HIDE DEF m
    <3>1. toClient'[c] = Append(ms, m)
      <4>1. ms \o <<m>> = Append(ms, m)
        BY <2>1, <2>4, OneSent
      <4>2. toClient'[c] = ms \o <<m>>
        BY <2>2, <2>3, <2>6
      <4> QED
        BY <4>1, <4>2
    <3>2. LastCopy(c) \in Game /\ Knows(ClientOf(c), id[c], ms, LastCopy(c))
      BY <1>2, <2>6, PlayerKnows
    <3>3. /\ Knows(ClientOf(c), id[c], Append(ms, m), LastCopy(c))
          /\ OneMoreAsked(ClientOf(c), Append(ms, m), ms, m)
      BY <2>1, <2>4, <3>2, KnowsNotice
    <3>4. AskedBy(m) = "none"
      BY <2>4, AskedByFacts
    <3>5. \A what \in {"turn", "ready"} : AskedIn(toClient'[c], what) = AskedIn(ms, what)
      BY <3>1, <3>3, <3>4 DEF OneMoreAsked
    <3>6. /\ Len(toClient'[c]) = Len(ms) + 1 /\ Len(ms) \in Nat
          /\ toClient'[c] \in Seq(Messages)
      BY <2>1, <3>1, <3>3 DEF OneMoreAsked, Knows
    <3>7. Len(toClient'[c]) >= Len(ms)
      BY <3>6
    <3>8. IsToBeReady(c)'
      BY <1>2, <1>3, <2>1, <3>5, <3>6, <3>7, TurnIsOld
    <3>9. InStep(c)'
      BY <1>1, <1>3, <3>8 DEF InStep
    <3>10. Knows(ClientOf(c), id[c], toClient'[c], LastCopy(c))
      BY <3>1, <3>3
    <3> QED
      BY <1>1, <2>6, <3>2, <3>6, <3>7, <3>9, <3>10 DEF PlayerStep
  <2> QED
    BY <2>5, <2>6
<1>7. \A d \in Connections : d \notin PlayersOf => toClient'[d] = toClient[d]
  BY <1>1, <1>4, SentFacts, PlayerFacts DEF SessionInv
<1>8. toClient' \in [Connections -> Seq(Messages)]
  <2>1. \A d \in Connections : toClient'[d] \in Seq(Messages)
    BY <1>5, <1>6, <1>7 DEF SessionInv, TypeOK
  <2> QED
    BY <1>1, <2>1, SentFacts
<1>9. PlayersOf' = PlayersOf
  BY <1>1, SamePlayers
<1>10. GameInStep'
  BY <1>1, <1>9 DEF SessionInv, GameInStep, ReadyPlayers, Exists
<1>11. LobbyOK(g') /\ game' \in Game /\ clientIsReady' \in [Connections -> BOOLEAN]
  BY <1>1 DEF SessionInv, TypeOK, Seating
<1> QED
  BY <1>1, <1>2, <1>5, <1>6, <1>7, <1>8, <1>10, <1>11, ReadAssemble

LEMMA TurnRejectedStep ==
  ASSUME SessionInv, NEW c \in Connections, Reads(c, "takeTurn"), TurnRejected(c)
  PROVE  SessionInv'
<1>1. /\ g.isPlayingGame
      /\ toClient' = Sent(ToPlayer("rejected", id[c]))
      /\ g' = g /\ game' = game /\ clientIsReady' = clientIsReady
  BY DEF TurnRejected
<1>2. c \in PlayersOf /\ ReadFrame(c) /\ toServer[c] # <<>>
  BY Heard
<1>3. /\ id[c] = game.current /\ Exists(game) /\ game \in Game
      /\ toServer'[c] = <<>> /\ prompt[c] = "none" /\ NothingIsSent(c)
  BY <1>1, <1>2, OnTurn
<1>4. UNCHANGED <<joined, id, clientIsConnected>>
  BY <1>2 DEF ReadFrame
<1>5. ASSUME NEW d \in PlayersOf, d # c
      PROVE  PlayerStep(d) /\ toClient'[d] \in Seq(Messages)
  <2>1. d \in Connections /\ toClient[d] \in Seq(Messages) /\ id[d] # id[c]
    BY <1>2, <1>5, PlayerIsIn, PlayerFacts DEF SessionInv
  <2>2. ToPlayer("rejected", id[c])[d] = <<>>
    BY <2>1 DEF ToPlayer
  <2>3. toClient'[d] = toClient[d]
    <3>1. toClient[d] \o <<>> = toClient[d]
      BY <2>1, OneSent
    <3>2. toClient'[d] = IF d \in joined' /\ clientIsConnected'[d] /\ ~ closed[d]
                         THEN toClient[d] \o ToPlayer("rejected", id[c])[d] ELSE toClient[d]
      BY <1>1, <2>1, SentFacts
    <3> QED
      BY <2>2, <3>1, <3>2
  <2>4. SameExchange(d) /\ clientIsReady'[d] = clientIsReady[d]
    BY <1>1, <1>2, <1>5, <2>1, <2>3, OthersSame
  <2> QED
    BY <1>1, <2>1, <2>3, <2>4, StillStep
<1>6. PlayerStep(c) /\ toClient'[c] \in Seq(Messages)
  <2> DEFINE m == Message("rejected", id[c])
             ms == toClient[c]
  <2>1. /\ c \in joined /\ clientIsConnected[c] /\ id[c] \in 0 .. MaxPlayers
        /\ ms \in Seq(Messages)
        /\ SameClient(c)
    BY <1>2, PlayerIsIn, OthersSame
  <2>2. toClient'[c] = IF closed[c] THEN ms ELSE ms \o ToPlayer("rejected", id[c])[c]
    BY <1>1, <1>4, <2>1, SentFacts
  <2>3. ToPlayer("rejected", id[c])[c] = <<m>>
    BY DEF ToPlayer
  <2>4. m \in Messages /\ m.type = "rejected" /\ m.player = id[c]
    BY <2>1, MessageFacts DEF MessageTypes
  <2>5. CASE closed[c]
    BY <1>2, <1>3, <2>1, <2>2, <2>5, GoneStep DEF OnlyTurns
  <2>6. CASE ~ closed[c]
    <3> HIDE DEF m
    <3>1. toClient'[c] = Append(ms, m)
      <4>1. ms \o <<m>> = Append(ms, m)
        BY <2>1, <2>4, OneSent
      <4>2. toClient'[c] = ms \o <<m>>
        BY <2>2, <2>3, <2>6
      <4> QED
        BY <4>1, <4>2
    <3>2. toClient'[c] = IF id[c] = game'.current THEN Append(ms, m) ELSE ms
      BY <1>1, <1>3, <3>1
    <3>3. /\ Knows(ClientOf(c), id[c], ms, game') /\ game' \in Game /\ Exists(game)'
          /\ g'.isPlayingGame /\ m.player = game'.current
      BY <1>1, <1>2, <1>3, <2>4, <2>6, PlayerKnows DEF Exists
    <3>4. AskedIn(ms, "turn") = {} /\ AskedIn(ms, "ready") = {}
      BY <1>3 DEF NothingIsSent
    <3>5. /\ InStep(c)'
          /\ Knows(ClientOf(c), id[c], toClient'[c], game')
          /\ Len(toClient'[c]) >= Len(ms)
      BY <1>3, <2>1, <2>4, <3>2, <3>3, <3>4, AskedNow
    <3>6. toClient'[c] \in Seq(Messages)
      BY <3>5 DEF Knows
    <3> QED
      BY <2>6, <3>3, <3>5, <3>6 DEF PlayerStep
  <2> QED
    BY <2>5, <2>6
<1>7. \A d \in Connections : d \notin PlayersOf => toClient'[d] = toClient[d]
  BY <1>1, <1>4, SentFacts, PlayerFacts DEF SessionInv
<1>8. toClient' \in [Connections -> Seq(Messages)]
  <2>1. \A d \in Connections : toClient'[d] \in Seq(Messages)
    BY <1>5, <1>6, <1>7 DEF SessionInv, TypeOK
  <2> QED
    BY <1>1, <2>1, SentFacts
<1>9. PlayersOf' = PlayersOf
  BY <1>1, SamePlayers
<1>10. GameInStep'
  BY <1>1, <1>9 DEF SessionInv, GameInStep, ReadyPlayers, Exists
<1>11. LobbyOK(g') /\ game' \in Game /\ clientIsReady' \in [Connections -> BOOLEAN]
  BY <1>1 DEF SessionInv, TypeOK, Seating
<1> QED
  BY <1>1, <1>2, <1>5, <1>6, <1>7, <1>8, <1>10, <1>11, ReadAssemble

LEMMA TurnAcceptedStep ==
  ASSUME SessionInv, NEW c \in Connections, Reads(c, "takeTurn"), TurnAccepted(c)
  PROVE  SessionInv'
<1> DEFINE next == Advance(game)
<1>1. /\ g.isPlayingGame /\ next.turns < MaxTurns
      /\ g' = [g EXCEPT !.currentPlayer = next.current]
      /\ game' = next /\ clientIsReady' = clientIsReady
      /\ toClient' = Sent(Then(ToldTurn(id[c]), ToMover(next.current)))
  BY DEF TurnAccepted
<1>2. c \in PlayersOf /\ ReadFrame(c) /\ toServer[c] # <<>>
  BY Heard
<1>3. Exists(game) /\ game.turns < MaxTurns /\ game \in Game
  BY <1>1, OnTurn
<1>4. next \in Game /\ Exists(next) /\ next.current \in 1 .. MaxPlayers
  BY <1>3, AdvanceFacts
<1>5. \A d \in PlayersOf : PlayerStep(d) /\ toClient'[d] \in Seq(Messages)
  BY AcceptedStep
<1>6. UNCHANGED <<joined, id, clientIsConnected>>
  BY <1>2 DEF ReadFrame
<1>7. \A d \in Connections : d \notin PlayersOf =>
        toClient'[d] = toClient[d] /\ clientIsReady'[d] = clientIsReady[d]
  BY <1>1, <1>6, SentFacts, PlayerFacts DEF SessionInv
<1>8. toClient' \in [Connections -> Seq(Messages)]
  <2>1. \A d \in Connections : toClient'[d] \in Seq(Messages)
    BY <1>5, <1>7 DEF SessionInv, TypeOK
  <2> QED
    BY <1>1, <2>1, SentFacts
<1>9. LobbyOK(g') /\ g'.players = g.players
  BY <1>1, <1>4, GameStep DEF SessionInv, Seating
<1>10. PlayersOf' = PlayersOf
  BY <1>9, SamePlayers
<1> HIDE DEF next
<1>11. /\ g'.isPlayingGame = g.isPlayingGame /\ g'.numReady = g.numReady
       /\ g'.currentPlayer = next.current
  BY <1>1 DEF SessionInv, TypeOK, Lobby
<1>12. GameInStep'
  <2>1. ReadyPlayers' = ReadyPlayers
    BY <1>1, <1>10 DEF ReadyPlayers
  <2>2. Exists(game)' /\ Exists(game)
    BY <1>1, <1>3, <1>4 DEF Exists
  <2> QED
    BY <1>1, <1>11, <2>1, <2>2 DEF SessionInv, GameInStep
<1>13. game' \in Game /\ clientIsReady' \in [Connections -> BOOLEAN]
  BY <1>1, <1>4 DEF SessionInv, TypeOK
<1> QED
  BY <1>2, <1>5, <1>7, <1>8, <1>9, <1>12, <1>13, ReadAssemble

LEMMA TurnEndsStep ==
  ASSUME SessionInv, NEW c \in Connections, Reads(c, "takeTurn"), TurnEndsGame(c)
  PROVE  SessionInv'
<1> DEFINE p == id[c]
<1>1. PICK winner \in {NoWinner, p} : EndGame(g, winner, ToldTurn(p))
  BY DEF TurnEndsGame
<1>2. /\ g.isPlayingGame /\ p = game.current
      /\ g' = GameOver(g)
      /\ game' = NoGame(game.no)
      /\ clientIsReady' = [d \in Connections |-> d \notin joined /\ clientIsReady[d]]
      /\ toClient' = Sent(Then(ToldTurn(p), ToAll(Message("gameEnd", winner))))
  BY <1>1 DEF TurnEndsGame, EndGame
<1>3. c \in PlayersOf /\ ReadFrame(c) /\ toServer[c] # <<>>
  BY Heard
<1>4. /\ Exists(game) /\ game.turns < MaxTurns /\ game \in Game
      /\ \A d \in PlayersOf : toServer'[d] = <<>> /\ prompt[d] = "none" /\ NothingIsSent(d)
  BY <1>2, OnTurn
<1>5. Advance(game) \in Game
  BY <1>4, AdvanceFacts
<1>6. winner \in 0 .. MaxPlayers
  BY <1>3, PlayerIsIn, SessionConstants DEF NoWinner
<1>7. UNCHANGED <<joined, id, clientIsConnected>>
  BY <1>3 DEF ReadFrame
<1>8. /\ TypeOK /\ PlayersOf = {d \in joined : clientIsConnected[d]}
      /\ LobbyOK(g) /\ g \in Lobby /\ 1 \in 1 .. MaxPlayers
  BY PlayerFacts, SessionConstants DEF SessionInv, Seating, LobbyOK
<1>9. LobbyOK(g') /\ g'.players = g.players /\ g'.numReady = 0 /\ ~ g'.isPlayingGame
  <2>1. LobbyOK(GameOver(g)) /\ GameOver(g).players = g.players
    BY <1>8, GameStep
  <2>2. GameOver(g).numReady = 0 /\ ~ GameOver(g).isPlayingGame
    BY <1>8 DEF GameOver, Lobby
  <2> QED
    BY <1>2, <2>1, <2>2
<1>10. PlayersOf' = PlayersOf
  BY <1>9, SamePlayers
<1>11. /\ GameInStep' /\ game' \in Game
       /\ clientIsReady' \in [Connections -> BOOLEAN]
       /\ \A d \in joined : ~ clientIsReady'[d]
       /\ \A d \in Connections \ joined : clientIsReady'[d] = clientIsReady[d]
  BY <1>2, <1>8, <1>9, <1>10, OverInStep
<1>12. ASSUME NEW d \in PlayersOf
       PROVE  PlayerStep(d) /\ toClient'[d] \in Seq(Messages)
  <2> DEFINE m == Message(IF id[d] = p THEN "success" ELSE "update", p)
             e == Message("gameEnd", winner)
             ms == IF closed[d] THEN <<>> ELSE Append(toClient[d], m)
  <2>1. /\ d \in Connections /\ SameClient(d) /\ d \in joined' /\ clientIsConnected'[d]
        /\ toClient[d] \in Seq(Messages) /\ ~ clientIsReady'[d]
    BY <1>3, <1>7, <1>11, PlayerIsIn, OthersSame
  <2>2. ~ closed[d] =>
          /\ m \in Messages /\ ToldTurn(p)[d] = <<m>>
          /\ Knows(ClientOf(d), id[d], Append(toClient[d], m), Advance(game))
          /\ AskedIn(Append(toClient[d], m), "ready") = {}
          /\ Append(toClient[d], m) \in Seq(Messages)
          /\ Len(Append(toClient[d], m)) = Len(toClient[d]) + 1
    BY <1>2, <1>4, TurnIsTold
  <2>3. e \in Messages
    BY <1>6, MessageFacts DEF MessageTypes
  <2>4. OnlyTurns(d)'
    BY <1>4 DEF OnlyTurns
  <2> HIDE DEF m, e, p
  <2>5. ~ closed[d] =>
          toClient[d] \o (ToldTurn(p)[d] \o <<e>>) = Append(Append(toClient[d], m), e)
    <3>1. SUFFICES ASSUME ~ closed[d]
                   PROVE  toClient[d] \o (ToldTurn(p)[d] \o <<e>>) = Append(Append(toClient[d], m), e)
      OBVIOUS
    <3>2. toClient[d] \o (<<m>> \o <<e>>) = Append(Append(toClient[d], m), e)
      BY <2>1, <2>2, <2>3, <3>1, OneSent
    <3> QED
      BY <2>2, <3>1, <3>2
  <2>6. ms \in Seq(Messages) /\ (~ closed[d] => ms = Append(toClient[d], m))
    BY <2>2, EmptySeq
  <2>7. ~ closed[d] => Len(ms) >= Len(toClient[d])
    <3>1. Len(toClient[d]) \in Nat
      BY <2>1, LenProperties
    <3> QED
      BY <2>2, <3>1
  <2> HIDE DEF ms
  <2>8. ~ closed[d] => /\ toClient[d] \o (ToldTurn(p)[d] \o <<e>>) = Append(ms, e)
                       /\ Knows(ClientOf(d), id[d], ms, Advance(game))
                       /\ AskedIn(ms, "ready") = {} /\ prompt[d] # "ready"
                       /\ Len(ms) >= Len(toClient[d])
    BY <1>4, <2>2, <2>5, <2>6, <2>7
  <2> QED
    BY <1>2, <1>5, <1>6, <1>9, <2>1, <2>4, <2>6, <2>8, OverStep DEF e
<1>13. \A d \in Connections : d \notin PlayersOf =>
         /\ toClient'[d] = toClient[d]
         /\ d \notin joined => clientIsReady'[d] = clientIsReady[d]
  BY <1>2, <1>7, <1>8, <1>11, SentFacts
<1>14. toClient' \in [Connections -> Seq(Messages)]
  <2>1. \A d \in Connections : toClient'[d] \in Seq(Messages)
    BY <1>12, <1>13 DEF SessionInv, TypeOK
  <2> QED
    BY <1>2, <2>1, SentFacts
<1> QED
  BY <1>3, <1>9, <1>11, <1>12, <1>13, <1>14, ReadAssemble

\* What onDisconnect does to the lobby of player c.
LEMMA LeftFacts ==
  ASSUME SessionInv, NEW c \in PlayersOf,
         NEW s, s = FirstOf(SeatsWithId(g, id, id[c])),
         NEW left, left = Release(g, s, clientIsReady[g.players[s]])
  PROVE  /\ s = id[c] - 1 /\ s \in Occupied(g) /\ g.players[s] = c
         /\ left.isPlayingGame = g.isPlayingGame
         /\ left.numReady = IF clientIsReady[c] /\ g.numReady > 0 THEN g.numReady - 1
                                                                   ELSE g.numReady
         /\ GameOver(left).numReady = 0 /\ ~ GameOver(left).isPlayingGame
         /\ \A h : h = (IF g.isPlayingGame THEN GameOver(left) ELSE left) =>
              /\ LobbyOK(h) /\ h.players = [g.players EXCEPT ![s] = Nobody]
              /\ Occupied(h) = Occupied(g) \ {s}
<1>1. /\ id[c] - 1 \in Occupied(g) /\ g.players[id[c] - 1] = c
      /\ SeatsWithId(g, id, id[c]) = {id[c] - 1} /\ id[c] \in 1 .. MaxPlayers
      /\ LobbyOK(g) /\ g \in Lobby
  BY PlayerFacts DEF SessionInv, Seating, LobbyOK
<1>2. id[c] - 1 \in Nat
  BY <1>1, SessionConstants
<1>3. s = id[c] - 1
  <2>1. SeatsWithId(g, id, id[c]) \in SUBSET Nat /\ SeatsWithId(g, id, id[c]) # {}
    BY <1>1, <1>2
  <2>2. s \in SeatsWithId(g, id, id[c])
    BY <2>1, FirstOfMember
  <2> QED
    BY <1>1, <2>2
<1>4. g.players[s] = c /\ s \in Occupied(g)
  BY <1>1, <1>3
<1>5. left = Release(g, s, clientIsReady[c])
  BY <1>4
<1>6. ASSUME NEW h, h = IF g.isPlayingGame THEN GameOver(left) ELSE left
      PROVE  /\ LobbyOK(h) /\ h.players = [g.players EXCEPT ![s] = Nobody]
             /\ Occupied(h) = Occupied(g) \ {s}
  <2> DEFINE wasReady == clientIsReady[c]
             then == IF g.isPlayingGame THEN GameOver(Release(g, s, wasReady))
                                        ELSE Release(g, s, wasReady)
  <2>1. h = then
    BY <1>5, <1>6
  <2> HIDE DEF wasReady
  <2>2. then = IF g.isPlayingGame THEN GameOver(Release(g, s, wasReady))
                                  ELSE Release(g, s, wasReady)
    OBVIOUS
  <2> HIDE DEF then
  <2>3. /\ LobbyOK(then) /\ then.players = [g.players EXCEPT ![s] = Nobody]
        /\ Occupied(then) = Occupied(g) \ {s}
    <3>1. LobbyOK(g) /\ s \in Occupied(g)
      BY <1>1, <1>4
    <3>2. LobbyOK(then)
      BY <2>2, <3>1, ReleaseStep
    <3>3. then.players = [g.players EXCEPT ![s] = Nobody]
      BY <2>2, <3>1, ReleaseStep
    <3>4. Occupied(then) = Occupied(g) \ {s}
      BY <2>2, <3>1, ReleaseStep
    <3> QED
      BY <3>2, <3>3, <3>4
  <2> QED
    BY <2>1, <2>3
<1>7. DOMAIN g = {"players", "numPlayers", "numReady", "isPlayingGame", "currentPlayer"}
  BY <1>1 DEF Lobby
<1>8. /\ left.isPlayingGame = g.isPlayingGame
      /\ left.numReady = IF clientIsReady[c] /\ g.numReady > 0 THEN g.numReady - 1 ELSE g.numReady
      /\ DOMAIN left = DOMAIN g
  BY <1>5, <1>7 DEF Release
<1>9. GameOver(left).numReady = 0 /\ ~ GameOver(left).isPlayingGame
  BY <1>7, <1>8 DEF GameOver
<1> QED
  BY <1>3, <1>4, <1>6, <1>8, <1>9

\* The players without c, in their seats.
LEMMA LeftSeating ==
  ASSUME SessionInv, NEW c \in PlayersOf, LobbyOK(g'),
         g'.players = [g.players EXCEPT ![id[c] - 1] = Nobody],
         Occupied(g') = Occupied(g) \ {id[c] - 1},
         UNCHANGED <<joined, id>>,
         clientIsConnected' = [clientIsConnected EXCEPT ![c] = FALSE]
  PROVE  Seating' /\ PlayersOf' = PlayersOf \ {c}
<1>1. /\ TypeOK /\ Seating /\ c \in Connections /\ c \in joined /\ clientIsConnected[c]
      /\ id[c] \in 1 .. MaxPlayers /\ id[c] - 1 \in Occupied(g) /\ g.players[id[c] - 1] = c
      /\ joined \subseteq Connections
      /\ clientIsConnected \in [Connections -> BOOLEAN]
      /\ g.players \in [Seats -> Connections \cup {Nobody}]
  BY PlayerIsIn, PlayerFacts DEF SessionInv, TypeOK, Lobby
<1>2. ASSUME NEW t \in Occupied(g')
      PROVE  /\ g'.players[t] \in joined' /\ clientIsConnected'[g'.players[t]]
             /\ id'[g'.players[t]] = t + 1
             /\ g'.players[t] \in PlayersOf \ {c}
  <2>1. t \in Occupied(g) /\ t # id[c] - 1 /\ t \in Seats
    BY <1>2 DEF Occupied
  <2>2. g'.players[t] = g.players[t]
    BY <1>1, <2>1
  <2>3. g.players[t] \in joined /\ clientIsConnected[g.players[t]] /\ id[g.players[t]] = t + 1
    BY <1>1, <2>1 DEF Seating
  <2>4. t \in Int /\ id[c] \in Int
    BY <1>1, <2>1, SessionConstants DEF Seats
  <2>5. g.players[t] # c
    BY <2>1, <2>3, <2>4
  <2>6. clientIsConnected'[g.players[t]]
    BY <1>1, <2>3, <2>5
  <2>7. g.players[t] \in PlayersOf
    BY <2>1 DEF PlayersOf
  <2> QED
    BY <2>2, <2>3, <2>5, <2>6, <2>7
<1>3. ASSUME NEW d \in joined, d # c, clientIsConnected[d]
      PROVE  /\ id[d] \in 1 .. MaxPlayers /\ g'.players[id[d] - 1] = d
             /\ id[d] - 1 \in Occupied(g')
  <2>1. d \in PlayersOf
    BY <1>1, <1>3, PlayerFacts
  <2>2. id[d] # id[c] /\ id[d] \in 1 .. MaxPlayers /\ g.players[id[d] - 1] = d
        /\ id[d] - 1 \in Occupied(g)
    BY <1>1, <1>3, <2>1, PlayerFacts
  <2>3. id[d] - 1 # id[c] - 1
    BY <1>1, <2>2, SessionConstants
  <2>4. id[d] - 1 \in Seats
    BY <2>2 DEF Occupied
  <2>5. g'.players[id[d] - 1] = g.players[id[d] - 1]
    BY <1>1, <2>3, <2>4
  <2> QED
    BY <2>2, <2>3, <2>5
<1>4. \A d \in joined : clientIsConnected'[d] => d # c /\ clientIsConnected[d]
  BY <1>1
<1>5. Seating'
  <2>1. \A d \in joined' : clientIsConnected'[d] =>
          id'[d] \in 1 .. MaxPlayers /\ g'.players[id'[d] - 1] = d
    BY <1>3, <1>4
  <2>2. \A t \in Occupied(g)' : LET d == g'.players[t]
                                IN  d \in joined' /\ clientIsConnected'[d] /\ id'[d] = t + 1
    BY <1>2 DEF Occupied
  <2> QED
    BY <2>1, <2>2 DEF Seating
<1>6. PlayersOf' = PlayersOf \ {c}
  <2>1. PlayersOf' = {g'.players[t] : t \in Occupied(g')}
    BY DEF PlayersOf, Occupied
  <2>2. \A d \in PlayersOf \ {c} : \E t \in Occupied(g') : g'.players[t] = d
    <3> TAKE d \in PlayersOf \ {c}
    <3>1. d \in joined /\ clientIsConnected[d]
      BY <1>1, PlayerFacts
    <3> QED
      BY <1>3, <3>1
  <2> QED
    BY <1>2, <2>1, <2>2
<1> QED
  BY <1>5, <1>6

LEMMA ReadClosedStep ==
  ASSUME SessionInv, NEW c \in Connections, ReadClosed(c)
  PROVE  SessionInv'
<1>1. PICK s : s = FirstOf(SeatsWithId(g, id, id[c]))
  OBVIOUS
<1>2. PICK left : left = Release(g, s, clientIsReady[g.players[s]])
  OBVIOUS
<1>3. /\ c \in joined /\ closed[c] /\ clientIsConnected[c]
      /\ clientIsConnected' = [clientIsConnected EXCEPT ![c] = FALSE]
      /\ toServer' = [toServer EXCEPT ![c] = <<>>]
      /\ UNCHANGED <<joined, id, playerId, copy, prompt, closed>>
      /\ g.isPlayingGame => EndGame(left, NoWinner, [d \in Connections |-> <<>>])
      /\ ~ g.isPlayingGame => g' = left /\ UNCHANGED <<game, clientIsReady, toClient>>
  BY <1>1, <1>2 DEF ReadClosed, clientVars
<1>4. /\ TypeOK /\ Seating /\ GameInStep
      /\ PlayersOf = {d \in joined : clientIsConnected[d]} /\ c \in PlayersOf
      /\ joined \subseteq Connections
      /\ clientIsConnected \in [Connections -> BOOLEAN]
      /\ toServer \in [Connections -> Seq(Answers)]
      /\ toClient \in [Connections -> Seq(Messages)]
      /\ game \in Game
  BY <1>3, PlayerFacts DEF SessionInv, TypeOK
<1>5. /\ s = id[c] - 1
      /\ left.isPlayingGame = g.isPlayingGame
      /\ left.numReady = IF clientIsReady[c] /\ g.numReady > 0 THEN g.numReady - 1 ELSE g.numReady
      /\ GameOver(left).numReady = 0 /\ ~ GameOver(left).isPlayingGame
      /\ \A h : h = (IF g.isPlayingGame THEN GameOver(left) ELSE left) =>
              /\ LobbyOK(h) /\ h.players = [g.players EXCEPT ![s] = Nobody]
              /\ Occupied(h) = Occupied(g) \ {s}
  BY <1>1, <1>2, <1>4, LeftFacts
<1>6. g' = IF g.isPlayingGame THEN GameOver(left) ELSE left
  BY <1>3 DEF EndGame
<1>7. LobbyOK(g') /\ Seating' /\ PlayersOf' = PlayersOf \ {c}
  <2>1. /\ LobbyOK(g') /\ g'.players = [g.players EXCEPT ![id[c] - 1] = Nobody]
        /\ Occupied(g') = Occupied(g) \ {id[c] - 1}
    BY <1>5, <1>6
  <2> QED
    BY <1>3, <1>4, <2>1, LeftSeating
<1>8. ~ g'.isPlayingGame
  BY <1>5, <1>6
<1>9. /\ toServer' \in [Connections -> Seq(Answers)] /\ toServer'[c] = <<>>
      /\ \A d \in Connections \ {c} : /\ toServer'[d] = toServer[d]
                                      /\ clientIsConnected'[d] = clientIsConnected[d]
      /\ clientIsConnected' \in [Connections -> BOOLEAN]
  <2>1. <<>> \in Seq(Answers)
    BY EmptySeq
  <2> QED
    BY <1>3, <1>4, <2>1
<1>10. \A d \in Connections : SameClient(d)
  BY <1>3 DEF SameClient
<1>11. /\ GameInStep' /\ game' \in Game /\ clientIsReady' \in [Connections -> BOOLEAN]
       /\ \A d \in Connections \ joined : clientIsReady'[d] = clientIsReady[d]
       /\ g.isPlayingGame => \A d \in joined : ~ clientIsReady'[d]
  <2>1. CASE g.isPlayingGame
    <3>1. /\ game' = NoGame(game.no)
          /\ clientIsReady' = [d \in Connections |-> d \notin joined /\ clientIsReady[d]]
      BY <1>3, <2>1 DEF EndGame
    <3>2. PlayersOf' \subseteq joined /\ g'.numReady = 0
      BY <1>4, <1>5, <1>6, <1>7, <2>1
    <3> QED
      BY <1>4, <1>8, <3>1, <3>2, OverInStep
  <2>2. CASE ~ g.isPlayingGame
    <3>1. game' = game /\ clientIsReady' = clientIsReady /\ g' = left
      BY <1>3, <2>2
    <3>2. ReadyPlayers' = ReadyPlayers \ {c}
      BY <1>7, <3>1 DEF ReadyPlayers
    <3>3. /\ IsFiniteSet(ReadyPlayers) /\ g.numReady = Cardinality(ReadyPlayers)
          /\ g.numReady \in Nat /\ g.numReady <= MaxPlayers
          /\ g.numReady # MaxPlayers
      <4>1. g.numPlayers <= MaxPlayers /\ g.numPlayers \in Nat
        BY <1>4, PlayersCount
      <4> QED
        BY <1>4, <2>2, <4>1, AllReady, SessionConstants DEF GameInStep
    <3>4. g'.numReady = Cardinality(ReadyPlayers') /\ g'.numReady # MaxPlayers
      <4>1. CASE clientIsReady[c]
        <5>1. c \in ReadyPlayers
          BY <1>4, <4>1 DEF ReadyPlayers
        <5>2. /\ Cardinality(ReadyPlayers \ {c}) = g.numReady - 1
              /\ IsFiniteSet(ReadyPlayers \ {c})
          BY <3>3, <5>1, FS_RemoveElement
        <5>3. g.numReady - 1 \in Nat
          BY <5>2, FS_CardinalityType
        <5>4. g'.numReady = g.numReady - 1
          BY <1>5, <3>1, <3>3, <4>1, <5>3
        <5> QED
          BY <3>2, <3>3, <5>2, <5>4, SessionConstants
      <4>2. CASE ~ clientIsReady[c]
        <5>1. ReadyPlayers \ {c} = ReadyPlayers
          BY <4>2 DEF ReadyPlayers
        <5> QED
          BY <1>5, <3>1, <3>2, <3>3, <4>2, <5>1
      <4> QED
        BY <4>1, <4>2
    <3>5. ~ Exists(game)'
      BY <1>4, <2>2, <3>1 DEF GameInStep, Exists
    <3>6. GameInStep'
      BY <1>8, <3>4, <3>5 DEF GameInStep
    <3> QED
      BY <1>4, <2>2, <3>1, <3>6 DEF TypeOK
  <2> QED
    BY <2>1, <2>2
<1>12. ASSUME NEW d \in PlayersOf, d # c
       PROVE  PlayerStep(d) /\ toClient'[d] \in Seq(Messages)
  <2>1. /\ d \in Connections /\ SameClient(d) /\ d \in joined' /\ clientIsConnected'[d]
        /\ toServer'[d] = toServer[d] /\ toClient[d] \in Seq(Messages) /\ InStep(d)
    BY <1>3, <1>9, <1>10, <1>12, PlayerIsIn
  <2>2. CASE g.isPlayingGame
    <3> DEFINE told == [e \in Connections |-> <<>>]
               over == Message("gameEnd", NoWinner)
    <3>1. toClient' = Sent(Then(told, ToAll(over)))
      BY <1>3, <2>2 DEF EndGame
    <3>2. NoWinner \in 0 .. MaxPlayers
      BY SessionConstants DEF NoWinner
    <3>3. over \in Messages
      BY <3>2, MessageFacts DEF MessageTypes
    <3>4. told[d] = <<>>
      BY <2>1
    <3>5. OnlyTurns(d)'
      BY <2>1, <2>2, WhenPlaying DEF OnlyTurns
    <3>6. ~ clientIsReady'[d] /\ game \in Game
      BY <1>4, <1>11, <2>2
    <3> HIDE DEF told
    <3>7. ~ closed[d] => toClient[d] \o (told[d] \o <<over>>) = Append(toClient[d], over)
      <4>1. toClient[d] \o (<<>> \o <<over>>) = Append(toClient[d], over)
        BY <2>1, <3>3, OneSent
      <4> QED
        BY <3>4, <4>1
    <3>8. ~ closed[d] => Knows(ClientOf(d), id[d], toClient[d], game)
      BY <2>2, PlayerKnows
    <3>9. ~ closed[d] => AskedIn(toClient[d], "ready") = {} /\ prompt[d] # "ready"
      BY <2>1, <2>2, WhenPlaying
    <3>10. Len(toClient[d]) >= Len(toClient[d])
      BY <2>1
    <3> QED
      BY <1>8, <2>1, <3>1, <3>2, <3>5, <3>6, <3>7, <3>8, <3>9, <3>10, OverStep
  <2>3. CASE ~ g.isPlayingGame
    <3>1. /\ game' = game /\ g'.isPlayingGame = g.isPlayingGame
          /\ clientIsReady'[d] = clientIsReady[d] /\ toClient'[d] = toClient[d]
      BY <1>3, <1>5, <2>3
    <3>2. SameExchange(d)
      BY <2>1, <3>1 DEF SameExchange
    <3> QED
      BY <2>1, <3>1, <3>2, StillStep
  <2> QED
    BY <2>2, <2>3
<1>13. /\ \A d \in Connections : d \notin PlayersOf' => toClient'[d] = toClient[d]
       /\ toClient' \in [Connections -> Seq(Messages)]
  <2>1. CASE g.isPlayingGame
    <3> DEFINE ms == Then([e \in Connections |-> <<>>], ToAll(Message("gameEnd", NoWinner)))
    <3>1. toClient' = Sent(ms)
      BY <1>3, <2>1 DEF EndGame
    <3> HIDE DEF ms
    <3>2. \A d \in Connections : d \notin PlayersOf' => toClient'[d] = toClient[d]
      <4>1. ASSUME NEW d \in Connections, d \notin PlayersOf'
            PROVE  ~ (d \in joined' /\ clientIsConnected'[d])
        BY <1>3, <1>4, <1>7, <1>9, <4>1
      <4> QED
        BY <3>1, <4>1, SentFacts
    <3>3. \A d \in Connections : toClient'[d] \in Seq(Messages)
      BY <1>4, <1>7, <1>12, <3>2
    <3> QED
      BY <3>1, <3>2, <3>3, SentFacts
  <2>2. CASE ~ g.isPlayingGame
    BY <1>3, <1>4, <2>2
  <2> QED
    BY <2>1, <2>2
<1>14. TypeOK'
  <2>1. g' \in Lobby
    BY <1>7 DEF LobbyOK
  <2> QED
    BY <1>3, <1>4, <1>9, <1>11, <1>13, <2>1 DEF TypeOK
<1>15. ASSUME NEW d \in Connections
       PROVE  Outside(d)'
  <2>1. Outside(d)
    BY DEF SessionInv
  <2>2. CASE d = c
    <3>1. d \notin PlayersOf'
      BY <1>7, <2>2
    <3> QED
      BY <1>3, <1>9, <1>13, <2>1, <2>2, <3>1 DEF Outside
  <2>3. CASE d # c
    <3>1. d \notin joined => d \notin PlayersOf'
      BY <1>4, <1>7
    <3>2. closed[d] => toClient'[d] = toClient[d]
      BY <1>7, <1>12, <1>13, <2>3 DEF PlayerStep
    <3> QED
      BY <1>3, <1>9, <1>11, <1>13, <2>1, <2>3, <3>1, <3>2 DEF Outside
  <2> QED
    BY <2>2, <2>3
<1>16. ASSUME NEW d \in Connections
       PROVE  \A i \in DOMAIN toServer'[d] : toServer'[d][i].player = id[d]
  <2>1. \A i \in DOMAIN toServer[d] : toServer[d][i].player = id[d]
    BY DEF SessionInv, Informed
  <2>2. CASE d = c
    BY <1>9, <2>2
  <2>3. CASE d # c
    BY <1>9, <2>1, <2>3
  <2> QED
    BY <2>2, <2>3
<1>17. \A d \in PlayersOf' : d \in PlayersOf /\ PlayerStep(d)
  BY <1>7, <1>12
<1> QED
  BY <1>3, <1>7, <1>11, <1>13, <1>14, <1>15, <1>16, <1>17, Assemble
-----------------------------------------------------------------------------
(***************************************************************************)
(* Steps of a client.                                                      *)
(***************************************************************************)

LEMMA OwnStep ==
  ASSUME SessionInv, NEW c \in Connections, UNCHANGED <<lobbyVars, connVars>>,
         \A d \in Connections \ {c} : SameExchange(d),
         TypeOK', Informed(c)', Outside(c)',
         c \in PlayersOf => InStep(c)',
         c \in PlayersOf /\ g.isPlayingGame /\ ~ closed'[c] => LastCopy(c)' = game
  PROVE  SessionInv'
<1>1. UNCHANGED <<g, game, joined, id, clientIsConnected, clientIsReady>>
  BY DEF lobbyVars, connVars
<1>2. PlayersOf' = PlayersOf /\ PlayersOf \subseteq Connections
  BY <1>1, SamePlayers, PlayerFacts DEF SessionInv
<1>3. Seating' /\ GameInStep'
  <2>1. Seating'
    BY <1>1 DEF SessionInv, Seating
  <2>2. GameInStep'
    BY <1>1, <1>2 DEF SessionInv, GameInStep, ReadyPlayers, Exists
  <2> QED
    BY <2>1, <2>2
<1>4. ASSUME NEW d \in Connections, d # c
      PROVE  /\ Informed(d)' /\ Outside(d)' /\ LastCopy(d)' = LastCopy(d)
             /\ d \in PlayersOf => InStep(d)'
             /\ closed'[d] = closed[d]
  <2>1. SameExchange(d) /\ Informed(d) /\ Outside(d) /\ (d \in PlayersOf => InStep(d))
    BY <1>4 DEF SessionInv
  <2>2. Informed(d)' /\ LastCopy(d)' = LastCopy(d)
    BY <2>1, SameInformed
  <2>3. Outside(d)'
    BY <1>1, <2>1 DEF Outside, SameExchange, SameClient
  <2>4. d \in PlayersOf => InStep(d)'
    BY <1>1, <2>1, SameInStep
  <2> QED
    BY <2>1, <2>2, <2>3, <2>4 DEF SameExchange, SameClient
<1>5. \A d \in Connections : Informed(d)' /\ Outside(d)'
  BY <1>4
<1>6. \A d \in PlayersOf' : InStep(d)'
  BY <1>2, <1>4
<1>7. CopyIsExact'
  <2>1. SUFFICES ASSUME g.isPlayingGame, NEW d \in PlayersOf, ~ closed'[d]
                 PROVE  LastCopy(d)' = game
    BY <1>1, <1>2 DEF CopyIsExact
  <2>2. CASE d = c
    BY <2>1, <2>2
  <2>3. CASE d # c
    BY <1>2, <1>4, <2>1, <2>3 DEF SessionInv, CopyIsExact
  <2> QED
    BY <2>2, <2>3
<1> QED
  BY <1>3, <1>5, <1>6, <1>7 DEF SessionInv

\* A prompt is what the message asks for, if it does.
LEMMA AsksFacts ==
  ASSUME NEW m \in Messages, NEW client, Fits(m, client), NEW asked
  PROVE  Asks(m, client.playerId, asked) = IF AskedBy(m) = "none" THEN asked ELSE AskedBy(m)
BY DEF Asks, AskedBy, Fits, Messages, MessageTypes

\* The messages without the first of them.
Shifted(ns, ms) ==
  /\ Len(ns) \in Nat /\ Len(ms) = Len(ns) + 1
  /\ \A what : AskedIn(ns, what) = {i \in 1 .. Len(ns) : i + 1 \in AskedIn(ms, what)}

LEMMA ShiftedFacts ==
  ASSUME NEW ns, NEW ms, NEW what, Shifted(ns, ms)
  PROVE  /\ AskedIn(ms, what) = {} => AskedIn(ns, what) = {}
         /\ AskedIn(ms, what) = {1} => AskedIn(ns, what) = {}
         /\ \A k \in 1 .. Len(ms) : AskedIn(ms, what) = {k} /\ k # 1 =>
              k - 1 \in 1 .. Len(ns) /\ AskedIn(ns, what) = {k - 1}
BY DEF Shifted

LEMMA HandleReadStep ==
  ASSUME SessionInv, NEW c \in Connections, HandleRead(c)
  PROVE  SessionInv'
<1> DEFINE client == ClientOf(c)
           ms == toClient[c]
           m == Head(ms)
           new == Learns(m, client)
           ns == Tail(ms)
<1>1. /\ ms # <<>> /\ ~ closed[c]
      /\ playerId' = [playerId EXCEPT ![c] = new.playerId]
      /\ copy' = [copy EXCEPT ![c] = new.copy]
      /\ prompt' = [prompt EXCEPT ![c] = Asks(m, playerId[c], prompt[c])]
      /\ toClient' = [toClient EXCEPT ![c] = ns]
      /\ UNCHANGED <<g, game, joined, id, clientIsConnected, clientIsReady, closed, toServer>>
  BY DEF HandleRead, lobbyVars, connVars
<1>2. /\ TypeOK /\ Informed(c) /\ Outside(c)
      /\ toClient \in [Connections -> Seq(Messages)] /\ ms \in Seq(Messages)
      /\ playerId \in [Connections -> 0 .. MaxPlayers] /\ copy \in [Connections -> Game]
      /\ prompt \in [Connections -> {"none", "ready", "turn"}]
  BY DEF SessionInv, TypeOK
<1>3. c \in PlayersOf /\ InStep(c)
  BY <1>1, <1>2, PlayerFacts DEF Outside, SessionInv
<1>4. ns \in Seq(Messages) /\ OneLess(ns, ms, m) /\ m \in Messages
  BY <1>1, <1>2, AppendTail
<1>5. Handles(client, id[c], ms)
  BY <1>2 DEF Informed
<1>6. /\ playerId'[c] = new.playerId /\ copy'[c] = new.copy /\ toClient'[c] = ns
      /\ prompt'[c] = Asks(m, playerId[c], prompt[c])
      /\ client.playerId = playerId[c]
      /\ new = [playerId |-> new.playerId, copy |-> new.copy]
  BY <1>1, <1>2 DEF ClientOf, Learns
<1>7. PICK asked : asked = AskedBy(m)
  OBVIOUS
<1> HIDE DEF client, ms, m, new, ns
<1>8. new = Learns(m, client)
  BY DEF new
<1>9. /\ Handles(new, id[c], ns)
      /\ new \in Client /\ new.playerId = id[c]
      /\ \A i \in 0 .. Len(ns) : Replayed(new, ns)[i] = Replayed(client, ms)[i + 1]
      /\ Fits(m, client)
      /\ \A what : 1 \in AskedIn(ms, what) <=> asked = what
      /\ Shifted(ns, ms)
  <2>1. /\ Len(ms) = Len(ns) + 1
        /\ Handles(new, id[c], ns)
        /\ new \in Client /\ new.playerId = id[c]
        /\ \A i \in 0 .. Len(ns) : Replayed(new, ns)[i] = Replayed(client, ms)[i + 1]
        /\ Fits(m, client)
        /\ \A what : AskedIn(ns, what) = {i \in 1 .. Len(ns) : i + 1 \in AskedIn(ms, what)}
        /\ \A what : 1 \in AskedIn(ms, what) <=> AskedBy(m) = what
    BY <1>2, <1>4, <1>5, <1>8, HandlesTail
  <2>2. Shifted(ns, ms)
    BY <1>4, <2>1, LenProperties DEF Shifted
  <2> QED
    BY <1>7, <2>1, <2>2
<1>10. /\ prompt'[c] = IF asked = "none" THEN prompt[c] ELSE asked
       /\ asked \in {"ready", "turn", "none"}
  BY <1>4, <1>6, <1>7, <1>9, AsksFacts, AskedByFacts
<1>11. ClientOf(c)' = new
  BY <1>6 DEF ClientOf
<1>12. Replay(c)' = Replayed(new, ns) /\ Replay(c) = Replayed(client, ms)
  BY <1>6, <1>11 DEF Replay, client, ms
<1>13. Len(ns) \in Nat /\ Len(ms) = Len(ns) + 1
  BY <1>9 DEF Shifted
<1>14. LastCopy(c)' = LastCopy(c)
  <2>1. Replayed(new, ns)[Len(ns)] = Replayed(client, ms)[Len(ms)]
    BY <1>9, <1>13
  <2>2. LastCopy(c)' = Replayed(new, ns)[Len(ns)].copy
    BY <1>6, <1>12 DEF LastCopy
  <2>3. LastCopy(c) = Replayed(client, ms)[Len(ms)].copy
    BY <1>12 DEF LastCopy, ms
  <2> QED
    BY <2>1, <2>2, <2>3
<1>15. Informed(c)'
  <2>1. Handles(ClientOf(c)', id'[c], toClient'[c])
    BY <1>1, <1>6, <1>9, <1>11
  <2>2. playerId'[c] = id'[c]
    BY <1>1, <1>6, <1>9
  <2>3. \A i \in DOMAIN toServer'[c] : toServer'[c][i].player = id'[c]
    BY <1>1, <1>2 DEF Informed
  <2> QED
    BY <2>1, <2>2, <2>3 DEF Informed
<1>16. \A k \in Nat : SeesGame(c, k + 1) => SeesGame(c, k)'
  <2> TAKE k \in Nat
  <2> HAVE SeesGame(c, k + 1)
  <2>1. ASSUME NEW j \in k .. Len(ns) PROVE Replayed(new, ns)[j].copy = game
    <3>1. j \in 0 .. Len(ns) /\ j + 1 \in k + 1 .. Len(ms)
      BY <1>13
    <3>2. Replayed(client, ms)[j + 1].copy = game
      BY <1>12, <3>1 DEF SeesGame, ms
    <3> QED
      BY <1>9, <3>1, <3>2
  <2> QED
    BY <1>1, <1>6, <1>12, <2>1 DEF SeesGame
<1>17. NothingIsSent(c) => NothingIsSent(c)' /\ prompt'[c] = prompt[c]
  <2>1. SUFFICES ASSUME AskedIn(ms, "turn") = {}, AskedIn(ms, "ready") = {}
                 PROVE  NothingIsSent(c)' /\ prompt'[c] = prompt[c]
    BY DEF NothingIsSent, ms
  <2>2. AskedIn(ns, "turn") = {} /\ AskedIn(ns, "ready") = {}
    BY <1>9, <2>1, ShiftedFacts
  <2>3. asked = "none"
    BY <1>9, <1>10, <2>1
  <2> QED
    BY <1>6, <1>10, <2>2, <2>3 DEF NothingIsSent
<1>18. IsToMove(c) => IsToMove(c)'
  <2>1. CASE /\ toServer[c] = <<>> /\ prompt[c] = "none" /\ AskedIn(ms, "ready") = {}
             /\ \E k \in DOMAIN ms : AskedIn(ms, "turn") = {k} /\ SeesGame(c, k)
    <3>1. PICK k \in DOMAIN ms : AskedIn(ms, "turn") = {k} /\ SeesGame(c, k)
      BY <2>1
    <3>2. k \in 1 .. Len(ms) /\ k - 1 \in Nat /\ k - 1 + 1 = k
      BY <1>2, <1>13, <3>1
    <3>3. SeesGame(c, k - 1)'
      BY <1>16, <3>1, <3>2
    <3>4. AskedIn(ns, "ready") = {} /\ asked # "ready"
      BY <1>9, <2>1, ShiftedFacts
    <3>5. CASE k = 1
      <4>1. AskedIn(ns, "turn") = {}
        BY <1>9, <3>1, <3>5, ShiftedFacts
      <4>2. asked = "turn"
        BY <1>9, <3>1, <3>5
      <4>3. SeesGame(c, 0)'
        BY <3>3, <3>5
      <4> QED
        BY <1>1, <1>6, <1>10, <2>1, <3>4, <4>1, <4>2, <4>3 DEF IsToMove, NothingIsSent
    <3>6. CASE k # 1
      <4>1. PICK l \in 1 .. Len(ns) : l = k - 1 /\ AskedIn(ns, "turn") = {l}
        BY <1>9, <3>1, <3>2, <3>6, ShiftedFacts
      <4>2. asked = "none"
        BY <1>9, <1>10, <3>1, <3>4, <3>6
      <4>3. SeesGame(c, l)' /\ l \in DOMAIN ns
        BY <1>4, <3>3, <4>1
      <4> QED
        BY <1>1, <1>6, <1>10, <2>1, <3>4, <4>1, <4>2, <4>3 DEF IsToMove
    <3> QED
      BY <3>5, <3>6
  <2>2. CASE /\ Len(toServer[c]) = 1
             /\ toServer[c][1].type = "takeTurn" /\ toServer[c][1].seen = game
             /\ prompt[c] = "none" /\ NothingIsSent(c)
    BY <1>1, <1>17, <2>2 DEF IsToMove
  <2>3. CASE toServer[c] = <<>> /\ prompt[c] = "turn" /\ NothingIsSent(c) /\ SeesGame(c, 0)
    <3>1. SeesGame(c, 1)
      BY <2>3 DEF SeesGame
    <3>2. SeesGame(c, 0)'
      BY <1>16, <3>1
    <3> QED
      BY <1>1, <1>17, <2>3, <3>2 DEF IsToMove
  <2> QED
    BY <1>1, <2>1, <2>2, <2>3 DEF IsToMove, ms
<1>19. IsToBeReady(c) => IsToBeReady(c)'
  <2>1. OnlyTurns(c)' = OnlyTurns(c)
    BY <1>1 DEF OnlyTurns
  <2>2. CASE /\ OnlyTurns(c) /\ prompt[c] # "ready"
             /\ \E k \in DOMAIN ms :
                  AskedIn(ms, "ready") = {k} /\ \A j \in AskedIn(ms, "turn") : j < k
    <3>1. PICK k \in DOMAIN ms : AskedIn(ms, "ready") = {k} /\ \A j \in AskedIn(ms, "turn") : j < k
      BY <2>2
    <3>2. k \in 1 .. Len(ms)
      BY <1>2, <3>1
    <3>3. \A i \in AskedIn(ns, "turn") : i \in 1 .. Len(ns) /\ i + 1 < k
      BY <1>9, <3>1 DEF Shifted
    <3>4. CASE k = 1
      <4>1. AskedIn(ns, "ready") = {} /\ AskedIn(ns, "turn") = {}
        <5>1. AskedIn(ns, "ready") = {}
          BY <1>9, <3>1, <3>4, ShiftedFacts
        <5>2. \A i \in AskedIn(ns, "turn") : FALSE
          BY <1>13, <3>3, <3>4
        <5> QED
          BY <5>1, <5>2
      <4>2. asked = "ready"
        BY <1>9, <3>1, <3>4
      <4> QED
        BY <1>6, <1>10, <2>1, <2>2, <4>1, <4>2 DEF IsToBeReady, NothingIsSent
    <3>5. CASE k # 1
      <4>1. PICK l \in 1 .. Len(ns) : l = k - 1 /\ AskedIn(ns, "ready") = {l}
        BY <1>9, <3>1, <3>2, <3>5, ShiftedFacts
      <4>2. asked # "ready"
        BY <1>9, <3>1, <3>5
      <4>3. l \in DOMAIN ns /\ \A j \in AskedIn(ns, "turn") : j < l
        BY <1>4, <1>13, <3>2, <3>3, <4>1
      <4> QED
        BY <1>6, <1>10, <2>1, <2>2, <4>1, <4>2, <4>3 DEF IsToBeReady
    <3> QED
      BY <3>4, <3>5
  <2>3. CASE OnlyTurns(c) /\ prompt[c] = "ready" /\ NothingIsSent(c)
    BY <1>17, <2>1, <2>3 DEF IsToBeReady
  <2>4. CASE /\ \E n \in DOMAIN toServer[c] :
                  /\ n = Len(toServer[c]) /\ toServer[c][n].type = "ready"
                  /\ \A i \in 1 .. n - 1 : toServer[c][i].type = "takeTurn"
             /\ prompt[c] = "none" /\ NothingIsSent(c)
    BY <1>1, <1>17, <2>4 DEF IsToBeReady
  <2> QED
    BY <1>1, <2>2, <2>3, <2>4 DEF IsToBeReady, ms
<1>20. InStep(c)'
  BY <1>1, <1>3, <1>17, <1>18, <1>19 DEF InStep, Idle
<1>21. TypeOK'
  <2>1. new.playerId \in 0 .. MaxPlayers /\ new.copy \in Game
    BY <1>9 DEF Client
  <2>2. playerId' \in [Connections -> 0 .. MaxPlayers] /\ copy' \in [Connections -> Game]
    BY <1>1, <1>2, <2>1
  <2>3. prompt' \in [Connections -> {"none", "ready", "turn"}]
    BY <1>1, <1>2, <1>6, <1>10
  <2>4. toClient' \in [Connections -> Seq(Messages)]
    BY <1>1, <1>2, <1>4
  <2> QED
    BY <1>1, <1>2, <2>2, <2>3, <2>4 DEF TypeOK
<1>22. Outside(c)'
  BY <1>1, <1>2 DEF Outside, ms
<1>23. \A d \in Connections \ {c} : SameExchange(d)
  BY <1>1, <1>2 DEF SameExchange, SameClient
<1>24. ~ closed[c] /\ g.isPlayingGame => LastCopy(c)' = game
  BY <1>3, <1>14 DEF SessionInv, CopyIsExact
<1> QED
  BY <1>1, <1>15, <1>20, <1>21, <1>22, <1>23, <1>24, OwnStep DEF lobbyVars, connVars

LEMMA AnswerStep ==
  ASSUME SessionInv, NEW c \in Connections, Answer(c)
  PROVE  SessionInv'
<1> DEFINE answer == [type |-> IF prompt[c] = "turn" THEN "takeTurn" ELSE "ready",
                      player |-> playerId[c], seen |-> copy[c]]
           t == toServer[c]
           u == Append(t, answer)
<1>1. /\ prompt[c] # "none"
      /\ prompt' = [prompt EXCEPT ![c] = "none"]
      /\ toServer' = [toServer EXCEPT ![c] = u]
      /\ UNCHANGED <<g, game, joined, id, clientIsConnected, clientIsReady, closed, toClient,
                     playerId, copy>>
  BY DEF Answer, lobbyVars, connVars
<1>2. /\ TypeOK /\ Informed(c) /\ Outside(c)
      /\ toServer \in [Connections -> Seq(Answers)] /\ t \in Seq(Answers)
      /\ prompt \in [Connections -> {"none", "ready", "turn"}]
      /\ prompt[c] \in {"ready", "turn"} /\ copy[c] \in Game
  BY <1>1 DEF SessionInv, TypeOK
<1>3. ~ closed[c] /\ c \in joined /\ clientIsConnected[c]
  BY <1>1, <1>2 DEF Outside
<1>4. c \in PlayersOf /\ InStep(c) /\ id[c] \in 1 .. MaxPlayers
  BY <1>3, PlayerFacts DEF SessionInv
<1>5. playerId[c] = id[c]
  BY <1>1, <1>2, <1>3 DEF Informed
<1>6. /\ answer \in Answers /\ answer.player = id[c] /\ answer.seen = copy[c]
      /\ answer.type = IF prompt[c] = "turn" THEN "takeTurn" ELSE "ready"
  BY <1>2, <1>4, <1>5 DEF Answers
<1> HIDE DEF answer, t
<1>7. /\ u \in Seq(Answers) /\ Len(t) \in Nat /\ Len(u) = Len(t) + 1
      /\ DOMAIN t = 1 .. Len(t) /\ DOMAIN u = 1 .. Len(t) + 1
      /\ u[Len(t) + 1] = answer /\ \A i \in 1 .. Len(t) : u[i] = t[i]
  BY <1>2, <1>6
<1> HIDE DEF u
<1>8. toServer'[c] = u /\ prompt'[c] = "none"
  BY <1>1, <1>2
<1>9. ClientOf(c)' = ClientOf(c) /\ Replay(c)' = Replay(c) /\ LastCopy(c)' = LastCopy(c)
  <2>1. ClientOf(c)' = ClientOf(c)
    BY <1>1 DEF ClientOf
  <2>2. Replay(c)' = Replay(c)
    BY <1>1, <2>1 DEF Replay
  <2> QED
    BY <1>1, <2>1, <2>2 DEF LastCopy
<1>10. Informed(c)'
  <2>1. Handles(ClientOf(c)', id'[c], toClient'[c])
    BY <1>1, <1>2, <1>9 DEF Informed
  <2>2. \A i \in DOMAIN t : t[i].player = id[c]
    BY <1>2 DEF Informed, t
  <2>3. \A i \in DOMAIN u : u[i].player = id[c]
    BY <1>6, <1>7, <2>2
  <2>4. playerId'[c] = id'[c]
    BY <1>1, <1>5
  <2>5. \A i \in DOMAIN toServer'[c] : toServer'[c][i].player = id'[c]
    BY <1>1, <1>8, <2>3
  <2> QED
    BY <2>1, <2>4, <2>5 DEF Informed
<1>11. NothingIsSent(c)' = NothingIsSent(c) /\ (OnlyTurns(c) => \A i \in 1 .. Len(t) : u[i].type = "takeTurn")
  BY <1>1, <1>7 DEF NothingIsSent, OnlyTurns, t
<1>12. IsToMove(c) => IsToMove(c)'
  <2>1. SUFFICES ASSUME IsToMove(c) PROVE IsToMove(c)'
    OBVIOUS
  <2>2. toServer[c] = <<>> /\ prompt[c] = "turn" /\ NothingIsSent(c) /\ SeesGame(c, 0)
    BY <1>1, <1>3, <2>1 DEF IsToMove
  <2>3. copy[c] = game
    <3>1. 0 \in 0 .. Len(toClient[c])
      BY <1>4, PlayerIsIn, LenProperties
    <3>2. Replay(c)[0] = ClientOf(c)
      BY <1>4, PlayerIsIn, LenProperties, ReplayedStep DEF Replay
    <3> QED
      BY <2>2, <3>1, <3>2 DEF SeesGame, ClientOf
  <2>4. Len(t) = 0
    BY <2>2 DEF t
  <2>5. Len(u) = 1 /\ u[1].type = "takeTurn" /\ u[1].seen = game
    BY <1>6, <1>7, <2>2, <2>3, <2>4
  <2> QED
    BY <1>1, <1>8, <1>11, <2>2, <2>5 DEF IsToMove
<1>13. IsToBeReady(c) => IsToBeReady(c)'
  <2>1. SUFFICES ASSUME IsToBeReady(c) PROVE IsToBeReady(c)'
    OBVIOUS
  <2>2. OnlyTurns(c)
    BY <1>1, <1>3, <2>1 DEF IsToBeReady
  <2>3. CASE prompt[c] = "ready"
    <3>1. NothingIsSent(c)
      BY <1>1, <1>3, <2>1, <2>3 DEF IsToBeReady
    <3>2. PICK n \in DOMAIN u : n = Len(t) + 1
      BY <1>7
    <3>3. n = Len(u) /\ u[n].type = "ready" /\ \A i \in 1 .. n - 1 : u[i].type = "takeTurn"
      BY <1>6, <1>7, <1>11, <2>2, <2>3, <3>2
    <3> QED
      BY <1>8, <1>11, <3>1, <3>3 DEF IsToBeReady
  <2>4. CASE prompt[c] = "turn"
    <3>1. OnlyTurns(c)'
      BY <1>6, <1>7, <1>8, <1>11, <2>2, <2>4 DEF OnlyTurns
    <3>2. \E k \in DOMAIN toClient[c] :
             AskedIn(toClient[c], "ready") = {k} /\ \A j \in AskedIn(toClient[c], "turn") : j < k
      BY <1>3, <2>1, <2>2, <2>4 DEF IsToBeReady
    <3> QED
      BY <1>1, <1>8, <3>1, <3>2 DEF IsToBeReady
  <2> QED
    BY <1>2, <2>3, <2>4
<1>14. InStep(c)'
  BY <1>1, <1>4, <1>12, <1>13 DEF InStep, Idle
<1>15. TypeOK'
  <2>1. toServer' \in [Connections -> Seq(Answers)]
    BY <1>1, <1>2, <1>7
  <2>2. prompt' \in [Connections -> {"none", "ready", "turn"}]
    BY <1>1, <1>2
  <2> QED
    BY <1>1, <1>2, <2>1, <2>2 DEF TypeOK
<1>16. Outside(c)'
  BY <1>1, <1>3 DEF Outside
<1>17. \A d \in Connections \ {c} : SameExchange(d)
  BY <1>1, <1>2 DEF SameExchange, SameClient
<1>18. ~ closed[c] /\ g.isPlayingGame => LastCopy(c)' = game
  BY <1>4, <1>9 DEF SessionInv, CopyIsExact
<1> QED
  BY <1>1, <1>10, <1>14, <1>15, <1>16, <1>17, <1>18, OwnStep DEF lobbyVars, connVars

LEMMA HandlesNothing ==
  ASSUME NEW client \in Client, NEW me
  PROVE  /\ Handles(client, me, <<>>) /\ Replayed(client, <<>>)[0] = client
         /\ <<>> \in Seq(Messages) /\ Len(<<>>) = 0
         /\ \A what : AskedIn(<<>>, what) = {}
<1>1. <<>> \in Seq(Messages) /\ Len(<<>>) = 0
  BY EmptySeq
<1>2. Replayed(client, <<>>)[0] = client
  BY <1>1, ReplayedStep
<1>3. Handles(client, me, <<>>)
  <2>1. \A i \in 0 .. Len(<<>>) : i = 0
    BY <1>1
  <2>2. \A i \in 1 .. Len(<<>>) : FALSE
    BY <1>1
  <2> QED
    BY <1>2, <2>1, <2>2 DEF Handles
<1>4. \A what : AskedIn(<<>>, what) = {}
  BY DEF AskedIn
<1> QED
  BY <1>1, <1>2, <1>3, <1>4

LEMMA CloseStep ==
  ASSUME SessionInv, NEW c \in Connections, Close(c)
  PROVE  SessionInv'
<1>1. /\ c \in joined /\ ~ closed[c]
      /\ closed' = [closed EXCEPT ![c] = TRUE]
      /\ prompt' = [prompt EXCEPT ![c] = "none"]
      /\ toClient' = [toClient EXCEPT ![c] = <<>>]
      /\ UNCHANGED <<g, game, joined, id, clientIsConnected, clientIsReady, toServer,
                     playerId, copy>>
  BY DEF Close, lobbyVars, connVars
<1>2. /\ TypeOK /\ Informed(c) /\ Outside(c)
      /\ toClient \in [Connections -> Seq(Messages)]
      /\ prompt \in [Connections -> {"none", "ready", "turn"}]
      /\ closed \in [Connections -> BOOLEAN]
  BY DEF SessionInv, TypeOK
<1>3. clientIsConnected[c] /\ c \in PlayersOf /\ InStep(c)
  BY <1>1, <1>2, PlayerFacts DEF Outside, SessionInv
<1>4. toClient'[c] = <<>> /\ prompt'[c] = "none" /\ closed'[c]
  BY <1>1, <1>2
<1>5. Informed(c)'
  <2>1. ClientOf(c)' = ClientOf(c) /\ ClientOf(c) \in Client
    BY <1>1, <1>2 DEF ClientOf, Client, TypeOK
  <2>2. Handles(ClientOf(c), id[c], <<>>)
    BY <2>1, HandlesNothing
  <2> QED
    BY <1>1, <1>2, <1>4, <2>1, <2>2 DEF Informed
<1>6. NothingIsSent(c)' /\ OnlyTurns(c)' = OnlyTurns(c)
  BY <1>1, <1>4 DEF NothingIsSent, AskedIn, OnlyTurns
<1>7. Idle(c) => Idle(c)'
  BY <1>1, <1>4, <1>6 DEF Idle
<1>8. IsToMove(c) => IsToMove(c)'
  BY <1>1, <1>4, <1>6 DEF IsToMove
<1>9. IsToBeReady(c) => IsToBeReady(c)'
  BY <1>1, <1>4, <1>6 DEF IsToBeReady
<1>10. InStep(c)'
  BY <1>1, <1>3, <1>7, <1>8, <1>9 DEF InStep
<1>11. TypeOK'
  <2>1. <<>> \in Seq(Messages)
    BY EmptySeq
  <2> QED
    BY <1>1, <1>2, <2>1 DEF TypeOK
<1>12. Outside(c)'
  BY <1>1, <1>3, <1>4 DEF Outside
<1>13. \A d \in Connections \ {c} : SameExchange(d)
  BY <1>1, <1>2 DEF SameExchange, SameClient
<1> QED
  BY <1>1, <1>4, <1>5, <1>10, <1>11, <1>12, <1>13, OwnStep DEF lobbyVars, connVars

LEMMA StutterStep ==
  ASSUME SessionInv, UNCHANGED vars
  PROVE  SessionInv'
<1>1. UNCHANGED <<g, game, joined, id, clientIsConnected, clientIsReady, toClient, toServer,
                  playerId, copy, prompt, closed>>
  BY DEF vars, lobbyVars, connVars, clientVars
<1>2. PlayersOf' = PlayersOf /\ PlayersOf \subseteq Connections
  BY <1>1, SamePlayers, PlayerFacts DEF SessionInv
<1>3. \A d \in Connections : SameExchange(d)
  BY <1>1 DEF SameExchange, SameClient
<1>4. \A d \in Connections : Informed(d)' /\ LastCopy(d)' = LastCopy(d)
  BY <1>3, SameInformed DEF SessionInv
<1>5. \A d \in PlayersOf' : InStep(d)'
  BY <1>1, <1>2, <1>3, SameInStep DEF SessionInv
<1>6. TypeOK' /\ Seating'
  BY <1>1 DEF SessionInv, TypeOK, Seating
<1>7. GameInStep'
  BY <1>1, <1>2 DEF SessionInv, GameInStep, ReadyPlayers, Exists
<1>8. \A d \in Connections : Outside(d)'
  BY <1>1 DEF SessionInv, Outside
<1>9. CopyIsExact'
  BY <1>1, <1>2, <1>4 DEF SessionInv, CopyIsExact
<1> QED
  BY <1>4, <1>5, <1>6, <1>7, <1>8, <1>9 DEF SessionInv

\* One more player, in a seat of its own.
LEMMA ArriveSeating ==
  ASSUME SessionInv, NEW c \in Connections, c \notin joined, CanAddPlayers(g),
         g' = AddPlayer(g, c), id' = [id EXCEPT ![c] = NewId(g)],
         joined' = joined \cup {c}, clientIsConnected' = clientIsConnected
  PROVE  /\ Seating' /\ PlayersOf' = PlayersOf \cup {c} /\ c \notin PlayersOf
         /\ NewId(g) \in 1 .. MaxPlayers
         /\ g'.isPlayingGame = g.isPlayingGame /\ g'.numReady = g.numReady
         /\ ~ g.isPlayingGame
<1> DEFINE k == FirstAvailableId(g)
           h == AddPlayer(g, c)
<1>1. /\ TypeOK /\ Seating /\ LobbyOK(g) /\ g \in Lobby
      /\ joined \subseteq Connections /\ Outside(c)
      /\ id \in [Connections -> 0 .. MaxPlayers]
      /\ g.players \in [Seats -> Connections \cup {Nobody}]
  BY DEF SessionInv, TypeOK, Seating, LobbyOK, Lobby
<1>2. /\ LobbyOK(h)
      /\ h.players = [g.players EXCEPT ![k] = c]
      /\ Occupied(h) = Occupied(g) \cup {k}
      /\ k \in Seats \ Occupied(g)
      /\ NewId(g) \in 1 .. MaxPlayers
  BY <1>1, AddPlayerStep
<1>3. h.isPlayingGame = g.isPlayingGame /\ h.numReady = g.numReady
  BY <1>1 DEF AddPlayer, Lobby
<1> HIDE DEF h
<1>4. g' = h
  BY DEF h
<1>5. id'[c] = k + 1 /\ \A d \in Connections \ {c} : id'[d] = id[d]
  BY <1>1 DEF NewId
<1>6. clientIsConnected[c]
  BY <1>1 DEF Outside
<1> HIDE DEF k
<1>7. ASSUME NEW s \in Occupied(h)
      PROVE  /\ h.players[s] \in joined' /\ clientIsConnected[h.players[s]]
             /\ id'[h.players[s]] = s + 1
             /\ h.players[s] \in PlayersOf \cup {c}
  <2>1. CASE s = k
    BY <1>1, <1>2, <1>5, <1>6, <2>1
  <2>2. CASE s # k
    <3>1. s \in Occupied(g) /\ s \in Seats
      BY <1>2, <2>2 DEF Occupied
    <3>2. h.players[s] = g.players[s]
      BY <1>1, <1>2, <2>2, <3>1
    <3>3. g.players[s] \in joined /\ clientIsConnected[g.players[s]] /\ id[g.players[s]] = s + 1
      BY <1>1, <3>1 DEF Seating
    <3>4. id'[g.players[s]] = id[g.players[s]]
      BY <1>1, <1>5, <3>3
    <3> QED
      BY <3>1, <3>2, <3>3, <3>4 DEF PlayersOf
  <2> QED
    BY <2>1, <2>2
<1>8. ASSUME NEW d \in joined', clientIsConnected[d]
      PROVE  /\ id'[d] \in 1 .. MaxPlayers /\ h.players[id'[d] - 1] = d
             /\ id'[d] - 1 \in Occupied(h)
  <2>1. CASE d = c
    <3>1. id'[d] - 1 = k
      BY <1>2, <1>5, <2>1, SessionConstants DEF Seats
    <3> QED
      BY <1>1, <1>2, <1>5, <2>1, <3>1 DEF NewId, k
  <2>2. CASE d # c
    <3>1. d \in joined /\ d \in Connections /\ id'[d] = id[d]
      BY <1>1, <1>5, <2>2
    <3>2. d \in PlayersOf
      BY <1>1, <1>8, <3>1, PlayerFacts
    <3>3. id[d] \in 1 .. MaxPlayers /\ g.players[id[d] - 1] = d /\ id[d] - 1 \in Occupied(g)
      BY <1>1, <3>2, PlayerFacts
    <3>4. id[d] - 1 \in Seats /\ id[d] - 1 # k
      BY <1>2, <3>3 DEF Occupied
    <3>5. h.players[id[d] - 1] = g.players[id[d] - 1]
      BY <1>1, <1>2, <3>4
    <3> QED
      BY <1>2, <3>1, <3>3, <3>5
  <2> QED
    BY <2>1, <2>2
<1>9. Seating'
  <2>1. \A d \in joined' : clientIsConnected'[d] =>
          id'[d] \in 1 .. MaxPlayers /\ g'.players[id'[d] - 1] = d
    BY <1>4, <1>8
  <2>2. \A s \in Occupied(g)' : LET d == g'.players[s]
                                IN  d \in joined' /\ clientIsConnected'[d] /\ id'[d] = s + 1
    BY <1>4, <1>7 DEF Occupied
  <2> QED
    BY <1>2, <1>4, <2>1, <2>2 DEF Seating
<1>10. PlayersOf = {d \in joined : clientIsConnected[d]}
  BY <1>1, PlayerFacts
<1>11. PlayersOf' = PlayersOf \cup {c} /\ c \notin PlayersOf
  <2>1. PlayersOf' = {h.players[s] : s \in Occupied(h)}
    BY <1>4 DEF PlayersOf, Occupied
  <2>2. \A d \in PlayersOf \cup {c} : d \in joined' /\ clientIsConnected[d]
    BY <1>6, <1>10
  <2> QED
    BY <1>7, <1>8, <1>10, <2>1, <2>2
<1>12. ~ g.isPlayingGame
  BY DEF CanAddPlayers
<1> QED
  BY <1>2, <1>3, <1>4, <1>9, <1>11, <1>12

LEMMA ArriveStep ==
  ASSUME SessionInv, NEW c \in Connections, Arrive(c)
  PROVE  SessionInv'
<1> DEFINE me == NewId(g)
           m == Message("connected", me)
           ms == [d \in Connections |-> IF d = c THEN <<m>> ELSE <<>>]
<1>1. /\ c \notin joined /\ CanAddPlayers(g)
      /\ joined' = joined \cup {c} /\ g' = AddPlayer(g, c)
      /\ id' = [id EXCEPT ![c] = me]
      /\ UNCHANGED <<game, clientIsConnected, clientIsReady, playerId, copy, prompt, closed, toServer>>
      /\ toClient' = Sent(ms)
  BY DEF Arrive, clientVars
<1>2. /\ TypeOK /\ joined \subseteq Connections
      /\ toClient \in [Connections -> Seq(Messages)]
      /\ id \in [Connections -> 0 .. MaxPlayers]
      /\ playerId[c] \in 0 .. MaxPlayers /\ copy[c] \in Game
  BY DEF SessionInv, TypeOK
<1>3. /\ toClient[c] = <<>> /\ toServer[c] = <<>> /\ prompt[c] = "none"
      /\ clientIsConnected[c] /\ ~ clientIsReady[c] /\ ~ closed[c]
  BY <1>1 DEF SessionInv, Outside
<1>4. /\ Seating' /\ PlayersOf' = PlayersOf \cup {c} /\ c \notin PlayersOf
      /\ me \in 1 .. MaxPlayers
      /\ g'.isPlayingGame = g.isPlayingGame /\ g'.numReady = g.numReady
      /\ ~ g.isPlayingGame
  BY <1>1, ArriveSeating
<1>5. me \in 0 .. MaxPlayers
  BY <1>4, SessionConstants
<1>6. m \in Messages /\ m.type = "connected" /\ m.player = me
  BY <1>5, MessageFacts DEF MessageTypes
<1>7. ms[c] = <<m>> /\ \A d \in Connections \ {c} : ms[d] = <<>>
  OBVIOUS
<1> HIDE DEF me, m, ms
<1>8. toClient'[c] = Append(<<>>, m)
  <2>1. toClient'[c] = toClient[c] \o ms[c]
    BY <1>1, <1>3, SentFacts
  <2>2. <<>> \o <<m>> = Append(<<>>, m)
    BY <1>6, EmptySeq, OneSent
  <2> QED
    BY <1>3, <1>7, <2>1, <2>2
<1>9. ASSUME NEW d \in Connections, d # c
      PROVE  toClient'[d] = toClient[d] /\ SameExchange(d)
  <2>1. toClient[d] \o <<>> = toClient[d]
    BY <1>2, OneSent
  <2>2. toClient'[d] = IF d \in joined' /\ clientIsConnected'[d] /\ ~ closed[d]
                       THEN toClient[d] \o ms[d] ELSE toClient[d]
    BY <1>1, SentFacts
  <2>3. toClient'[d] = toClient[d]
    BY <1>7, <1>9, <2>1, <2>2
  <2> QED
    BY <1>1, <1>2, <1>9, <2>3 DEF SameExchange, SameClient
<1>10. PICK ns : ns = Append(<<>>, m)
  OBVIOUS
<1>11. /\ Handles(ClientOf(c), me, ns) /\ ns \in Seq(Messages) /\ Len(ns) = 1
       /\ AskedIn(ns, "ready") = {1} /\ AskedIn(ns, "turn") = {}
  <2> DEFINE client == ClientOf(c)
             last == client
             then == [playerId |-> me, copy |-> client.copy]
             none == <<>>
  <2>1. client \in Client /\ client.copy \in Game
    BY <1>2 DEF ClientOf, Client
  <2>2. then \in Client /\ then.playerId = me
    BY <1>5, <2>1 DEF Client
  <2>3. Learns(m, last) = then
    BY <1>6, LearnsFacts
  <2>4. Fits(m, last)
    BY <1>6 DEF Fits
  <2>5. AskedBy(m) = "ready"
    BY <1>6, AskedByFacts
  <2>6. last = client
    OBVIOUS
  <2> HIDE DEF client, then, last
  <2>7. /\ Handles(client, me, none) /\ Replayed(client, none)[0] = client
        /\ none \in Seq(Messages) /\ Len(none) = 0
        /\ \A what : AskedIn(none, what) = {}
    BY <2>1, HandlesNothing
  <2>8. ns \in Seq(Messages) /\ OneMore(ns, none, m)
    BY <1>6, <1>10, <2>7, AppendTail
  <2> HIDE DEF none
  <2>9. last = Replayed(client, none)[Len(none)]
    BY <2>7, <2>6
  <2>10. /\ Len(ns) = Len(none) + 1
        /\ Handles(client, me, ns)
        /\ \A what : AskedIn(ns, what) =
             AskedIn(none, what) \cup (IF AskedBy(m) = what THEN {Len(ns)} ELSE {})
    <3>1. Handles(client, me, none) /\ none \in Seq(Messages) /\ m \in Messages
      BY <1>6, <2>7
    <3>2. Fits(m, last) /\ Learns(m, last) \in Client /\ Learns(m, last).playerId = me
      BY <2>2, <2>3, <2>4
    <3>3. Len(ns) = Len(none) + 1
      BY <2>8, <2>9, <3>1, <3>2, HandlesOneMore
    <3>4. Handles(client, me, ns)
      BY <2>8, <2>9, <3>1, <3>2, HandlesOneMore
    <3>5. \A what : AskedIn(ns, what) =
            AskedIn(none, what) \cup (IF AskedBy(m) = what THEN {Len(ns)} ELSE {})
      BY <2>8, <2>9, <3>1, <3>2, HandlesOneMore
    <3> QED
      BY <3>3, <3>4, <3>5
  <2>11. Len(ns) = 1
    BY <2>7, <2>10
  <2>12. AskedIn(ns, "ready") = {1}
    BY <2>5, <2>7, <2>10, <2>11
  <2>13. AskedIn(ns, "turn") = {}
    BY <2>5, <2>7, <2>10
  <2> QED
    BY <2>8, <2>10, <2>11, <2>12, <2>13 DEF client
<1>12. toClient'[c] = ns
  BY <1>8, <1>10
<1>13. id'[c] = me
  BY <1>1, <1>2
<1>14. Informed(c)'
  <2>1. ClientOf(c)' = ClientOf(c)
    BY <1>1 DEF ClientOf
  <2>2. Handles(ClientOf(c)', id'[c], toClient'[c])
    BY <1>11, <1>12, <1>13, <2>1
  <2>3. toClient'[c] # <<>> /\ prompt'[c] = "none" /\ toServer'[c] = <<>>
    <3>1. AskedIn(<<>>, "ready") = {}
      BY DEF AskedIn
    <3>2. ns # <<>>
      BY <1>11, <3>1
    <3> QED
      BY <1>1, <1>3, <1>12, <3>2
  <2> QED
    BY <2>2, <2>3 DEF Informed
<1>15. InStep(c)'
  <2>1. OnlyTurns(c)' /\ prompt'[c] # "ready"
    BY <1>1, <1>3 DEF OnlyTurns
  <2>2. PICK k \in DOMAIN ns : k = 1
    BY <1>11
  <2>3. AskedIn(ns, "ready") = {k} /\ \A j \in AskedIn(ns, "turn") : j < k
    BY <1>11, <2>2
  <2>4. IsToBeReady(c)'
    BY <1>12, <2>1, <2>2, <2>3 DEF IsToBeReady
  <2> QED
    BY <1>1, <1>3, <1>4, <2>4 DEF InStep
<1>16. \A d \in Connections : Informed(d)'
  BY <1>9, <1>14, SameInformed DEF SessionInv
<1>17. \A d \in PlayersOf' : InStep(d)'
  <2>1. ASSUME NEW d \in PlayersOf
        PROVE  InStep(d)'
    <3>1. d \in Connections /\ d # c /\ InStep(d)
      BY <1>4, PlayerIsIn
    <3>2. SameExchange(d) /\ game' = game /\ clientIsReady'[d] = clientIsReady[d]
      BY <1>1, <1>9, <3>1
    <3> QED
      BY <1>4, <3>1, <3>2, SameInStep
  <2> QED
    BY <1>4, <1>15, <2>1
<1>18. \A d \in Connections : Outside(d)'
  <2>1. Outside(c)'
    BY <1>1, <1>3 DEF Outside
  <2>2. ASSUME NEW d \in Connections, d # c
        PROVE  Outside(d)'
    <3>1. Outside(d) /\ SameExchange(d)
      BY <1>9, <2>2 DEF SessionInv
    <3> QED
      BY <1>1, <2>2, <3>1 DEF Outside, SameExchange, SameClient
  <2> QED
    BY <2>1, <2>2
<1>19. TypeOK'
  <2>1. g' \in Lobby
    BY <1>4 DEF Seating, LobbyOK
  <2>2. id' \in [Connections -> 0 .. MaxPlayers]
    BY <1>1, <1>2, <1>5
  <2>3. toClient' \in [Connections -> Seq(Messages)]
    <3>1. \A d \in Connections : toClient'[d] \in Seq(Messages)
      BY <1>2, <1>9, <1>11, <1>12
    <3> QED
      BY <1>1, <3>1, SentFacts
  <2> QED
    BY <1>1, <1>2, <2>1, <2>2, <2>3 DEF TypeOK
<1>20. GameInStep'
  <2>1. ReadyPlayers' = ReadyPlayers
    BY <1>1, <1>3, <1>4 DEF ReadyPlayers
  <2> QED
    BY <1>1, <1>4, <2>1 DEF SessionInv, GameInStep, Exists
<1>21. CopyIsExact'
  BY <1>4 DEF CopyIsExact
<1> QED
  BY <1>4, <1>16, <1>17, <1>18, <1>19, <1>20, <1>21 DEF SessionInv
-----------------------------------------------------------------------------
(***************************************************************************)
(* The theorems.                                                           *)
(***************************************************************************)

LEMMA SessionInit ==
  ASSUME Init
  PROVE  SessionInv
<1>1. /\ g = NewLobby /\ game = NoGame(0) /\ joined = {}
      /\ LobbyOK(NewLobby) /\ Occupied(NewLobby) = {}
      /\ g.numReady = 0 /\ ~ g.isPlayingGame
  BY NewLobbyOK DEF Init, NewLobby
<1>2. NoGame(0) \in Game /\ ~ Exists(game) /\ 0 \in 0 .. MaxPlayers
  BY <1>1, SessionConstants DEF NoGame, NewGame, Game, Exists, NoPlayer
<1>3. TypeOK
  <2>1. g \in Lobby
    BY <1>1 DEF LobbyOK
  <2>2. <<>> \in Seq(Messages) /\ <<>> \in Seq(Answers)
    BY EmptySeq
  <2> QED
    BY <1>1, <1>2, <2>1, <2>2 DEF Init, TypeOK, NoId
<1>4. PlayersOf = {} /\ ReadyPlayers = {} /\ Seating
  BY <1>1 DEF PlayersOf, ReadyPlayers, Seating
<1>5. GameInStep
  <2>1. g.numReady = Cardinality(ReadyPlayers) /\ g.numReady # MaxPlayers
    BY <1>1, <1>4, FS_EmptySet, SessionConstants
  <2> QED
    BY <1>1, <1>2, <2>1 DEF GameInStep
<1>6. ASSUME NEW c \in Connections
      PROVE  Informed(c) /\ Outside(c)
  <2>1. /\ id[c] = 0 /\ playerId[c] = 0 /\ toClient[c] = <<>> /\ toServer[c] = <<>>
        /\ prompt[c] = "none" /\ clientIsConnected[c] /\ ~ clientIsReady[c] /\ ~ closed[c]
        /\ copy[c] = NoGame(0)
    BY DEF Init, NoId
  <2>2. ClientOf(c) \in Client
    BY <1>2, <2>1 DEF ClientOf, Client
  <2>3. Handles(ClientOf(c), id[c], toClient[c])
    BY <2>1, <2>2, HandlesNothing
  <2>4. Informed(c)
    BY <2>1, <2>3 DEF Informed
  <2>5. Outside(c)
    BY <2>1 DEF Outside, NoId
  <2> QED
    BY <2>4, <2>5
<1>7. CopyIsExact
  BY <1>1 DEF CopyIsExact
<1> QED
  BY <1>3, <1>4, <1>5, <1>6, <1>7 DEF SessionInv

LEMMA SessionNext ==
  ASSUME SessionInv, [Next]_vars
  PROVE  SessionInv'
<1>1. CASE UNCHANGED vars
  BY <1>1, StutterStep
<1>2. CASE Next
  <2>1. PICK c \in Connections :
          Arrive(c) \/ ReadClosed(c) \/ ReadReady(c) \/ ReadTurn(c)
          \/ HandleRead(c) \/ Answer(c) \/ Close(c)
    BY <1>2 DEF Next
  <2>2. CASE Arrive(c)
    BY <2>2, ArriveStep
  <2>3. CASE ReadClosed(c)
    BY <2>3, ReadClosedStep
  <2>4. CASE ReadReady(c)
    BY <2>4, ReadReadyStep
  <2>5. CASE ReadTurn(c)
    BY <2>5, TurnRefusedStep, TurnRejectedStep, TurnAcceptedStep, TurnEndsStep DEF ReadTurn
  <2>6. CASE HandleRead(c)
    BY <2>6, HandleReadStep
  <2>7. CASE Answer(c)
    BY <2>7, AnswerStep
  <2>8. CASE Close(c)
    BY <2>8, CloseStep
  <2> QED
    BY <2>1, <2>2, <2>3, <2>4, <2>5, <2>6, <2>7, <2>8
<1> QED
  BY <1>1, <1>2

\* Whatever games, turns, arrivals and departures came before, and however late the messages
\* are read (gamelobby.cpp, connection.cpp, client.cpp): each player is where the lobby has
\* it, for any number of connections, seats, games and turns.
THEOREM SessionIsInStep == Spec => []SessionInv
<1>1. Init => SessionInv
  BY SessionInit
<1>2. SessionInv /\ [Next]_vars => SessionInv'
  BY SessionNext
<1> QED
  BY <1>1, <1>2, PTL DEF Spec

\* The variables keep their types: of those sent and those kept, each id is a player's or 0.
THEOREM SessionTypeCorrect == Spec => []TypeOK
<1>1. SessionInv => TypeOK
  BY DEF SessionInv
<1> QED
  BY <1>1, SessionIsInStep, PTL

\* handleRead never meets a message it would have to check: no turn is told of a game the
\* client has not been told of, or of a player who is not to move in it (client.cpp:308).
THEOREM ClientsCanTrust == Spec => []MessagesFit
<1>1. SessionInv => MessagesFit
  <2>1. SUFFICES ASSUME SessionInv, NEW c \in Connections, NEW i \in DOMAIN toClient[c]
                 PROVE  Fits(toClient[c][i], Replay(c)[i - 1])
    BY DEF MessagesFit
  <2>2. toClient[c] \in Seq(Messages) /\ Handles(ClientOf(c), id[c], toClient[c])
    BY <2>1 DEF SessionInv, TypeOK, Informed
  <2>3. i \in 1 .. Len(toClient[c])
    BY <2>1, <2>2
  <2> QED
    BY <2>2, <2>3 DEF Handles, Replay
<1> QED
  BY <1>1, SessionIsInStep, PTL

\* The copies that handleUpdate, handleTurnResult and handleGameStart keep never part from
\* the lobby's game: they are behind it by what is on its way, and by nothing else.
THEOREM CopiesNeverPart == Spec => []CopyIsExact
<1>1. SessionInv => CopyIsExact
  BY DEF SessionInv
<1> QED
  BY <1>1, SessionIsInStep, PTL

\* A turn that onTakeTurn is given during a game was chosen in the position it is played in.
THEOREM NoTurnIsStale == Spec => []TurnsAreCurrent
<1>1. SessionInv => TurnsAreCurrent
  <2>1. SUFFICES ASSUME SessionInv, g.isPlayingGame, NEW c \in PlayersOf,
                        NEW i \in DOMAIN toServer[c]
                 PROVE  toServer[c][i].type = "takeTurn" /\ toServer[c][i].seen = game
    BY DEF TurnsAreCurrent
  <2>2. InStep(c) /\ toServer[c] \in Seq(Answers)
    BY <2>1, PlayerIsIn
  <2>3. toServer[c] # <<>>
    BY <2>1
  <2>4. id[c] = game.current /\ IsToMove(c)
    BY <2>1, <2>2, <2>3, WhenPlaying
  <2>5. /\ Len(toServer[c]) = 1
        /\ toServer[c][1].type = "takeTurn" /\ toServer[c][1].seen = game
    BY <2>3, <2>4 DEF IsToMove
  <2>6. i = 1
    BY <2>1, <2>2, <2>5
  <2> QED
    BY <2>5, <2>6
<1> QED
  BY <1>1, SessionIsInStep, PTL
=============================================================================
