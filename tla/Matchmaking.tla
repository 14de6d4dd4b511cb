----------------------------- MODULE Matchmaking -----------------------------
(***************************************************************************)
(* What the server promises to the clients it brings together: who comes   *)
(* first is seated first, nobody waits while there is room, the first who  *)
(* waits gets the next free seat in the same step in which it becomes      *)
(* free, and a game has all its players from its start to its end.         *)
(* Server implements this specification, whatever its clients, the network *)
(* and the ping timers do.                                                 *)
(***************************************************************************)
EXTENDS Naturals, Sequences, FiniteSets

CONSTANTS
  Connections,   \* those who may come
  MaxLobbies,    \* lobbies
  MaxPlayers     \* seats of a lobby

VARIABLES
  arrived,   \* those who have come
  waiting,   \* in the order in which they came
  seated,    \* who has a seat, for each lobby
  playing    \* lobbies whose game is under way

vars == <<arrived, waiting, seated, playing>>

Lobbies == 1 .. MaxLobbies

HasRoom(l) == Cardinality(seated[l]) < MaxPlayers

Init ==
  /\ arrived = {}
  /\ waiting = <<>>
  /\ seated = [l \in Lobbies |-> {}]
  /\ playing = {}

\* Room is for the newcomer only when nobody waits for it.
Arrive(c) ==
  /\ c \notin arrived
  /\ arrived' = arrived \cup {c}
  /\ \/ /\ waiting = <<>>
        /\ \E l \in Lobbies \ playing :
             HasRoom(l) /\ seated' = [seated EXCEPT ![l] = @ \cup {c}]
        /\ UNCHANGED waiting
     \/ /\ \A l \in Lobbies : ~ HasRoom(l)
        /\ waiting' = Append(waiting, c)
        /\ UNCHANGED seated
  /\ UNCHANGED playing

\* A player leaves lobby l, which ends its game, and the first who waits moves up.
Depart(c, l) ==
  /\ c \in seated[l]
  /\ seated' = [seated EXCEPT ![l] = IF waiting = <<>> THEN @ \ {c}
                                     ELSE (@ \ {c}) \cup {Head(waiting)}]
  /\ waiting' = IF waiting = <<>> THEN waiting ELSE Tail(waiting)
  /\ playing' = playing \ {l}
  /\ UNCHANGED arrived

Start(l) ==
  /\ l \notin playing /\ ~ HasRoom(l)
  /\ playing' = playing \cup {l}
  /\ UNCHANGED <<arrived, waiting, seated>>

End(l) ==
  /\ l \in playing
  /\ playing' = playing \ {l}
  /\ UNCHANGED <<arrived, waiting, seated>>

\* Some of those who wait give up; the others, at positions "at", keep their order.
GiveUp ==
  /\ \E n \in 0 .. Len(waiting) : \E at \in [1 .. n -> DOMAIN waiting] :
       /\ \A i, j \in 1 .. n : i < j => at[i] < at[j]
       /\ waiting' = [i \in 1 .. n |-> waiting[at[i]]]
  /\ UNCHANGED <<arrived, seated, playing>>

Next ==
  \/ \E c \in Connections : Arrive(c) \/ \E l \in Lobbies : Depart(c, l)
  \/ \E l \in Lobbies : Start(l) \/ End(l)
  \/ GiveUp

Spec == Init /\ [][Next]_vars
=============================================================================
