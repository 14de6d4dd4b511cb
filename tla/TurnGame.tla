------------------------------ MODULE TurnGame ------------------------------
(***************************************************************************)
(* What a game promises to the lobby that runs it, whatever its board and  *)
(* its winning rule: the players move in rotation, only the player who     *)
(* just moved can win, and a decided game never moves again.  FourAcross   *)
(* implements this specification; of a game, Server relies on no more.     *)
(***************************************************************************)
EXTENDS TurnOrder

VARIABLES numPlayers, currentPlayer, winner, full

vars == <<numPlayers, currentPlayer, winner, full>>

TypeOK ==
  /\ numPlayers \in MinNumPlayers .. 255
  /\ currentPlayer \in 1 .. numPlayers
  /\ winner \in 0 .. numPlayers
  /\ full \in BOOLEAN

Init ==
  /\ numPlayers \in MinNumPlayers .. 255
  /\ currentPlayer \in 1 .. numPlayers
  /\ winner = NoWinner
  /\ full = FALSE

Over == winner # NoWinner \/ full

\* An accepted turn of the current player.
Move ==
  /\ ~ Over
  /\ winner' \in {NoWinner, currentPlayer}
  /\ full' \in BOOLEAN
  /\ currentPlayer' = NextPlayer(currentPlayer, numPlayers)
  /\ UNCHANGED numPlayers

Next == Move

Spec == Init /\ [][Next]_vars
=============================================================================
