----------------------------- MODULE TurnOrder ------------------------------
(***************************************************************************)
(* The numbers the game, the lobby and the connections share: player ids,  *)
(* the absent winner and the rotation of the turn.                         *)
(***************************************************************************)
EXTENDS Integers

UInt8 == 0 .. 255          \* uint8_t
NoWinner == 0
DefaultFirstPlayer == 1
MinNumPlayers == 2

NextPlayerUnwrapped(current, n) == IF current > n THEN 1 ELSE (current + 1) % 256

\* The player after "current" among n players: current + 1 in eight bits,
\* wrapped to the first player when it passes n or overflows to 0.
NextPlayer(current, n) ==
  LET next == (current + 1) % 256
  IN  IF next > n \/ next = 0 THEN DefaultFirstPlayer ELSE next
=============================================================================
