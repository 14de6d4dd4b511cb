----------------------------- MODULE FourAcross -----------------------------
(***************************************************************************)
(* The rules of the game: class Board (game/src/board.cpp) and class       *)
(* FourAcross (game/src/game.cpp).  A game is constructed once and then    *)
(* takes turns; a rejected turn leaves it as it was.  lastMove is not kept *)
(* between calls, because takeTurn assigns it and checkForWinner reads it  *)
(* within the same call: here it is a pair of parameters.                  *)
(***************************************************************************)
EXTENDS TurnOrder, FiniteSets

CONSTANTS
  Dimensions,   \* the <<numColumns, numRows>> arguments to construct with
  PlayerArgs,   \* the numPlayers arguments
  FirstArgs,    \* the firstPlayer arguments
  MaxTurns      \* bound on the number of accepted turns

EmptySlot == 0
MinColumns == 5
MinRows == 4

ASSUME ArgsAssumption ==
  /\ Dimensions \subseteq UInt8 \X UInt8
  /\ PlayerArgs \subseteq UInt8
  /\ FirstArgs \subseteq UInt8
  /\ MaxTurns \in Nat

VARIABLES
  numColumns, numRows,   \* board dimensions
  columns,               \* columns[c][r]: owner of the disk, or EmptySlot
  rowIndices,            \* rowIndices[c]: number of disks in column c
  numPlayers, currentPlayer,
  numTurns,              \* number of accepted turns
  winner

dims == <<numColumns, numRows>>
vars == <<numColumns, numRows, columns, rowIndices,
          numPlayers, currentPlayer, numTurns, winner>>

Columns == 0 .. numColumns - 1
Rows == 0 .. numRows - 1
Players == 1 .. numPlayers
-----------------------------------------------------------------------------
(***************************************************************************)
(* Construction.                                                           *)
(***************************************************************************)

\* The dimensions Board's constructor does not throw on.
AcceptsDimensions(c, r) == c >= MinColumns /\ r >= MinRows /\ c - r >= 1

NormalPlayers(n) == IF n >= MinNumPlayers THEN n ELSE MinNumPlayers

\* firstPlayer is compared with the numPlayers argument, not with the member.
NormalFirst(first, n) ==
  IF first > DefaultFirstPlayer /\ first <= n THEN first ELSE DefaultFirstPlayer

Init ==
  \E d \in Dimensions, n \in PlayerArgs, first \in FirstArgs :
    /\ AcceptsDimensions(d[1], d[2])
    /\ numColumns = d[1] /\ numRows = d[2]
    /\ columns = [c \in Columns |-> [r \in Rows |-> EmptySlot]]
    /\ rowIndices = [c \in Columns |-> 0]
    /\ numPlayers = NormalPlayers(n)
    /\ currentPlayer = NormalFirst(first, n)
    /\ numTurns = 0
    /\ winner = NoWinner
-----------------------------------------------------------------------------
(***************************************************************************)
(* The board.                                                              *)
(***************************************************************************)

IsColumnFull(c) == rowIndices[c] = numRows
IsFullAnywhere == \E c \in Columns : IsColumnFull(c)

IsFull == \A c \in Columns : IsColumnFull(c)

OnBoard(c, r) == c \in Columns /\ r \in Rows

DroppedOneHigher(c, player) == [columns EXCEPT ![c][rowIndices[c] + 1] = player]

\* The columns after player's disk landed on top of column c.
Dropped(c, player) == [columns EXCEPT ![c][rowIndices[c]] = player]
-----------------------------------------------------------------------------
(***************************************************************************)
(* checkForWinner, on board b after a disk landed at <<c, r>>.             *)
(***************************************************************************)

\* Up the column, along the row, along the two diagonals; each is scanned
\* both ways.
Directions == {<<0, 1>>, <<1, 0>>, <<1, 1>>, <<1, -1>>}
OppositeOfRow(d) == IF d[1] = d[2] THEN d ELSE <<-d[1], -d[2]>>
Opposite(d) == <<-d[1], -d[2]>>

Same(b, c, r, d, i) ==
  /\ OnBoard(c + i * d[1], r + i * d[2])
  /\ b[c + i * d[1]][r + i * d[2]] = b[c][r]

\* The number of disks one loop counts before it stops: at the edge, at a
\* cell of another owner, or because four in a row are complete.
Reach(b, c, r, d) ==
  CHOOSE k \in 0 .. 3 : /\ \A i \in 1 .. k : Same(b, c, r, d, i)
                        /\ k = 3 \/ ~ Same(b, c, r, d, k + 1)

CheckForWinner(b, c, r) ==
  IF \E d \in Directions :
       1 + Reach(b, c, r, d) + Reach(b, c, r, Opposite(d)) >= 4
  THEN b[c][r]
  ELSE NoWinner
-----------------------------------------------------------------------------
(***************************************************************************)
(* takeTurn.                                                               *)
(***************************************************************************)

TurnResultNoFinish(player, column) ==
  IF currentPlayer # player THEN "wrongPlayer"
  ELSE IF column \notin Columns THEN "badColumn"
  ELSE IF IsColumnFull(column) THEN "columnFull"
  ELSE "success"

TurnResultAnyPlayer(player, column) ==
  IF winner # NoWinner THEN "gameFinished"
  ELSE IF column \notin Columns THEN "badColumn"
  ELSE IF IsColumnFull(column) THEN "columnFull"
  ELSE "success"

\* What takeTurn answers, in the order of its checks.
TurnResult(player, column) ==
  IF winner # NoWinner THEN "gameFinished"
  ELSE IF currentPlayer # player THEN "wrongPlayer"
  ELSE IF column \notin Columns THEN "badColumn"
  ELSE IF IsColumnFull(column) THEN "columnFull"
  ELSE "success"

AcceptedTurn(player, column) ==
  /\ numTurns < MaxTurns
  /\ TurnResult(player, column) = "success"
  /\ columns' = Dropped(column, player)
  /\ rowIndices' = [rowIndices EXCEPT ![column] = @ + 1]
  /\ currentPlayer' = NextPlayer(currentPlayer, numPlayers)
  /\ numTurns' = numTurns + 1
  /\ winner' = CheckForWinner(columns', column, rowIndices[column])
  /\ UNCHANGED <<numColumns, numRows, numPlayers>>

RejectedTurn(player, column) ==
  /\ TurnResult(player, column) # "success"
  /\ UNCHANGED vars

\* A column past the last one stands for every column that is not on the board.
Next ==
  \E player \in Players, column \in 0 .. numColumns :
    \/ AcceptedTurn(player, column)
    \/ RejectedTurn(player, column)

Spec == Init /\ [][Next]_vars
-----------------------------------------------------------------------------
TypeOK ==
  /\ numColumns \in UInt8 /\ numRows \in UInt8
  /\ AcceptsDimensions(numColumns, numRows)
  /\ columns \in [Columns -> [Rows -> 0 .. numPlayers]]
  /\ rowIndices \in [Columns -> 0 .. numRows]
  /\ numPlayers \in MinNumPlayers .. 255
  /\ currentPlayer \in Players
  /\ numTurns \in 0 .. MaxTurns
  /\ winner \in 0 .. numPlayers

\* Disks are stacked: a slot is taken exactly when it is below the height
\* of its column, so dropPieceInColumn never overwrites a disk or leaves a gap.
Stacked ==
  \A c \in Columns, r \in Rows : columns[c][r] # EmptySlot <=> r < rowIndices[c]

\* Four slots in a row from <<c, r>> along vector v, all owned by p.  Read from
\* its other end a line is the same line, so half of the vectors are enough.
Vectors == {<<1, 0>>, <<0, 1>>, <<1, 1>>, <<1, -1>>}
LineOfFour(p, c, r, v) ==
  \A i \in 0 .. 3 : /\ OnBoard(c + i * v[1], r + i * v[2])
                    /\ columns[c + i * v[1]][r + i * v[2]] = p

HasLine(p) ==
  \E c \in Columns, r \in Rows :
    /\ columns[c][r] = p
    /\ \E v \in Vectors : LineOfFour(p, c, r, v)

\* checkForWinner looks only around the last disk and only at the player who
\* dropped it; even so winner names, at all times, exactly the player who has
\* four in a row somewhere on the board, and nobody else has.
WinnerHasTheLine == \A p \in Players : HasLine(p) <=> winner = p

Disks(p) == Cardinality({s \in Columns \X Rows : columns[s[1]][s[2]] = p})

\* The rotation is fair: no player is ever more than one disk ahead of another,
\* and the player to move has as few disks as anyone.
FairTurns ==
  \A p \in Players : Disks(p) - Disks(currentPlayer) \in {0, 1}

\* isFull holds after exactly as many turns as the board has slots, so a game
\* nobody wins ends, and never ends early.
FullAfterEverySlot == IsFull <=> numTurns = numColumns * numRows

\* A game of FourAcross is a turn game: see TurnGame.
Abstract == INSTANCE TurnGame WITH full <- IsFull
ImplementsTurnGame == Abstract!Spec
=============================================================================
