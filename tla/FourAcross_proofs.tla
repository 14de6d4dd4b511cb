-------------------------- MODULE FourAcross_proofs --------------------------
(***************************************************************************)
(* Proofs about the rules of the game, for every board the constructor     *)
(* accepts and every number of players: types, stacking, that a game is a  *)
(* TurnGame, that its winner is exactly who has four in a row, that the    *)
(* turns are fair and that they fill the board exactly.                    *)
(***************************************************************************)
EXTENDS FourAcross, FiniteSetTheorems, TLAPS

LEMMA BoardFacts ==
  ASSUME TypeOK
  PROVE  /\ numColumns \in Nat /\ numColumns >= 5
         /\ numRows \in Nat /\ numRows >= 4
         /\ numPlayers \in Nat /\ numPlayers >= 2 /\ numPlayers <= 255
         /\ \A c \in Columns : c \in Nat
         /\ \A r \in Rows : r \in Nat
BY DEF TypeOK, UInt8, AcceptsDimensions, MinColumns, MinRows, MinNumPlayers, Columns, Rows

\* The turn passes to the next player and from the last back to the first.
LEMMA NextPlayerIsPlayer ==
  ASSUME NEW n \in MinNumPlayers .. 255, NEW i \in 1 .. n
  PROVE  NextPlayer(i, n) \in 1 .. n
BY DEF NextPlayer, DefaultFirstPlayer, MinNumPlayers

\* What an accepted turn does to the board: one free slot gets a disk.
LEMMA TurnFacts ==
  ASSUME TypeOK, NEW player \in Players, NEW column \in 0 .. numColumns,
         AcceptedTurn(player, column)
  PROVE  /\ column \in Columns /\ rowIndices[column] \in Rows
         /\ player = currentPlayer /\ winner = NoWinner
         /\ columns' \in [Columns -> [Rows -> 0 .. numPlayers]]
         /\ columns'[column][rowIndices[column]] = player
         /\ \A c \in Columns, r \in Rows :
              c # column \/ r # rowIndices[column] => columns'[c][r] = columns[c][r]
         /\ UNCHANGED <<numColumns, numRows, numPlayers>>
<1> DEFINE row == rowIndices[column]
<1>1. /\ winner = NoWinner /\ currentPlayer = player
      /\ column \in Columns /\ row # numRows
  BY DEF AcceptedTurn, TurnResult, IsColumnFull
<1>2. row \in Rows
  BY <1>1, BoardFacts DEF TypeOK, Rows
<1>3. /\ columns \in [Columns -> [Rows -> 0 .. numPlayers]]
      /\ columns' = [columns EXCEPT ![column] = [columns[column] EXCEPT ![row] = player]]
      /\ player \in 0 .. numPlayers
  BY <1>1, BoardFacts DEF TypeOK, AcceptedTurn, Dropped, Players
<1>4. columns[column] \in [Rows -> 0 .. numPlayers]
  BY <1>1, <1>3
<1> DEFINE new == [columns[column] EXCEPT ![row] = player]
<1>5. /\ new \in [Rows -> 0 .. numPlayers]
      /\ new[row] = player
      /\ \A r \in Rows : r # row => new[r] = columns[column][r]
  BY <1>2, <1>3, <1>4
<1> HIDE DEF new
<1>6. columns' = [columns EXCEPT ![column] = new]
  BY <1>3 DEF new
<1>7. /\ columns' \in [Columns -> [Rows -> 0 .. numPlayers]]
      /\ columns'[column] = new
      /\ \A c \in Columns : c # column => columns'[c] = columns[c]
  BY <1>1, <1>3, <1>5, <1>6
<1> QED
  BY <1>1, <1>2, <1>5, <1>7 DEF AcceptedTurn

LEMMA InitTyped ==
  ASSUME Init
  PROVE  TypeOK /\ Stacked
<1>1. PICK d \in Dimensions, n \in PlayerArgs, first \in FirstArgs :
        /\ AcceptsDimensions(d[1], d[2])
        /\ numColumns = d[1] /\ numRows = d[2]
        /\ columns = [c \in Columns |-> [r \in Rows |-> EmptySlot]]
        /\ rowIndices = [c \in Columns |-> 0]
        /\ numPlayers = NormalPlayers(n)
        /\ currentPlayer = NormalFirst(first, n)
        /\ numTurns = 0
        /\ winner = NoWinner
  BY DEF Init
<1>2. /\ d[1] \in UInt8 /\ d[2] \in UInt8 /\ n \in UInt8 /\ first \in UInt8 /\ MaxTurns \in Nat
  BY ArgsAssumption
<1>3. numPlayers \in MinNumPlayers .. 255 /\ currentPlayer \in Players /\ numPlayers \in Nat
  BY <1>1, <1>2 DEF NormalPlayers, NormalFirst, MinNumPlayers, DefaultFirstPlayer, Players, UInt8
<1>4. numColumns \in Nat /\ numRows \in Nat /\ numRows >= 4
  BY <1>1, <1>2 DEF AcceptsDimensions, MinRows, UInt8
<1>5. /\ columns \in [Columns -> [Rows -> 0 .. numPlayers]]
      /\ rowIndices \in [Columns -> 0 .. numRows]
  BY <1>1, <1>3, <1>4 DEF EmptySlot
<1>6. TypeOK
  BY <1>1, <1>2, <1>3, <1>5 DEF TypeOK, NoWinner
<1>7. Stacked
  BY <1>1, <1>4 DEF Stacked, EmptySlot, Rows
<1> QED
  BY <1>6, <1>7

LEMMA StepTyped ==
  ASSUME TypeOK, Stacked, [Next]_vars
  PROVE  TypeOK' /\ Stacked'
<1>1. ASSUME NEW player \in Players, NEW column \in 0 .. numColumns,
             AcceptedTurn(player, column)
      PROVE  TypeOK' /\ Stacked'
  <2> DEFINE row == rowIndices[column]
  <2>1. /\ column \in Columns /\ row \in Rows
        /\ columns' \in [Columns -> [Rows -> 0 .. numPlayers]]
        /\ columns'[column][row] = player
        /\ \A c \in Columns, r \in Rows :
             c # column \/ r # row => columns'[c][r] = columns[c][r]
        /\ UNCHANGED <<numColumns, numRows, numPlayers>>
    BY <1>1, TurnFacts
  <2>2. /\ Columns' = Columns /\ Rows' = Rows /\ Players' = Players
    BY <2>1 DEF Columns, Rows, Players
  <2>3. /\ rowIndices' = [rowIndices EXCEPT ![column] = row + 1]
        /\ rowIndices \in [Columns -> 0 .. numRows]
        /\ row \in Nat /\ row + 1 \in 0 .. numRows
    BY <1>1, <2>1, BoardFacts DEF AcceptedTurn, TypeOK, Rows
  <2>4. /\ rowIndices' \in [Columns -> 0 .. numRows]
        /\ rowIndices'[column] = row + 1
        /\ \A c \in Columns : c # column => rowIndices'[c] = rowIndices[c]
    BY <2>1, <2>3
  <2>5. winner' \in 0 .. numPlayers
    <3>1. columns'[column][row] \in 0 .. numPlayers /\ NoWinner \in 0 .. numPlayers
      BY <2>1, BoardFacts DEF NoWinner
    <3>2. winner' = CheckForWinner(columns', column, row)
      BY <1>1 DEF AcceptedTurn
    <3> QED
      BY <3>1, <3>2 DEF CheckForWinner
  <2>6. currentPlayer' \in Players /\ numTurns' \in 0 .. MaxTurns
    BY <1>1, NextPlayerIsPlayer, ArgsAssumption DEF AcceptedTurn, TypeOK, Players
  <2>7. TypeOK'
    BY <2>1, <2>2, <2>4, <2>5, <2>6 DEF TypeOK
  <2>8. Stacked'
    <3>1. SUFFICES ASSUME NEW c \in Columns, NEW r \in Rows
                   PROVE  columns'[c][r] # EmptySlot <=> r < rowIndices'[c]
      BY <2>2 DEF Stacked
    <3>2. columns[c][r] # EmptySlot <=> r < rowIndices[c]
      BY DEF Stacked
    <3>3. r \in Nat
      BY BoardFacts
    <3>4. CASE c = column /\ r = row
      <4>1. player # EmptySlot
        BY BoardFacts DEF Players, EmptySlot
      <4> QED
        BY <2>1, <2>3, <2>4, <3>4, <4>1
    <3>5. CASE c = column /\ r # row
      BY <2>1, <2>3, <2>4, <3>2, <3>3, <3>5
    <3>6. CASE c # column
      BY <2>1, <2>4, <3>2, <3>6
    <3> QED
      BY <3>4, <3>5, <3>6
  <2> QED
    BY <2>7, <2>8
<1>2. CASE UNCHANGED vars
  BY <1>2 DEF vars, TypeOK, Stacked, Columns, Rows, Players
<1> QED
  BY <1>1, <1>2 DEF Next, RejectedTurn

\* The board, the heights, the turn and the winner stay in range, whatever the
\* constructor is given: takeTurn never indexes the board out of bounds.
THEOREM GameTypeCorrect == Spec => []TypeOK
<1>1. Init => TypeOK /\ Stacked
  BY InitTyped
<1>2. (TypeOK /\ Stacked) /\ [Next]_vars => (TypeOK /\ Stacked)'
  BY StepTyped
<1> QED
  BY <1>1, <1>2, PTL DEF Spec

\* dropPieceInColumn never overwrites a disk and never leaves a gap under one.
THEOREM DisksAreStacked == Spec => []Stacked
<1>1. Init => TypeOK /\ Stacked
  BY InitTyped
<1>2. (TypeOK /\ Stacked) /\ [Next]_vars => (TypeOK /\ Stacked)'
  BY StepTyped
<1> QED
  BY <1>1, <1>2, PTL DEF Spec
-----------------------------------------------------------------------------
LEMMA InitIsAbstract ==
  ASSUME Init
  PROVE  Abstract!Init
<1>1. TypeOK /\ winner = NoWinner /\ (\A c \in Columns : rowIndices[c] = 0)
  BY InitTyped DEF Init
<1>2. ~ IsFull
  <2>1. 0 \in Columns /\ numRows # 0
    BY <1>1, BoardFacts DEF Columns
  <2> QED
    BY <1>1, <2>1 DEF IsFull, IsColumnFull
<1> QED
  BY <1>1, <1>2 DEF Abstract!Init, Abstract!NoWinner, Abstract!MinNumPlayers,
                    NoWinner, MinNumPlayers, TypeOK, Players

LEMMA StepIsAbstract ==
  ASSUME TypeOK, [Next]_vars
  PROVE  [Abstract!Next]_(Abstract!vars)
<1>1. ASSUME NEW player \in Players, NEW column \in 0 .. numColumns,
             AcceptedTurn(player, column)
      PROVE  Abstract!Move
  <2>1. /\ column \in Columns /\ player = currentPlayer /\ winner = NoWinner
        /\ columns'[column][rowIndices[column]] = player
        /\ UNCHANGED numPlayers
    BY <1>1, TurnFacts
  <2>2. ~ IsFull
    BY <1>1, <2>1 DEF AcceptedTurn, TurnResult, IsFull
  <2>3. winner' \in {NoWinner, currentPlayer}
    BY <1>1, <2>1 DEF AcceptedTurn, CheckForWinner
  <2>4. IsFull' \in BOOLEAN
    BY DEF IsFull
  <2>5. currentPlayer' = Abstract!NextPlayer(currentPlayer, numPlayers)
    BY <1>1 DEF AcceptedTurn, NextPlayer, DefaultFirstPlayer,
                Abstract!NextPlayer, Abstract!DefaultFirstPlayer
  <2> QED
    BY <2>1, <2>2, <2>3, <2>4, <2>5 DEF Abstract!Move, Abstract!Over, Abstract!NoWinner, NoWinner
<1>2. CASE UNCHANGED vars
  BY <1>2 DEF vars, Abstract!vars, IsFull, IsColumnFull, Columns
<1> QED
  BY <1>1, <1>2 DEF Next, RejectedTurn, Abstract!Next

\* FourAcross keeps what TurnGame promises to the lobby: rotation of the turn, no
\* winner but the player who just moved, and no move after a win or a full board.
THEOREM GameRefinesTurnGame == Spec => ImplementsTurnGame
<1>1. Init => Abstract!Init
  BY InitIsAbstract
<1>2. TypeOK /\ [Next]_vars => [Abstract!Next]_(Abstract!vars)
  BY StepIsAbstract
<1> QED
  BY <1>1, <1>2, GameTypeCorrect, PTL DEF Spec, ImplementsTurnGame, Abstract!Spec
-----------------------------------------------------------------------------
(***************************************************************************)
(* The winner.  Everything is said of slots at a distance m, forward or     *)
(* back, from a slot <<c, r>> in a direction d.                             *)
(***************************************************************************)

Owned(b, p, c, r, d, m) ==
  /\ OnBoard(c + m * d[1], r + m * d[2])
  /\ b[c + m * d[1]][r + m * d[2]] = p

\* Four slots of p along d that <<c, r>> is one of, j steps from the first.
RunThrough(b, p, c, r, d, j) == \A m \in -j .. 3 - j : Owned(b, p, c, r, d, m)

HasLineOn(b, p) ==
  \E c \in Columns, r \in Rows :
    /\ b[c][r] = p
    /\ \E d \in Directions : \A i \in 0 .. 3 : Owned(b, p, c, r, d, i)

LEMMA Shifts ==
  ASSUME NEW e \in {-1, 0, 1}, NEW x \in Int, NEW i \in Int, NEW j \in Int
  PROVE  /\ (x + j * e) + i * e = x + (j + i) * e
         /\ x + i * (-e) = x + (-i) * e
         /\ x + 0 * e = x
         /\ x + i * e \in Int
<1>1. CASE e = -1
  BY <1>1
<1>2. CASE e = 0
  BY <1>2
<1>3. CASE e = 1
  BY <1>3
<1> QED
  BY <1>1, <1>2, <1>3

LEMMA DirectionFacts ==
  ASSUME NEW d \in Directions
  PROVE  /\ d[1] \in {-1, 0, 1} /\ d[2] \in {-1, 0, 1}
         /\ Opposite(d)[1] = -d[1] /\ Opposite(d)[2] = -d[2]
BY DEF Directions, Opposite

LEMMA OwnedShift ==
  ASSUME NEW d \in Directions, NEW b, NEW p, NEW c \in Int, NEW r \in Int,
         NEW i \in Int, NEW j \in Int
  PROVE  Owned(b, p, c + j * d[1], r + j * d[2], d, i) <=> Owned(b, p, c, r, d, j + i)
<1>1. /\ (c + j * d[1]) + i * d[1] = c + (j + i) * d[1]
      /\ (r + j * d[2]) + i * d[2] = r + (j + i) * d[2]
  BY DirectionFacts, Shifts
<1> QED
  BY <1>1 DEF Owned

LEMMA SameIsOwned ==
  ASSUME NEW d \in Directions, NEW b, NEW c \in Int, NEW r \in Int, NEW i \in Int
  PROVE  /\ Same(b, c, r, d, i) <=> Owned(b, b[c][r], c, r, d, i)
         /\ Same(b, c, r, Opposite(d), i) <=> Owned(b, b[c][r], c, r, d, -i)
<1>1. /\ c + i * (-d[1]) = c + (-i) * d[1]
      /\ r + i * (-d[2]) = r + (-i) * d[2]
  BY DirectionFacts, Shifts
<1>2. /\ c + i * Opposite(d)[1] = c + (-i) * d[1]
      /\ r + i * Opposite(d)[2] = r + (-i) * d[2]
  BY <1>1, DirectionFacts
<1> QED
  BY <1>2 DEF Owned, Same

\* A loop of checkForWinner counts up to three disks, and no fewer than there are.
LEMMA ReachFacts ==
  ASSUME NEW b, NEW c, NEW r, NEW d
  PROVE  /\ Reach(b, c, r, d) \in 0 .. 3
         /\ \A i \in 1 .. Reach(b, c, r, d) : Same(b, c, r, d, i)
         /\ \A k \in 0 .. 3 : (\A i \in 1 .. k : Same(b, c, r, d, i)) => k <= Reach(b, c, r, d)
<1> DEFINE S(i) == Same(b, c, r, d, i)
           P(k) == (\A i \in 1 .. k : S(i)) /\ (k = 3 \/ ~ S(k + 1))
<1>1. \E k \in 0 .. 3 : P(k)
  <2>1. CASE ~ S(1)
    <3>1. P(0)
      BY <2>1
    <3> QED
      BY <3>1
  <2>2. CASE S(1) /\ ~ S(2)
    <3>1. P(1)
      BY <2>2
    <3> QED
      BY <3>1
  <2>3. CASE S(1) /\ S(2) /\ ~ S(3)
    <3>1. P(2)
      BY <2>3
    <3> QED
      BY <3>1
  <2>4. CASE S(1) /\ S(2) /\ S(3)
    <3>1. P(3)
      BY <2>4
    <3> QED
      BY <3>1
  <2> QED
    BY <2>1, <2>2, <2>3, <2>4
<1>2. Reach(b, c, r, d) = CHOOSE k \in 0 .. 3 : P(k)
  BY DEF Reach
<1>3. Reach(b, c, r, d) \in 0 .. 3 /\ P(Reach(b, c, r, d))
  BY <1>1, <1>2
<1> QED
  BY <1>3

\* checkForWinner's scans find four in a row through a slot exactly when there
\* are, wherever in the line the slot is.
LEMMA ScansAreExact ==
  ASSUME NEW b, NEW c \in Int, NEW r \in Int, NEW d \in Directions,
         OnBoard(c, r)
  PROVE  1 + Reach(b, c, r, d) + Reach(b, c, r, Opposite(d)) >= 4
           <=> \E j \in 0 .. 3 : RunThrough(b, b[c][r], c, r, d, j)
<1> DEFINE p == b[c][r]
           k1 == Reach(b, c, r, d)
           k2 == Reach(b, c, r, Opposite(d))
<1>1. k1 \in 0 .. 3 /\ k2 \in 0 .. 3
  BY ReachFacts
<1>2. \A i \in Int : /\ Same(b, c, r, d, i) <=> Owned(b, p, c, r, d, i)
                     /\ Same(b, c, r, Opposite(d), i) <=> Owned(b, p, c, r, d, -i)
  BY SameIsOwned
<1>3. /\ \A i \in 1 .. k1 : Owned(b, p, c, r, d, i)
      /\ \A i \in 1 .. k2 : Owned(b, p, c, r, d, -i)
  BY <1>1, <1>2, ReachFacts
<1>4. Owned(b, p, c, r, d, 0)
  <2>1. c + 0 * d[1] = c /\ r + 0 * d[2] = r
    BY DirectionFacts, Shifts
  <2> QED
    BY <2>1 DEF Owned
<1>5. ASSUME 1 + k1 + k2 >= 4
      PROVE  \E j \in 0 .. 3 : RunThrough(b, p, c, r, d, j)
  <2> DEFINE j == 3 - k1
  <2>1. j \in 0 .. 3 /\ j <= k2 /\ 3 - j = k1
    BY <1>1, <1>5
  <2>2. ASSUME NEW m \in -j .. 3 - j
        PROVE  Owned(b, p, c, r, d, m)
    <3>1. m \in Int /\ (m = 0 \/ m \in 1 .. k1 \/ -m \in 1 .. k2)
      BY <1>1, <2>1, <2>2
    <3>2. CASE m = 0
      BY <1>4, <3>2
    <3>3. CASE m \in 1 .. k1
      BY <1>3, <3>3
    <3>4. CASE -m \in 1 .. k2
      <4>1. Owned(b, p, c, r, d, -(-m)) /\ -(-m) = m
        BY <1>3, <3>1, <3>4
      <4> QED
        BY <4>1
    <3> QED
      BY <3>1, <3>2, <3>3, <3>4
  <2> QED
    BY <2>1, <2>2 DEF RunThrough
<1>6. ASSUME NEW j \in 0 .. 3, RunThrough(b, p, c, r, d, j)
      PROVE  1 + k1 + k2 >= 4
  <2>1. \A i \in 1 .. 3 - j : Same(b, c, r, d, i)
    <3>1. SUFFICES ASSUME NEW i \in 1 .. 3 - j PROVE Same(b, c, r, d, i)
      OBVIOUS
    <3>2. i \in Int /\ i \in -j .. 3 - j
      OBVIOUS
    <3> QED
      BY <1>2, <1>6, <3>2 DEF RunThrough
  <2>2. \A i \in 1 .. j : Same(b, c, r, Opposite(d), i)
    <3>1. SUFFICES ASSUME NEW i \in 1 .. j PROVE Same(b, c, r, Opposite(d), i)
      OBVIOUS
    <3>2. i \in Int /\ -i \in -j .. 3 - j
      OBVIOUS
    <3> QED
      BY <1>2, <1>6, <3>2 DEF RunThrough
  <2>3. 3 - j <= k1 /\ j <= k2
    <3>1. 3 - j \in 0 .. 3 /\ j \in 0 .. 3
      OBVIOUS
    <3> QED
      BY <2>1, <2>2, <3>1, ReachFacts
  <2> QED
    BY <1>1, <2>3
<1> QED
  BY <1>5, <1>6

LEMMA HasLineFacts ==
  ASSUME NEW p
  PROVE  /\ HasLine(p) <=> HasLineOn(columns, p)
         /\ UNCHANGED <<numColumns, numRows>> => (HasLine(p)' <=> HasLineOn(columns', p))
<1>1. Vectors = Directions
  BY DEF Vectors, Directions
<1>2. HasLine(p) <=> HasLineOn(columns, p)
  BY <1>1 DEF HasLine, HasLineOn, LineOfFour, Owned
<1>3. ASSUME UNCHANGED <<numColumns, numRows>>
      PROVE  HasLine(p)' <=> HasLineOn(columns', p)
  <2>1. \A c, r : OnBoard(c, r)' <=> OnBoard(c, r)
    BY <1>3 DEF OnBoard, Columns, Rows
  <2>2. Columns' = Columns /\ Rows' = Rows
    BY <1>3 DEF Columns, Rows
  <2> QED
    BY <1>1, <2>1, <2>2 DEF HasLine, HasLineOn, LineOfFour, Owned
<1> QED
  BY <1>2, <1>3

\* A disk completes a line of another board only through its own slot: a line
\* that avoids <<c, r>> was there before, and one through it is its owner's.
LEMMA NewLineIsThrough ==
  ASSUME TypeOK, NEW b, NEW c \in Columns, NEW r \in Rows, NEW q,
         \A x \in Columns, y \in Rows : x # c \/ y # r => b[x][y] = columns[x][y],
         ~ HasLineOn(columns, q), HasLineOn(b, q)
  PROVE  /\ b[c][r] = q
         /\ \E d \in Directions, j \in 0 .. 3 : RunThrough(b, q, c, r, d, j)
<1>1. PICK x \in Columns, y \in Rows, d \in Directions :
        b[x][y] = q /\ \A i \in 0 .. 3 : Owned(b, q, x, y, d, i)
  BY DEF HasLineOn
<1>2. x \in Int /\ y \in Int /\ c \in Int /\ r \in Int
  BY BoardFacts
<1> DEFINE X(i) == x + i * d[1]
           Y(i) == y + i * d[2]
<1>3. \A i \in 0 .. 3 : X(i) \in Columns /\ Y(i) \in Rows /\ b[X(i)][Y(i)] = q
  BY <1>1 DEF Owned, OnBoard
<1>4. \E i \in 0 .. 3 : X(i) = c /\ Y(i) = r
  <2>1. SUFFICES ASSUME \A i \in 0 .. 3 : X(i) # c \/ Y(i) # r
                 PROVE  FALSE
    OBVIOUS
  <2>2. \A i \in 0 .. 3 : columns[X(i)][Y(i)] = q
    <3> HIDE DEF X, Y
    <3> QED
      BY <1>3, <2>1
  <2>3. \A i \in 0 .. 3 : Owned(columns, q, x, y, d, i)
    BY <1>3, <2>2 DEF Owned, OnBoard
  <2>4. columns[x][y] = q
    <3>1. X(0) = x /\ Y(0) = y
      BY <1>2, DirectionFacts, Shifts
    <3> HIDE DEF X, Y
    <3> QED
      BY <2>2, <3>1
  <2> QED
    BY <2>3, <2>4 DEF HasLineOn
<1>5. PICK j \in 0 .. 3 : X(j) = c /\ Y(j) = r
  BY <1>4
<1>6. b[c][r] = q
  <2> HIDE DEF X, Y
  <2> QED
    BY <1>3, <1>5
<1>7. RunThrough(b, q, c, r, d, j)
  <2>1. SUFFICES ASSUME NEW m \in -j .. 3 - j PROVE Owned(b, q, c, r, d, m)
    BY DEF RunThrough
  <2>2. m \in Int /\ j \in Int /\ j + m \in 0 .. 3
    OBVIOUS
  <2>3. Owned(b, q, x, y, d, j + m)
    BY <1>1, <2>2
  <2>4. Owned(b, q, x + j * d[1], y + j * d[2], d, m)
    BY <1>2, <2>2, <2>3, OwnedShift
  <2> QED
    BY <1>5, <2>4
<1> QED
  BY <1>6, <1>7

\* Four disks through a slot make a line, whichever of them the slot is.
LEMMA ThroughIsLine ==
  ASSUME TypeOK, NEW b, NEW q, NEW c \in Columns, NEW r \in Rows,
         NEW d \in Directions, NEW j \in 0 .. 3, RunThrough(b, q, c, r, d, j)
  PROVE  HasLineOn(b, q)
<1> DEFINE x == c + (-j) * d[1]
           y == r + (-j) * d[2]
<1>1. c \in Int /\ r \in Int /\ j \in Int /\ -j \in Int /\ -j \in -j .. 3 - j
  BY BoardFacts
<1>2. x \in Columns /\ y \in Rows /\ b[x][y] = q
  BY <1>1 DEF RunThrough, Owned, OnBoard
<1>3. ASSUME NEW i \in 0 .. 3
      PROVE  Owned(b, q, x, y, d, i)
  <2>1. i \in Int /\ (-j) + i \in -j .. 3 - j
    BY <1>1
  <2>2. Owned(b, q, c, r, d, (-j) + i)
    BY <2>1 DEF RunThrough
  <2> QED
    BY <1>1, <2>1, <2>2, OwnedShift
<1> HIDE DEF x, y
<1> QED
  BY <1>2, <1>3 DEF HasLineOn

LEMMA WinnerInit ==
  ASSUME Init
  PROVE  WinnerHasTheLine
<1>1. TypeOK /\ winner = NoWinner
      /\ \A c \in Columns, r \in Rows : columns[c][r] = EmptySlot
  BY InitTyped DEF Init
<1>2. \A p \in Players : p # EmptySlot /\ p # NoWinner
  BY <1>1, BoardFacts DEF Players, EmptySlot, NoWinner
<1> QED
  BY <1>1, <1>2 DEF WinnerHasTheLine, HasLine

LEMMA WinnerStep ==
  ASSUME TypeOK, WinnerHasTheLine, [Next]_vars
  PROVE  WinnerHasTheLine'
<1>1. ASSUME NEW player \in Players, NEW column \in 0 .. numColumns,
             AcceptedTurn(player, column)
      PROVE  WinnerHasTheLine'
  <2> DEFINE row == rowIndices[column]
  <2>1. /\ column \in Columns /\ row \in Rows /\ winner = NoWinner
        /\ columns'[column][row] = player
        /\ \A c \in Columns, r \in Rows :
             c # column \/ r # row => columns'[c][r] = columns[c][r]
        /\ UNCHANGED <<numColumns, numRows, numPlayers>>
    BY <1>1, TurnFacts
  <2>2. column \in Int /\ row \in Int /\ OnBoard(column, row)
    BY <2>1, BoardFacts DEF OnBoard
  <2>3. \A p \in Players : p # NoWinner
    BY BoardFacts DEF Players, NoWinner
  <2>4. winner' = CheckForWinner(columns', column, row)
    BY <1>1 DEF AcceptedTurn
  <2>5. \A d \in Directions :
          1 + Reach(columns', column, row, d) + Reach(columns', column, row, Opposite(d)) >= 4
            <=> \E j \in 0 .. 3 : RunThrough(columns', player, column, row, d, j)
    BY <2>1, <2>2, ScansAreExact
  <2>6. SUFFICES ASSUME NEW q \in Players
                 PROVE  HasLineOn(columns', q) <=> winner' = q
    BY <2>1, HasLineFacts DEF WinnerHasTheLine, Players
  <2>7. ~ HasLineOn(columns, q)
    BY <2>1, <2>3, HasLineFacts DEF WinnerHasTheLine
  <2>8. ASSUME HasLineOn(columns', q)
        PROVE  winner' = q
    <3>1. /\ player = q
          /\ \E d \in Directions, j \in 0 .. 3 : RunThrough(columns', q, column, row, d, j)
      <4> DEFINE b == columns'
      <4>1. /\ \A x \in Columns, y \in Rows : x # column \/ y # row => b[x][y] = columns[x][y]
            /\ HasLineOn(b, q) /\ ~ HasLineOn(columns, q)
        BY <2>1, <2>7, <2>8
      <4> HIDE DEF b, row
      <4>2. /\ b[column][row] = q
            /\ \E d \in Directions, j \in 0 .. 3 : RunThrough(b, q, column, row, d, j)
        BY <2>1, <4>1, NewLineIsThrough
      <4> QED
        BY <2>1, <4>2 DEF b
    <3> QED
      BY <2>1, <2>4, <2>5, <3>1 DEF CheckForWinner
  <2>9. ASSUME winner' = q
        PROVE  HasLineOn(columns', q)
    <3>1. PICK d \in Directions : \E j \in 0 .. 3 : RunThrough(columns', player, column, row, d, j)
      BY <2>3, <2>4, <2>5, <2>9 DEF CheckForWinner
    <3>2. q = player
      BY <2>1, <2>3, <2>4, <2>9 DEF CheckForWinner
    <3> QED
      BY <2>1, <3>1, <3>2, ThroughIsLine
  <2> QED
    BY <2>8, <2>9
<1>2. CASE UNCHANGED vars
  BY <1>2 DEF vars, WinnerHasTheLine, HasLine, LineOfFour, OnBoard, Columns, Rows, Players
<1> QED
  BY <1>1, <1>2 DEF Next, RejectedTurn

\* takeTurn scans only around the last disk, and only for the player who dropped
\* it; still winner is at all times the one player with four in a row.
THEOREM WinnerIsExact == Spec => []WinnerHasTheLine
<1>1. Init => WinnerHasTheLine
  BY WinnerInit
<1>2. TypeOK /\ WinnerHasTheLine /\ [Next]_vars => WinnerHasTheLine'
  BY WinnerStep
<1> QED
  BY <1>1, <1>2, GameTypeCorrect, PTL DEF Spec
-----------------------------------------------------------------------------
(***************************************************************************)
(* Counting disks: every turn adds one, and the players take turns about.  *)
(***************************************************************************)

Slots == Columns \X Rows
Taken == {s \in Slots : columns[s[1]][s[2]] # EmptySlot}
DisksOf(p) == {s \in Slots : columns[s[1]][s[2]] = p}

\* With "to" to move, player p has had its turn in the round that began with "first".
HasMoved(first, to, p) ==
  IF first <= to THEN first <= p /\ p < to ELSE first <= p \/ p < to

\* Inductive where FairTurns is not: those who are a disk ahead are the ones who have
\* moved in the round under way.
RoundInv ==
  \E first \in Players : \A p \in Players :
    Disks(p) = Disks(currentPlayer) + (IF HasMoved(first, currentPlayer, p) THEN 1 ELSE 0)

TurnsCounted == Cardinality(Taken) = numTurns

CountInv == RoundInv /\ TurnsCounted

LEMMA SlotsFinite ==
  ASSUME TypeOK
  PROVE  /\ IsFiniteSet(Slots) /\ Cardinality(Slots) = numColumns * numRows
         /\ IsFiniteSet(Taken) /\ Cardinality(Taken) \in Nat
         /\ \A p : IsFiniteSet(DisksOf(p)) /\ Disks(p) = Cardinality(DisksOf(p)) /\ Disks(p) \in Nat
<1>1. numColumns \in Nat /\ numColumns >= 5 /\ numRows \in Nat /\ numRows >= 4
  BY BoardFacts
<1>2. /\ IsFiniteSet(Columns) /\ Cardinality(Columns) = numColumns
      /\ IsFiniteSet(Rows) /\ Cardinality(Rows) = numRows
  BY <1>1, FS_Interval DEF Columns, Rows
<1>3. IsFiniteSet(Slots) /\ Cardinality(Slots) = numColumns * numRows
  BY <1>2, FS_Product DEF Slots
<1>4. IsFiniteSet(Taken) /\ Cardinality(Taken) \in Nat
  BY <1>3, FS_Subset, FS_CardinalityType DEF Taken
<1>5. \A p : IsFiniteSet(DisksOf(p)) /\ Disks(p) = Cardinality(DisksOf(p)) /\ Disks(p) \in Nat
  BY <1>3, FS_Subset, FS_CardinalityType DEF DisksOf, Disks, Slots
<1> QED
  BY <1>3, <1>4, <1>5

LEMMA CountInit ==
  ASSUME Init
  PROVE  CountInv
<1>1. TypeOK /\ Stacked
  BY InitTyped
<1>2. numTurns = 0 /\ columns = [c \in Columns |-> [r \in Rows |-> EmptySlot]]
  BY DEF Init
<1>3. \A s \in Slots : columns[s[1]][s[2]] = EmptySlot
  BY <1>2 DEF Slots
<1>4. Taken = {} /\ \A p \in Players : DisksOf(p) = {}
  BY <1>3 DEF Taken, DisksOf, Players, EmptySlot
<1>5. TurnsCounted
  BY <1>2, <1>4, FS_EmptySet DEF TurnsCounted
<1>6. \A p \in Players : Disks(p) = 0
  BY <1>1, <1>4, SlotsFinite, FS_EmptySet
<1>7. currentPlayer \in Players /\ \A p \in Players : p \in Nat
  BY <1>1 DEF TypeOK, Players
<1>8. \A p \in Players : ~ HasMoved(currentPlayer, currentPlayer, p)
  BY <1>7 DEF HasMoved
<1>9. RoundInv
  BY <1>6, <1>7, <1>8 DEF RoundInv
<1> QED
  BY <1>5, <1>9 DEF CountInv

\* An accepted turn adds one disk, to the one who moves.
LEMMA TurnAddsDisk ==
  ASSUME TypeOK, Stacked, NEW player \in Players, NEW column \in 0 .. numColumns,
         AcceptedTurn(player, column)
  PROVE  /\ Cardinality(Taken') = Cardinality(Taken) + 1
         /\ Disks(player)' = Disks(player) + 1
         /\ \A p \in Players : p # player => Disks(p)' = Disks(p)
<1> DEFINE row == rowIndices[column]
           slot == <<column, row>>
<1>1. /\ column \in Columns /\ row \in Rows
      /\ columns'[column][row] = player
      /\ \A c \in Columns, r \in Rows :
           c # column \/ r # row => columns'[c][r] = columns[c][r]
      /\ UNCHANGED <<numColumns, numRows, numPlayers>>
  BY TurnFacts
<1>2. Slots' = Slots /\ slot \in Slots
  BY <1>1 DEF Slots, Columns, Rows
<1>3. columns[column][row] = EmptySlot
  BY <1>1, BoardFacts DEF Stacked
<1>4. player # EmptySlot /\ \A p \in Players : p # EmptySlot
  BY DEF Players, EmptySlot
<1>5. \A s \in Slots : s # slot => columns'[s[1]][s[2]] = columns[s[1]][s[2]]
  <2> TAKE s \in Slots
  <2> HAVE s # slot
  <2>1. s[1] \in Columns /\ s[2] \in Rows /\ s = <<s[1], s[2]>>
    BY DEF Slots
  <2>2. s[1] # column \/ s[2] # row
    BY <2>1
  <2> QED
    BY <1>1, <2>1, <2>2
<1>6. slot[1] = column /\ slot[2] = row
  OBVIOUS
<1> HIDE DEF slot
<1>7. Taken' = Taken \cup {slot} /\ slot \notin Taken
  BY <1>1, <1>2, <1>3, <1>4, <1>5, <1>6 DEF Taken
<1>8. DisksOf(player)' = DisksOf(player) \cup {slot} /\ slot \notin DisksOf(player)
  BY <1>1, <1>2, <1>3, <1>4, <1>5, <1>6 DEF DisksOf
<1>9. \A p \in Players : p # player => DisksOf(p)' = DisksOf(p)
  BY <1>1, <1>2, <1>3, <1>4, <1>5, <1>6 DEF DisksOf
<1>10. \A p : Disks(p)' = Cardinality(DisksOf(p)')
  BY <1>2 DEF Disks, DisksOf, Slots
<1>11. \A p : IsFiniteSet(DisksOf(p)) /\ Disks(p) = Cardinality(DisksOf(p))
  BY SlotsFinite
<1>12. IsFiniteSet(Taken)
  BY SlotsFinite
<1>13. Cardinality(Taken') = Cardinality(Taken) + 1
  BY <1>7, <1>12, FS_AddElement
<1>14. Cardinality(DisksOf(player)') = Cardinality(DisksOf(player)) + 1
  BY <1>8, <1>11, FS_AddElement
<1> QED
  BY <1>9, <1>10, <1>11, <1>13, <1>14

\* The round after a turn: it goes on, or the next begins where this one did.
LEMMA RoundGoesOn ==
  ASSUME NEW n \in 2 .. 255, NEW first \in 1 .. n, NEW cur \in 1 .. n, NEW p \in 1 .. n
  PROVE  LET next == NextPlayer(cur, n)
         IN  /\ next \in 1 .. n /\ next # cur
             /\ ~ HasMoved(first, cur, cur)
             /\ next = first => (p # cur => HasMoved(first, cur, p)) /\ ~ HasMoved(first, next, p)
             /\ next # first => /\ HasMoved(first, next, p) <=> p = cur \/ HasMoved(first, cur, p)
                                /\ ~ HasMoved(first, cur, next)
<1> DEFINE next == NextPlayer(cur, n)
<1>1. next = IF cur = n THEN 1 ELSE cur + 1
  BY DEF NextPlayer, DefaultFirstPlayer
<1> HIDE DEF next
<1>2. next \in 1 .. n /\ next # cur /\ ~ HasMoved(first, cur, cur)
  BY <1>1 DEF HasMoved
<1>3. next = first => (p # cur => HasMoved(first, cur, p)) /\ ~ HasMoved(first, next, p)
  BY <1>1 DEF HasMoved
<1>4. next # first => ~ HasMoved(first, cur, next)
  BY <1>1 DEF HasMoved
<1>5. next # first => (HasMoved(first, next, p) <=> p = cur \/ HasMoved(first, cur, p))
  <2>1. CASE cur = n
    BY <1>1, <2>1 DEF HasMoved
  <2>2. CASE cur # n
    BY <1>1, <2>2 DEF HasMoved
  <2> QED
    BY <2>1, <2>2
<1> QED
  BY <1>2, <1>3, <1>4, <1>5 DEF next

\* With "to" to move, those who have moved in the round of n players are a disk ahead.
InRound(disks, first, to, n) ==
  \A p \in 1 .. n : disks[p] = disks[to] + (IF HasMoved(first, to, p) THEN 1 ELSE 0)

\* What one turn makes of the disks of the players, counted before and after it.
LEMMA RoundCounts ==
  ASSUME NEW n \in 2 .. 255, NEW first \in 1 .. n, NEW cur \in 1 .. n,
         NEW before, NEW after, \A p \in 1 .. n : before[p] \in Nat /\ after[p] \in Nat,
         InRound(before, first, cur, n),
         after[cur] = before[cur] + 1,
         \A p \in 1 .. n : p # cur => after[p] = before[p],
         NEW next \in 1 .. n, next = NextPlayer(cur, n)
  PROVE  InRound(after, first, next, n)
<1>1. next \in 1 .. n /\ next # cur /\ ~ HasMoved(first, cur, cur)
  BY RoundGoesOn
<1> SUFFICES ASSUME NEW p \in 1 .. n
             PROVE  after[p] = after[next] + (IF HasMoved(first, next, p) THEN 1 ELSE 0)
  BY DEF InRound
<1>0. \A q \in 1 .. n : before[q] = before[cur] + (IF HasMoved(first, cur, q) THEN 1 ELSE 0)
  BY DEF InRound
<1>2. /\ next = first => \A q \in 1 .. n : (q # cur => HasMoved(first, cur, q)) /\ ~ HasMoved(first, next, q)
      /\ next # first => /\ HasMoved(first, next, p) <=> p = cur \/ HasMoved(first, cur, p)
                         /\ ~ HasMoved(first, cur, next)
  BY RoundGoesOn
<1>3. before[p] \in Nat /\ before[next] \in Nat /\ before[cur] \in Nat
  BY <1>1
<1>4. CASE next = first
  <2>1. after[next] = before[cur] + 1
    BY <1>0, <1>1, <1>2, <1>3, <1>4
  <2>2. after[p] = before[cur] + 1
    BY <1>0, <1>2, <1>3, <1>4
  <2> QED
    BY <1>0, <1>2, <1>3, <1>4, <2>1, <2>2
<1>5. CASE next # first
  <2>1. after[next] = before[cur]
    BY <1>0, <1>1, <1>2, <1>3, <1>5
  <2>2. CASE p = cur
    BY <1>0, <1>2, <1>3, <1>5, <2>1, <2>2
  <2>3. CASE p # cur
    BY <1>0, <1>2, <1>3, <1>5, <2>1, <2>3
  <2> QED
    BY <2>2, <2>3
<1> QED
  BY <1>4, <1>5

LEMMA CountStep ==
  ASSUME TypeOK, Stacked, CountInv, [Next]_vars
  PROVE  CountInv'
<1>1. ASSUME NEW player \in Players, NEW column \in 0 .. numColumns,
             AcceptedTurn(player, column)
      PROVE  CountInv'
  <2>1. /\ Cardinality(Taken') = Cardinality(Taken) + 1
        /\ Disks(player)' = Disks(player) + 1
        /\ \A p \in Players : p # player => Disks(p)' = Disks(p)
    BY <1>1, TurnAddsDisk
  <2>2. /\ player = currentPlayer /\ numTurns' = numTurns + 1
        /\ currentPlayer' = NextPlayer(currentPlayer, numPlayers)
        /\ UNCHANGED numPlayers
    BY <1>1, TurnFacts DEF AcceptedTurn
  <2>3. TurnsCounted'
    BY <2>1, <2>2 DEF CountInv, TurnsCounted
  <2>4. numPlayers \in 2 .. 255 /\ currentPlayer \in 1 .. numPlayers
        /\ Players = 1 .. numPlayers /\ Players' = 1 .. numPlayers
    BY <2>2 DEF TypeOK, Players, MinNumPlayers
  <2> DEFINE before == [p \in 1 .. numPlayers |-> Disks(p)]
             after == [p \in 1 .. numPlayers |-> Disks(p)']
             next == NextPlayer(currentPlayer, numPlayers)
  <2>5. PICK first \in 1 .. numPlayers : \A p \in 1 .. numPlayers :
          Disks(p) = Disks(currentPlayer) + (IF HasMoved(first, currentPlayer, p) THEN 1 ELSE 0)
    BY <2>4 DEF CountInv, RoundInv
  <2>6. \A p \in 1 .. numPlayers : Disks(p) \in Nat
    BY SlotsFinite
  <2>7. /\ before[currentPlayer] = Disks(currentPlayer)
        /\ after[currentPlayer] = before[currentPlayer] + 1
        /\ \A p \in 1 .. numPlayers : p # currentPlayer => after[p] = before[p]
    BY <2>1, <2>2, <2>4
  <2>8. InRound(before, first, currentPlayer, numPlayers)
    BY <2>4, <2>5 DEF InRound
  <2>9. \A p \in 1 .. numPlayers : before[p] \in Nat
    BY <2>6
  <2>10. \A p \in 1 .. numPlayers : before[p] \in Nat /\ after[p] \in Nat
    BY <2>4, <2>7, <2>9
  <2>11. next \in 1 .. numPlayers
    BY <2>4, RoundGoesOn
  <2>12. InRound(after, first, next, numPlayers)
    <3> HIDE DEF before, after
    <3>1. next = NextPlayer(currentPlayer, numPlayers)
      OBVIOUS
    <3> HIDE DEF next
    <3> QED
      BY <2>4, <2>7, <2>8, <2>10, <2>11, <3>1, RoundCounts
  <2> HIDE DEF before, after
  <2>13. \A p \in 1 .. numPlayers : after[p] = Disks(p)'
    BY DEF after
  <2>14. \A p \in Players' : Disks(p)' = Disks(currentPlayer)'
           + (IF HasMoved(first, currentPlayer, p)' THEN 1 ELSE 0)
    <3>1. Disks(currentPlayer)' = after[next]
      BY <2>2, <2>11, <2>13 DEF Disks
    <3>2. \A p : HasMoved(first, currentPlayer, p)' <=> HasMoved(first, next, p)
      BY <2>2 DEF HasMoved
    <3> QED
      BY <2>4, <2>12, <2>13, <3>1, <3>2 DEF InRound
  <2> QED
    BY <2>3, <2>4, <2>14 DEF CountInv, RoundInv
<1>2. CASE UNCHANGED vars
  <2>1. UNCHANGED <<numColumns, numRows, columns, numPlayers, currentPlayer, numTurns>>
    BY <1>2 DEF vars
  <2>2. TurnsCounted'
    BY <2>1 DEF CountInv, TurnsCounted, Taken, Slots, Columns, Rows
  <2>3. /\ \A p : Disks(p)' = Disks(p)
        /\ Disks(currentPlayer)' = Disks(currentPlayer)
        /\ Players' = Players
        /\ \A first, p : HasMoved(first, currentPlayer, p)' <=> HasMoved(first, currentPlayer, p)
    BY <2>1 DEF Disks, Columns, Rows, Players, HasMoved
  <2>4. PICK first \in Players : \A p \in Players :
          Disks(p) = Disks(currentPlayer) + (IF HasMoved(first, currentPlayer, p) THEN 1 ELSE 0)
    BY DEF CountInv, RoundInv
  <2>5. \A p \in Players' : Disks(p)' = Disks(currentPlayer)'
          + (IF HasMoved(first, currentPlayer, p)' THEN 1 ELSE 0)
    BY <2>3, <2>4
  <2>6. RoundInv'
    BY <2>3, <2>5 DEF RoundInv
  <2> QED
    BY <2>2, <2>6 DEF CountInv
<1> QED
  BY <1>1, <1>2 DEF Next, RejectedTurn

LEMMA CountInductive == Spec => [](TypeOK /\ Stacked /\ CountInv)
<1>1. Init => TypeOK /\ Stacked /\ CountInv
  BY InitTyped, CountInit
<1>2. (TypeOK /\ Stacked /\ CountInv) /\ [Next]_vars => (TypeOK /\ Stacked /\ CountInv)'
  BY StepTyped, CountStep
<1> QED
  BY <1>1, <1>2, PTL DEF Spec

\* getNextPlayer, in eight bits and from any first player, gives every player the same
\* number of turns, to within the round under way.
THEOREM TurnsAreFair == Spec => []FairTurns
<1>1. TypeOK /\ CountInv => FairTurns
  <2> SUFFICES ASSUME TypeOK, CountInv, NEW p \in Players
               PROVE  Disks(p) - Disks(currentPlayer) \in {0, 1}
    BY DEF FairTurns
  <2>1. PICK first \in Players : \A q \in Players :
          Disks(q) = Disks(currentPlayer) + (IF HasMoved(first, currentPlayer, q) THEN 1 ELSE 0)
    BY DEF CountInv, RoundInv
  <2> QED
    BY <2>1, SlotsFinite
<1> QED
  BY <1>1, CountInductive, PTL

\* Board::isFull, which compares heights, holds after as many turns as there are slots
\* and not before.
THEOREM FullIsExact == Spec => []FullAfterEverySlot
<1>1. TypeOK /\ Stacked /\ CountInv => FullAfterEverySlot
  <2> SUFFICES ASSUME TypeOK, Stacked, CountInv
               PROVE  FullAfterEverySlot
    OBVIOUS
  <2>1. IsFull <=> \A c \in Columns : rowIndices[c] = numRows
    BY DEF IsFull, IsColumnFull
  <2>2. (\A c \in Columns : rowIndices[c] = numRows) <=>
          \A c \in Columns, r \in Rows : columns[c][r] # EmptySlot
    <3>1. ASSUME NEW c \in Columns
          PROVE  rowIndices[c] = numRows <=> \A r \in Rows : r < rowIndices[c]
      <4>1. rowIndices[c] \in 0 .. numRows /\ numRows \in Nat /\ numRows >= 4
        BY BoardFacts DEF TypeOK
      <4>2. numRows - 1 \in Rows
        BY <4>1 DEF Rows
      <4> QED
        BY <4>1, <4>2 DEF Rows
    <3> QED
      BY <3>1 DEF Stacked
  <2>3. (\A c \in Columns, r \in Rows : columns[c][r] # EmptySlot) <=> Taken = Slots
    <3>1. ASSUME \A c \in Columns, r \in Rows : columns[c][r] # EmptySlot
          PROVE  Taken = Slots
      BY <3>1 DEF Taken, Slots
    <3>2. ASSUME Taken = Slots, NEW c \in Columns, NEW r \in Rows
          PROVE  columns[c][r] # EmptySlot
      <4>1. <<c, r>> \in Taken
        BY <3>2 DEF Slots
      <4> QED
        BY <4>1 DEF Taken
    <3> QED
      BY <3>1, <3>2
  <2>4. Taken \in SUBSET Slots
    BY DEF Taken
  <2>5. Taken = Slots <=> Cardinality(Taken) = Cardinality(Slots)
    BY <2>4, SlotsFinite, FS_Subset
  <2> QED
    BY <2>1, <2>2, <2>3, <2>5, SlotsFinite DEF CountInv, TurnsCounted, FullAfterEverySlot
<1> QED
  BY <1>1, CountInductive, PTL
=============================================================================
