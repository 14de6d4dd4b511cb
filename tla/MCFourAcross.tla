--------------------------- MODULE MCFourAcross -----------------------------
(***************************************************************************)
(* Constructor arguments and exploration bounds for checking FourAcross.   *)
(***************************************************************************)
EXTENDS FourAcross

\* Boards the constructor rejects (testboard.cpp) and the one the lobby plays on.
BoardArgs == {<<0, 0>>, <<7, 0>>, <<0, 6>>, <<5, 6>>, <<5, 4>>}

\* At most two columns are under way at a time, the second of them only once the
\* first holds two disks; the ones to their left are full and the ones to their
\* right are empty.  Whole games stay reachable.
LeftToRight ==
  \A c \in Columns : c >= 2 /\ rowIndices[c] > 0 =>
    rowIndices[c - 2] = numRows /\ rowIndices[c - 1] >= 2

\* Bound: every game of two players up to ten turns, and whole games that fill
\* the columns from the left.
EveryShortGame == LeftToRight \/ (numPlayers = 2 /\ numTurns < 10)
=============================================================================
