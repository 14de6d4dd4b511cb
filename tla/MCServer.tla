------------------------------ MODULE MCServer ------------------------------
(***************************************************************************)
(* Small sets of connections for checking Server, and what the comments    *)
(* and the README say of the server where the code does otherwise.         *)
(***************************************************************************)
EXTENDS Server, TLC

\* Which connection is which makes no difference to safety.
Symmetry == Permutations(Connections)

\* Bound: the server goes on accepting, and two clients leave or are not read any more.
\* (In the queue run three are.)
TwoFail ==
  accepting /\ Cardinality({c \in accepted : closed[c] \/ ~ reading[c]}) <= 2

\* Fair behaviours within that bound: it cuts off failures, never a handler.
FairTwoFail == Init /\ [][Next /\ TwoFail']_vars /\ Fairness

\* "Returns true if the max number of players are connected" (gamelobby.hpp:53):
\* a full lobby has no seat of a connection that has ended.
FullMeansConnected ==
  \A l \in Lobbies : IsFull(lobbies[l]) =>
    \A c \in PlayersOf(l) : clientIsConnected[c]

\* "The game starts immediately once both players are ready" (README.md:38), and
\* not sooner: whoever sits in a lobby that plays has said so.
PlayingMeansReady ==
  \A l \in Lobbies : lobbies[l].isPlayingGame =>
    \A c \in PlayersOf(l) : clientIsReady[c]

\* "When clients connect to the server, they are either put into a game lobby
\* immediately, or into a queue if all lobbies are full" (README.md:38).
EveryClientIsServed == \A c \in Connections : <>(c \in accepted)
=============================================================================
