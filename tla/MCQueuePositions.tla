-------------------------- MODULE MCQueuePositions --------------------------
(***************************************************************************)
(* QueuePositions for TLC: connections are interchangeable.                *)
(***************************************************************************)
EXTENDS QueuePositions, TLC

Symmetry == Permutations(Connections)

\* Bound: the server goes on accepting (the ghosts run has it fail), and three clients
\* leave or are not read any more.
ThreeFail ==
  accepting /\ Cardinality({c \in accepted : closed[c] \/ ~ reading[c]}) <= 3
=============================================================================
