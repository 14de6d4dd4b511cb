--------------------------- MODULE MCConsoleClient ---------------------------
(***************************************************************************)
(* ConsoleClient for TLC, and what comments of the code say of it that the *)
(* code does not do.                                                       *)
(***************************************************************************)
EXTENDS ConsoleClient

\* client.hpp:52 says that stop is "Useful to external threads needing to forcibly stop
\* the client": so a stop from the input thread, at any time, makes no thread use a
\* socket that is not there any more.
SocketIsThere == crashed # "null"

\* The ten seconds of the ping timer are long for threads and network: it expires when
\* only the user is waited for.
UnhurriedSpec ==
  Init /\ [][Next /\ (PingTimer => UserIsWaitedFor)]_vars

\* connection.cpp:323 says of the fourth missed pong "did not receive any pong, assume
\* client is lost": so whom the server gave up has left, or cannot be reached.
DroppedMeansLost ==
  ~ clientIsConnected => wire # "up" \/ socket # "open" \/ io = "done" \/ crashed # "no"
=============================================================================
