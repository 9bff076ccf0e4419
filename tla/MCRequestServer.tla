-------------------------- MODULE MCRequestServer --------------------------
(* Instances of RequestServer for TLC.                                     *)
EXTENDS RequestServer

CONSTANTS a, b, h1, h2, h3

LinkAndFile == {a, b}
Link == {a}
\* One more than MaxConnections: the last is never used.
Handlers == {h1, h2, h3}
===========================================================================
