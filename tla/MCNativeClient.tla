---------------------------- MODULE MCNativeClient ----------------------------
(* A query, a registration, a send and two closes in every interleaving.     *)
EXTENDS NativeClient

CONSTANTS q1, r1, e1, k1, k2

MCQueries == {q1}
MCRegisters == {r1}
MCSends == {e1}
MCCloses == {k1, k2}
=============================================================================
