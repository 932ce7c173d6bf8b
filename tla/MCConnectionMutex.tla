------------------------- MODULE MCConnectionMutex -------------------------
(* Four clients, each of which takes the connection three times. *)
EXTENDS ConnectionMutex

CONSTANTS c1, c2, c3, c4
=============================================================================
