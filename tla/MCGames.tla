------------------------------ MODULE MCGames ------------------------------
(* One game on the first of two pages, and two calls at a time. *)
EXTENDS Games

CONSTANT g1
=============================================================================
