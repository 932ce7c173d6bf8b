--------------------------- MODULE MCApplication ----------------------------
(* Two edits; the releases are those of the migrations there are. *)
EXTENDS Application

CONSTANTS e1, e2
=============================================================================
