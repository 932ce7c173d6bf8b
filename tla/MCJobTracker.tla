---------------------------- MODULE MCJobTracker ----------------------------
(* Five jobs, two of which have the same id. *)
EXTENDS JobTracker, TLC

CONSTANTS j1, j2, j3, j4, j5, a, b, c, d, k1, k2

MCIdOf == (j1 :> a) @@ (j2 :> a) @@ (j3 :> b) @@ (j4 :> c) @@ (j5 :> d)
=============================================================================
