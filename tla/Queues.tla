------------------------------- MODULE Queues -------------------------------
(***************************************************************************)
(* What is in an array, and whether it is there once: the code keeps       *)
(* queues, lists of reactions and results of queries in arrays.            *)
(***************************************************************************)
EXTENDS Naturals, Sequences

Elements(s) == {s[i] : i \in DOMAIN s}
Distinct(s) == \A i, j \in DOMAIN s : s[i] = s[j] => i = j
=============================================================================
