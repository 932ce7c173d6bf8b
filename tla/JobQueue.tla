------------------------------ MODULE JobQueue ------------------------------
(***************************************************************************)
(* What a job source can rely on: jobs run in the order in which they were *)
(* accepted, at most Slots at a time, never two of the same identity, and  *)
(* none waits while a slot is free.  JobTracker implements it.             *)
(***************************************************************************)
EXTENDS Naturals, Sequences, FiniteSets

CONSTANTS
  Job,     \* the jobs ever offered
  IdOf,    \* the identity of each job
  Slots    \* how many may be active

VARIABLES
  active,  \* the jobs that occupy a slot
  waiting  \* the accepted jobs without one, oldest first

vars == <<active, waiting>>

Known == active \cup {waiting[n] : n \in DOMAIN waiting}

Init == active = {} /\ waiting = <<>>

(* A job whose identity is not in use gets a free slot, or has to wait. *)
Accept(j) ==
  /\ \A k \in Known : IdOf[k] # IdOf[j]
  /\ IF Cardinality(active) < Slots
     THEN active' = active \cup {j} /\ UNCHANGED waiting
     ELSE waiting' = Append(waiting, j) /\ UNCHANGED active

(* A slot passes to the job that has waited longest, if there is one. *)
Complete(j) ==
  /\ j \in active
  /\ IF waiting = <<>>
     THEN active' = active \ {j} /\ UNCHANGED waiting
     ELSE /\ active' = (active \ {j}) \cup {Head(waiting)}
          /\ waiting' = Tail(waiting)

Next == \E j \in Job : Accept(j) \/ Complete(j)

Spec == Init /\ [][Next]_vars
=============================================================================
