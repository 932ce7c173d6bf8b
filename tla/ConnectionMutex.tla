-------------------------- MODULE ConnectionMutex --------------------------
(***************************************************************************)
(* The one database connection of a process and the mutex that hands it to *)
(* the queries and transactions of that process (NodeSqliteDriver.mts; the *)
(* driver of Kysely for better-sqlite3 has the same one).                  *)
(*                                                                         *)
(* A step is what runs between two awaits.  A call of lock that finds the  *)
(* mutex taken awaits the promise of its owner; when that is resolved, the *)
(* calls that await it are queued as microtasks, in the order in which     *)
(* they came, and look at the mutex again.  A call that comes first may    *)
(* get it before them.                                                     *)
(***************************************************************************)
EXTENDS Queues

CONSTANTS
  Client,    \* queries and transactions under way at a time
  None,      \* undefined
  MaxCalls   \* bound: calls of lock by one client

ASSUME NoneAssumption == None \notin Client
ASSUME CallsAssumption == MaxCalls \in Nat

VARIABLES
  promise,   \* #promise, named after the client whose lock call made it
  resolve,   \* #resolve: the promise it resolves
  reactions, \* the clients that await each promise
  ready,     \* the microtasks of those whose promise has been resolved
  pc,        \* where each client is
  tx,        \* the client whose transaction is open on the connection
  changes,   \* the clients whose statements a rollback would undo
  calls      \* of lock, by each client

vars == <<promise, resolve, reactions, ready, pc, tx, changes, calls>>

Owner == Client \cup {None}

Init ==
  /\ promise = None /\ resolve = None
  /\ reactions = [c \in Client |-> <<>>]
  /\ ready = <<>>
  /\ pc = [c \in Client |-> "idle"]
  /\ tx = None /\ changes = {}
  /\ calls = [c \in Client |-> 0]

(* The loop of lock: await the promise there is, or make one. *)
Check(c) ==
  \/ /\ promise # None
     /\ reactions' = [reactions EXCEPT ![promise] = Append(@, c)]
     /\ pc' = [pc EXCEPT ![c] = "awaiting"]
     /\ UNCHANGED <<promise, resolve>>
  \/ /\ promise = None
     /\ promise' = c /\ resolve' = c
     /\ pc' = [pc EXCEPT ![c] = "holding"]
     /\ UNCHANGED reactions

(* acquireConnection. *)
Lock(c) ==
  /\ pc[c] = "idle"
  /\ calls[c] < MaxCalls
  /\ calls' = [calls EXCEPT ![c] = @ + 1]
  /\ Check(c)
  /\ UNCHANGED <<ready, tx, changes>>

(* The await of lock returns. *)
Recheck(c) ==
  /\ ready # <<>> /\ Head(ready) = c
  /\ ready' = Tail(ready)
  /\ Check(c)
  /\ UNCHANGED <<tx, changes, calls>>

(* Mutant: the promise is dropped and not resolved. *)
UnlockQuietly ==
  /\ promise' = None /\ resolve' = None
  /\ UNCHANGED <<reactions, ready>>

(* unlock: the promise is forgotten first, and then resolved. *)
Unlock ==
  /\ promise' = None /\ resolve' = None
  /\ ready' = IF resolve = None THEN ready ELSE ready \o reactions[resolve]
  /\ reactions' = [c \in Client |-> IF c = resolve THEN <<>> ELSE reactions[c]]

(* beginTransaction. *)
Begin(c) ==
  /\ pc[c] = "holding" /\ tx = None
  /\ tx' = c
  /\ pc' = [pc EXCEPT ![c] = "open"]
  /\ UNCHANGED <<promise, resolve, reactions, ready, changes, calls>>

(* A query of its own, or begin has failed: the connection is released. *)
Release(c) ==
  /\ pc[c] = "holding"
  /\ Unlock
  /\ pc' = [pc EXCEPT ![c] = "idle"]
  /\ UNCHANGED <<tx, changes, calls>>

(* executeQuery: within whatever transaction the connection has open. *)
Execute(c) ==
  /\ pc[c] \in {"holding", "open"}
  /\ changes' = IF tx = None THEN changes ELSE changes \cup {c}
  /\ UNCHANGED <<promise, resolve, reactions, ready, pc, tx, calls>>

(* Mutant: the connection is released before the transaction ends. *)
EndReleased(c) ==
  /\ pc[c] = "open"
  /\ Unlock
  /\ pc' = [pc EXCEPT ![c] = "ended"]
  /\ UNCHANGED <<tx, changes, calls>>

(* commitTransaction or rollbackTransaction. *)
End(c) ==
  /\ pc[c] = "open"
  /\ tx' = None /\ changes' = {}
  /\ pc' = [pc EXCEPT ![c] = "ended"]
  /\ UNCHANGED <<promise, resolve, reactions, ready, calls>>

(* releaseConnection, after the transaction. *)
ReleaseEnded(c) ==
  /\ pc[c] = "ended"
  /\ Unlock
  /\ pc' = [pc EXCEPT ![c] = "idle"]
  /\ UNCHANGED <<tx, changes, calls>>

Step(c) ==
  \/ Recheck(c) \/ Begin(c) \/ Release(c) \/ End(c) \/ ReleaseEnded(c)

Next == \E c \in Client : Lock(c) \/ Execute(c) \/ Step(c)

Spec == Init /\ [][Next]_vars

(* Microtasks run, and every transaction ends. *)
Fairness == \A c \in Client : WF_vars(Step(c))

FairSpec == Spec /\ Fairness
-----------------------------------------------------------------------------
PCs == {"idle", "awaiting", "holding", "open", "ended"}

(* The values the variables take.  Only the promise of the mutex is awaited. *)
TypeOK ==
  /\ \A c \in Client : reactions[c] # <<>> => promise = c
  /\ promise \in Owner /\ resolve \in Owner /\ tx \in Owner
  /\ reactions \in [Client -> Seq(Client)]
  /\ ready \in Seq(Client)
  /\ pc \in [Client -> PCs]
  /\ changes \in SUBSET Client
  /\ calls \in [Client -> Nat]

Holders == {c \in Client : pc[c] \in {"holding", "open", "ended"}}

(* At most one client has the connection, however the microtasks of the    *)
(* clients that wait for it and new calls of lock are interleaved.         *)
MutualExclusion == \A c, d \in Holders : c = d

(* A commit or a rollback ends the statements of its own transaction only: *)
(* nothing another client has executed is undone with it.                  *)
OwnChanges == changes # {} => changes = {tx}

(* The mutex is held by the client whose promise it has, and the open      *)
(* transaction is that client's.                                           *)
Held ==
  /\ resolve = promise
  /\ Holders = IF promise = None THEN {} ELSE {promise}
  /\ \A c \in Client : pc[c] = "open" <=> tx = c

(* No wakeup is lost: a client that awaits is woken already, or awaits the *)
(* promise that the next unlock resolves; and nobody is woken in vain.     *)
NoLostWakeup ==
  \A c \in Client : pc[c] = "awaiting" <=>
    \/ c \in Elements(ready)
    \/ promise # None /\ c \in Elements(reactions[promise])

(* Nobody is woken twice. *)
WokenOnce ==
  /\ Distinct(ready)
  /\ \A p \in Client : /\ Distinct(reactions[p])
                       /\ Elements(ready) \cap Elements(reactions[p]) = {}

(* Why there is one holder: whoever looks at the mutex does not hold it.   *)
MutexInv == TypeOK /\ Held /\ OwnChanges /\ NoLostWakeup /\ WokenOnce

(* Every call of lock gets the connection: those that come first may go    *)
(* ahead, but nobody is forgotten.                                         *)
CallsAreServed == \A c \in Client : pc[c] = "awaiting" ~> pc[c] = "holding"
=============================================================================
