----------------------- MODULE ConnectionMutexProofs -----------------------
(***************************************************************************)
(* For every set of clients and any number of calls: one client at a time  *)
(* has the connection, no statement is undone with the transaction of      *)
(* another client, and no wakeup is lost.                                  *)
(***************************************************************************)
EXTENDS ConnectionMutex, QueueProofs

-----------------------------------------------------------------------------
(* The initial state satisfies the inductive invariant. *)
LEMMA InitMutexInv == Init => MutexInv
<1> SUFFICES ASSUME Init PROVE MutexInv
  OBVIOUS
<1>1. TypeOK
  BY CallsAssumption DEF Init, TypeOK, Owner, PCs
<1>2. Held /\ OwnChanges
  BY NoneAssumption DEF Init, Held, OwnChanges, Holders
<1>3. Elements(<<>>) = {} /\ Distinct(<<>>)
  BY DEF Elements, Distinct
<1>4. NoLostWakeup /\ WokenOnce
  BY <1>3 DEF Init, NoLostWakeup, WokenOnce
<1> QED
  BY <1>1, <1>2, <1>4 DEF MutexInv

(* A client that is not in a queue and not the holder looks at the mutex:  *)
(* it becomes the holder, or is queued once.                               *)
LEMMA CheckKeeps ==
  ASSUME MutexInv, NEW c \in Client, Check(c), c \notin Holders,
         UNCHANGED <<tx, changes>>,
         calls' \in [Client -> Nat],
         ready' \in Seq(Client), Distinct(ready'),
         c \notin Elements(ready'),
         Elements(ready') \cup {c} = Elements(ready) \cup {c},
         \A p \in Client : c \notin Elements(reactions[p])
  PROVE  MutexInv'
<1> USE DEF MutexInv, TypeOK, Owner, PCs
<1>1. CASE /\ promise # None
           /\ reactions' = [reactions EXCEPT ![promise] = Append(@, c)]
           /\ pc' = [pc EXCEPT ![c] = "awaiting"]
           /\ UNCHANGED <<promise, resolve>>
  <2>1. promise \in Client /\ reactions[promise] \in Seq(Client)
    BY <1>1
  <2> DEFINE q == Append(reactions[promise], c)
  <2>2. /\ q \in Seq(Client)
        /\ Elements(q) = Elements(reactions[promise]) \cup {c}
        /\ Distinct(q)
    BY <2>1, AppendElements DEF WokenOnce
  <2> HIDE DEF q
  <2>3. /\ reactions' \in [Client -> Seq(Client)]
        /\ reactions'[promise] = q
        /\ \A p \in Client \ {promise} : reactions'[p] = reactions[p]
    BY <1>1, <2>1, <2>2 DEF q
  <2>4. TypeOK'
    BY <1>1, <2>1, <2>3
  <2>5. Held' /\ OwnChanges'
    BY <1>1 DEF Held, Holders, OwnChanges
  <2>6. NoLostWakeup'
    BY <1>1, <2>1, <2>2, <2>3 DEF NoLostWakeup
  <2>7. WokenOnce'
    <3>1. Elements(ready') \subseteq Elements(ready) /\ c \notin Elements(ready')
      OBVIOUS
    <3>2. Elements(ready') \cap Elements(q) = {}
      BY <2>1, <2>2, <3>1 DEF WokenOnce
    <3>3. ASSUME NEW p \in Client \ {promise}
          PROVE  Distinct(reactions'[p]) /\ Elements(ready') \cap Elements(reactions'[p]) = {}
      BY <2>3, <3>1 DEF WokenOnce
    <3> QED
      BY <2>2, <2>3, <3>2, <3>3 DEF WokenOnce
  <2> QED
    BY <2>4, <2>5, <2>6, <2>7
<1>2. CASE /\ promise = None
           /\ promise' = c /\ resolve' = c
           /\ pc' = [pc EXCEPT ![c] = "holding"]
           /\ UNCHANGED reactions
  <2>1. \A p \in Client : reactions[p] = <<>>
    BY <1>2, NoneAssumption
  <2>2. Elements(<<>>) = {}
    BY DEF Elements
  <2>3. TypeOK'
    BY <1>2, <2>1
  <2>4. Held' /\ OwnChanges'
    BY <1>2, NoneAssumption DEF Held, Holders, OwnChanges
  <2>5. NoLostWakeup'
    BY <1>2, <2>1, <2>2 DEF NoLostWakeup
  <2>6. WokenOnce'
    BY <1>2, <2>1, <2>2 DEF WokenOnce
  <2> QED
    BY <2>3, <2>4, <2>5, <2>6
<1> QED
  BY <1>1, <1>2 DEF Check

(* The holder gives the mutex back: those that await it are woken. *)
LEMMA UnlockKeeps ==
  ASSUME MutexInv, NEW c \in Client, Unlock, c \in Holders, tx = None,
         pc' = [pc EXCEPT ![c] = "idle"],
         UNCHANGED <<tx, changes, calls>>
  PROVE  MutexInv'
<1> USE DEF MutexInv, TypeOK, Owner, PCs
<1>1. promise = c /\ resolve = c /\ Holders = {c}
  BY DEF Held
<1>2. /\ promise' = None /\ resolve' = None
      /\ ready' = ready \o reactions[c]
      /\ reactions' = [d \in Client |-> IF d = c THEN <<>> ELSE reactions[d]]
  BY <1>1, NoneAssumption DEF Unlock
<1>3. \A p \in Client : reactions'[p] = <<>>
  BY <1>1, <1>2
<1>4. /\ ready' \in Seq(Client)
      /\ Elements(ready') = Elements(ready) \cup Elements(reactions[c])
      /\ Distinct(ready')
  BY <1>2, ConcatElements DEF WokenOnce
<1>5. Elements(<<>>) = {} /\ Distinct(<<>>)
  BY DEF Elements, Distinct
<1>6. TypeOK'
  BY <1>2, <1>3, <1>4
<1>7. Held' /\ OwnChanges'
  BY <1>1, <1>2, NoneAssumption DEF Held, Holders, OwnChanges
<1>8. NoLostWakeup'
  BY <1>1, <1>2, <1>4, NoneAssumption DEF NoLostWakeup, Holders
<1>9. WokenOnce'
  BY <1>3, <1>4, <1>5 DEF WokenOnce
<1> QED
  BY <1>6, <1>7, <1>8, <1>9

(* Every step keeps the inductive invariant. *)
LEMMA NextMutexInv == MutexInv /\ [Next]_vars => MutexInv'
<1> SUFFICES ASSUME MutexInv, [Next]_vars PROVE MutexInv'
  OBVIOUS
<1> USE DEF MutexInv, TypeOK, Owner, PCs
<1>1. ASSUME NEW c \in Client, Lock(c) PROVE MutexInv'
  <2>1. c \notin Holders /\ c \notin Elements(ready)
    BY <1>1 DEF Lock, Holders, NoLostWakeup
  <2>2. \A p \in Client : c \notin Elements(reactions[p])
    <3>1. \A p \in Client : p # promise => reactions[p] = <<>>
      OBVIOUS
    <3>2. Elements(<<>>) = {}
      BY DEF Elements
    <3>3. promise # None => c \notin Elements(reactions[promise])
      BY <1>1 DEF Lock, NoLostWakeup
    <3> QED
      BY <3>1, <3>2, <3>3, NoneAssumption
  <2>3. /\ Check(c) /\ UNCHANGED <<tx, changes>> /\ ready' = ready
        /\ calls' \in [Client -> Nat]
    BY <1>1 DEF Lock
  <2>4. /\ ready' \in Seq(Client) /\ Distinct(ready') /\ c \notin Elements(ready')
        /\ Elements(ready') \cup {c} = Elements(ready) \cup {c}
    BY <2>1, <2>3 DEF WokenOnce
  <2> QED
    BY <2>1, <2>2, <2>3, <2>4, CheckKeeps
<1>2. ASSUME NEW c \in Client, Recheck(c) PROVE MutexInv'
  <2>1. /\ ready' \in Seq(Client) /\ Distinct(ready')
        /\ c \in Elements(ready)
        /\ Elements(ready') = Elements(ready) \ {c}
    BY <1>2, TailElements DEF Recheck, WokenOnce
  <2>2. c \notin Holders
    BY <2>1 DEF NoLostWakeup, Holders
  <2>3. \A p \in Client : c \notin Elements(reactions[p])
    BY <2>1 DEF WokenOnce
  <2> QED
    BY <1>2, <2>1, <2>2, <2>3, CheckKeeps DEF Recheck
<1>3. ASSUME NEW c \in Client, Begin(c) PROVE MutexInv'
  <2>1. Held'
    BY <1>3 DEF Begin, Held, Holders
  <2>2. OwnChanges'
    BY <1>3, NoneAssumption DEF Begin, OwnChanges, Held
  <2> QED
    BY <1>3, <2>1, <2>2 DEF Begin, NoLostWakeup, WokenOnce
<1>4. ASSUME NEW c \in Client, Release(c) PROVE MutexInv'
  <2>1. c \in Holders /\ tx = None
    BY <1>4, NoneAssumption DEF Release, Held, Holders
  <2> QED
    BY <1>4, <2>1, UnlockKeeps DEF Release
<1>5. ASSUME NEW c \in Client, Execute(c) PROVE MutexInv'
  <2>1. tx # None => tx = c
    BY <1>5, NoneAssumption DEF Execute, Held, Holders
  <2>2. OwnChanges'
    BY <1>5, <2>1 DEF Execute, OwnChanges
  <2> QED
    BY <1>5, <2>2 DEF Execute, Held, Holders, NoLostWakeup, WokenOnce
<1>6. ASSUME NEW c \in Client, End(c) PROVE MutexInv'
  <2>1. Held'
    BY <1>6, NoneAssumption DEF End, Held, Holders
  <2> QED
    BY <1>6, <2>1 DEF End, OwnChanges, NoLostWakeup, WokenOnce
<1>7. ASSUME NEW c \in Client, ReleaseEnded(c) PROVE MutexInv'
  <2>1. c \in Holders /\ tx = None
    BY <1>7, NoneAssumption DEF ReleaseEnded, Held, Holders
  <2> QED
    BY <1>7, <2>1, UnlockKeeps DEF ReleaseEnded
<1>8. CASE UNCHANGED vars
  BY <1>8 DEF vars, Held, Holders, OwnChanges, NoLostWakeup, WokenOnce
<1> QED
  BY <1>1, <1>2, <1>3, <1>4, <1>5, <1>6, <1>7, <1>8 DEF Next, Step

(* The inductive invariant holds always. *)
THEOREM MutexInvHolds == Spec => []MutexInv
  BY InitMutexInv, NextMutexInv, PTL DEF Spec

(* At most one query or transaction has the connection (ConnectionMutex).  *)
THEOREM MutexExcludes == Spec => []MutualExclusion
<1>1. MutexInv => MutualExclusion
  BY DEF MutexInv, Held, MutualExclusion
<1> QED
  BY <1>1, MutexInvHolds, PTL

(* A rollback undoes no statement of another client. *)
THEOREM ChangesAreOwn == Spec => []OwnChanges
<1>1. MutexInv => OwnChanges
  BY DEF MutexInv
<1> QED
  BY <1>1, MutexInvHolds, PTL

(* Every client that waits for the connection is woken already or will be  *)
(* by the next unlock.                                                     *)
THEOREM WakeupsAreKept == Spec => []NoLostWakeup
<1>1. MutexInv => NoLostWakeup
  BY DEF MutexInv
<1> QED
  BY <1>1, MutexInvHolds, PTL
=============================================================================
