-------------------------- MODULE JobTrackerProofs --------------------------
(***************************************************************************)
(* For any jobs, ids, concurrency and checks: the accounts of a job source *)
(* agree after every step, and it implements JobQueue.                     *)
(***************************************************************************)
EXTENDS JobTracker, QueueProofs, FiniteSetTheorems

(* The slots of a set of jobs. *)
LEMMA JobsAreFinite ==
  ASSUME NEW A \in SUBSET Job, NEW j \in Job
  PROVE  /\ IsFiniteSet(A) /\ Cardinality(A) \in Nat
         /\ Cardinality(A \cup {j}) = IF j \in A THEN Cardinality(A) ELSE Cardinality(A) + 1
         /\ Cardinality(A \ {j}) = IF j \in A THEN Cardinality(A) - 1 ELSE Cardinality(A)
<1>1. IsFiniteSet(A)
  BY IdAssumption, FS_Subset
<1> QED
  BY <1>1, FS_CardinalityType, FS_AddElement, FS_RemoveElement

(* What a check returns are new jobs, each once. *)
LEMMA ReturnedIsFresh ==
  ASSUME NEW js \in Returned
  PROVE  js \in Seq(Job) /\ Distinct(js) /\ Elements(js) \subseteq Fresh
<1>1. PICK n \in 0 .. MaxReturned :
        /\ js \in [1 .. n -> Fresh]
        /\ \A a, b \in 1 .. n : a # b => js[a] # js[b]
  BY DEF Returned
<1>2. n \in Nat /\ DOMAIN js = 1 .. n /\ Fresh \subseteq Job
  BY <1>1, ScheduleAssumption DEF Fresh
<1>3. js \in Seq(Job)
  BY <1>1, <1>2
<1> QED
  BY <1>1, <1>2, <1>3 DEF Distinct, Elements

(* The elements of a queue are of the set it is a queue of. *)
LEMMA ElementsAreIn ==
  ASSUME NEW S, NEW s \in Seq(S)
  PROVE  Elements(s) \subseteq S
BY DEF Elements

LEMMA ActiveAreJobs == ASSUME TypeOK PROVE Active \in SUBSET Job
BY ElementsAreIn DEF TypeOK, Active

-----------------------------------------------------------------------------
(* The initial state satisfies the inductive invariant. *)
LEMMA InitTrackerInv == Init => TrackerInv
<1> SUFFICES ASSUME Init PROVE TrackerInv
  OBVIOUS
<1>1. TypeOK
  BY ScheduleAssumption DEF Init, TypeOK, Outcomes, Ages, Unused
<1>2. Active = {} /\ Elements(waitQueue) = {} /\ Elements(batch) = {}
  BY DEF Init, Active, Elements
<1>3. SlotsAccounted
  BY <1>2, FS_EmptySet, ScheduleAssumption DEF Init, SlotsAccounted
<1>4. NoJobLost
  BY <1>2 DEF Init, NoJobLost, Distinct, Elements
<1>5. WorkConserving /\ UniqueIds /\ BatchIsOffered
  BY <1>2 DEF Init, WorkConserving, UniqueIds, BatchIsOffered, Distinct
<1> QED
  BY <1>1, <1>3, <1>4, <1>5 DEF TrackerInv

(* Jobs are offered while the tracker stands still. *)
LEMMA OfferKeepsInv ==
  ASSUME TrackerInv, UNCHANGED tracker, due' \in Ages, check' \in [Check -> Ages \cup {Unused}],
         NEW js \in Seq(Job), Distinct(js), Elements(js) \subseteq Fresh, Offer(js)
  PROVE  TrackerInv'
<1>0. UNCHANGED <<jobs, waitQueue, semaphore, immediates, running>>
  BY DEF tracker
<1>1. TypeOK'
  BY <1>0 DEF TrackerInv, TypeOK, Offer, Outcomes
<1>2. Active' = Active /\ Elements(waitQueue)' = Elements(waitQueue)
  BY <1>0 DEF Active, Elements
<1>3. SlotsAccounted' /\ WorkConserving' /\ UniqueIds'
  BY <1>0, <1>2 DEF TrackerInv, SlotsAccounted, WorkConserving, UniqueIds
<1>4. {j \in Job : outcome'[j] = "accepted"} = {j \in Job : outcome[j] = "accepted"}
  BY DEF Offer, Fresh, TrackerInv, TypeOK
<1>5. NoJobLost'
  BY <1>0, <1>2, <1>4 DEF TrackerInv, NoJobLost, Distinct, Elements
<1>6. BatchIsOffered'
  BY ElementsAreIn DEF Offer, BatchIsOffered, Distinct, Elements
<1> QED
  BY <1>1, <1>3, <1>5, <1>6 DEF TrackerInv

(* The schedule alone moves. *)
LEMMA ScheduleKeepsInv ==
  ASSUME TrackerInv, UNCHANGED <<tracker, batch, outcome>>,
         due' \in Ages, check' \in [Check -> Ages \cup {Unused}]
  PROVE  TrackerInv'
<1> USE DEF TrackerInv, tracker
<1>1. TypeOK' /\ WorkConserving' /\ UniqueIds' /\ Active' = Active
  BY DEF TypeOK, WorkConserving, UniqueIds, Active, Elements
<1>2. SlotsAccounted'
  BY <1>1 DEF SlotsAccounted
<1>3. Elements(waitQueue)' = Elements(waitQueue) /\ Elements(immediates)' = Elements(immediates)
  BY DEF Elements
<1>4. NoJobLost'
  BY <1>1, <1>3 DEF NoJobLost, Distinct
<1>5. BatchIsOffered'
  BY DEF BatchIsOffered, Distinct, Elements
<1> QED
  BY <1>1, <1>2, <1>4, <1>5

(* What ticks and promises do to the schedule. *)
LEMMA SchedulesAreTyped ==
  ASSUME TypeOK
  PROVE  /\ Interval \in Ages /\ 0 \in Ages
         /\ Aged \in [Check -> Ages \cup {Unused}]
         /\ \A c \in Check : [Aged EXCEPT ![c] = 0] \in [Check -> Ages \cup {Unused}]
         /\ \A c \in Check : [check EXCEPT ![c] = Unused] \in [Check -> Ages \cup {Unused}]
         /\ \A c \in Check : check[c] # Unused => Less(Interval, check[c]) \in Ages
         /\ due > 1 => due - 1 \in Ages
<1> USE ScheduleAssumption DEF TypeOK, Ages, Unused
<1>1. Aged \in [Check -> Ages \cup {Unused}]
  BY DEF Aged, Capped
<1>2. ASSUME NEW c \in Check, check[c] # Unused PROVE Less(Interval, check[c]) \in Ages
  BY <1>2 DEF Less
<1> QED
  BY <1>1, <1>2

(* A tick, or the end of a check. *)
LEMMA TickKeepsInv == ASSUME TrackerInv, Tick PROVE TrackerInv'
<1>0. TypeOK
  BY DEF TrackerInv
<1>1. CASE TickNotDue
  BY <1>0, <1>1, SchedulesAreTyped, ScheduleKeepsInv DEF TickNotDue
<1>2. CASE TickThrows
  BY <1>0, <1>2, SchedulesAreTyped, ScheduleKeepsInv DEF TickThrows
<1>3. ASSUME NEW js \in Returned, TickSync(js) PROVE TrackerInv'
  BY <1>0, <1>3, SchedulesAreTyped, ReturnedIsFresh, OfferKeepsInv DEF TickSync
<1>4. ASSUME NEW c \in Check, TickAsync(c) PROVE TrackerInv'
  BY <1>0, <1>4, SchedulesAreTyped, ScheduleKeepsInv DEF TickAsync
<1> QED
  BY <1>1, <1>2, <1>3, <1>4 DEF Tick

LEMMA SettledKeepsInv == ASSUME TrackerInv, NEW c \in Check, Settled(c) PROVE TrackerInv'
<1>0. TypeOK
  BY DEF TrackerInv
<1>1. CASE Reject(c)
  BY <1>0, <1>1, SchedulesAreTyped, ScheduleKeepsInv DEF Reject, TypeOK
<1>2. ASSUME NEW js \in Returned, Fulfil(c, js) PROVE TrackerInv'
  BY <1>0, <1>2, SchedulesAreTyped, ReturnedIsFresh, OfferKeepsInv DEF Fulfil
<1> QED
  BY <1>1, <1>2 DEF Settled

LEMMA EmitKeepsInv == ASSUME TrackerInv, NEW j \in Job, Emit(j) PROVE TrackerInv'
<1>1. <<j>> \in Seq(Job) /\ Distinct(<<j>>) /\ Elements(<<j>>) = {j}
  BY DEF Distinct, Elements
<1> QED
  BY <1>1, OfferKeepsInv DEF Emit, schedule, TrackerInv, TypeOK

(* What the rest of the batch is. *)
LEMMA BatchShrinks ==
  ASSUME TrackerInv, batch # <<>>, batch' = Tail(batch),
         NEW o \in {"skipped", "accepted"}, outcome' = [outcome EXCEPT ![Head(batch)] = o]
  PROVE  /\ Head(batch) \in Job /\ outcome[Head(batch)] = "offered"
         /\ batch' \in Seq(Job) /\ outcome' \in [Job -> Outcomes]
         /\ BatchIsOffered'
<1>1. batch \in Seq(Job) /\ Distinct(batch) /\ outcome \in [Job -> Outcomes]
  BY DEF TrackerInv, TypeOK, BatchIsOffered
<1>2. /\ batch' \in Seq(Job) /\ Head(batch) \in Elements(batch) /\ Distinct(batch')
      /\ Elements(batch)' = Elements(batch) \ {Head(batch)}
  BY <1>1, TailElements DEF Elements
<1>3. Head(batch) \in Job /\ outcome[Head(batch)] = "offered"
  BY <1>1, <1>2, ElementsAreIn DEF TrackerInv, BatchIsOffered
<1>4. outcome' \in [Job -> Outcomes]
  BY <1>1 DEF Outcomes
<1>5. BatchIsOffered'
  <2>1. \A j \in Elements(batch)' : j \in Job /\ j # Head(batch) /\ outcome[j] = "offered"
    BY <1>1, <1>2, ElementsAreIn DEF TrackerInv, BatchIsOffered
  <2> QED
    BY <1>1, <1>2, <2>1 DEF BatchIsOffered, Distinct
<1> QED
  BY <1>2, <1>3, <1>4, <1>5

(* A job gets a slot, or has to wait. *)
LEMMA QueueJobKeepsInv ==
  ASSUME TrackerInv, QueueJob
  PROVE  TrackerInv'
<1> DEFINE j == Head(batch)
<1>0. /\ TypeOK /\ SlotsAccounted /\ WorkConserving /\ UniqueIds /\ NoJobLost
      /\ batch # <<>> /\ batch' = Tail(batch) /\ UNCHANGED <<due, check>>
  BY DEF TrackerInv, QueueJob, schedule
<1>1. CASE Known(j) /\ outcome' = [outcome EXCEPT ![j] = "skipped"] /\ UNCHANGED tracker
  <2>0. UNCHANGED <<jobs, waitQueue, semaphore, immediates, running>>
    BY <1>1 DEF tracker
  <2>1. /\ j \in Job /\ outcome[j] = "offered" /\ batch' \in Seq(Job)
        /\ outcome' \in [Job -> Outcomes] /\ BatchIsOffered'
    BY <1>0, <1>1, BatchShrinks
  <2>2. TypeOK'
    BY <1>0, <2>0, <2>1 DEF TypeOK
  <2>3. {k \in Job : outcome'[k] = "accepted"} = {k \in Job : outcome[k] = "accepted"}
    BY <1>0, <1>1, <2>1 DEF TypeOK
  <2>4. NoJobLost'
    BY <1>0, <2>0, <2>3 DEF NoJobLost, Distinct, Elements, Active
  <2>5. SlotsAccounted' /\ WorkConserving' /\ UniqueIds'
    BY <1>0, <2>0 DEF SlotsAccounted, WorkConserving, UniqueIds, Active, Elements
  <2> QED
    BY <2>1, <2>2, <2>4, <2>5 DEF TrackerInv
<1>2. CASE /\ ~Known(j) /\ outcome' = [outcome EXCEPT ![j] = "accepted"]
           /\ jobs' = jobs \cup {j} /\ UNCHANGED running
           /\ \/ SlotFree /\ ContinueWith(j, semaphore) /\ UNCHANGED waitQueue
              \/ ~SlotFree /\ Wait(j)
  <2>1. /\ j \in Job /\ outcome[j] = "offered" /\ batch' \in Seq(Job)
        /\ outcome' \in [Job -> Outcomes] /\ BatchIsOffered'
    BY <1>0, <1>2, BatchShrinks
  <2>2. {k \in Job : outcome'[k] = "accepted"} = jobs' /\ j \notin jobs
    BY <1>0, <1>2, <2>1 DEF TypeOK, NoJobLost
  <2>3. UniqueIds'
    BY <1>0, <1>2 DEF UniqueIds, Known
  <2>4. CASE SlotFree /\ ContinueWith(j, semaphore) /\ UNCHANGED waitQueue
    <3>1. /\ immediates' \in Seq(Job) /\ Distinct(immediates')
          /\ Elements(immediates)' = Elements(immediates) \cup {j}
      <4>1. immediates \in Seq(Job) /\ Distinct(immediates) /\ j \notin Elements(immediates)
        BY <1>0, <2>2 DEF TypeOK, NoJobLost, Active
      <4> QED
        BY <2>1, <2>4, <4>1, AppendElements DEF ContinueWith
    <3>2. Active' = Active \cup {j} /\ j \notin Active
      BY <1>0, <1>2, <2>2, <3>1 DEF Active, NoJobLost
    <3>3. SlotsAccounted' /\ semaphore' \in Nat
      <4>1. Cardinality(Active') = Cardinality(Active) + 1 /\ Cardinality(Active) \in Nat
        BY <1>0, <2>1, <3>2, ActiveAreJobs, JobsAreFinite
      <4>2. semaphore \in Nat \ {0} /\ semaphore' = semaphore - 1
        BY <1>0, <2>4 DEF TypeOK, SlotFree, ContinueWith
      <4> QED
        BY <1>0, <4>1, <4>2 DEF SlotsAccounted
    <3>4. waitQueue = <<>> /\ waitQueue' = <<>> /\ Elements(waitQueue)' = Elements(waitQueue)
      BY <1>0, <2>4 DEF WorkConserving, SlotFree
    <3>5. TypeOK' /\ WorkConserving'
      BY <1>0, <1>2, <2>1, <2>4, <3>1, <3>3, <3>4 DEF TypeOK, WorkConserving
    <3>6. NoJobLost'
      BY <1>0, <1>2, <2>2, <3>1, <3>2, <3>4 DEF NoJobLost, Active, Distinct
    <3> QED
      BY <2>1, <2>3, <3>3, <3>5, <3>6 DEF TrackerInv
  <2>5. CASE ~SlotFree /\ Wait(j)
    <3>1. /\ waitQueue' \in Seq(Job) /\ Distinct(waitQueue')
          /\ Elements(waitQueue)' = Elements(waitQueue) \cup {j}
      <4>1. waitQueue \in Seq(Job) /\ Distinct(waitQueue) /\ j \notin Elements(waitQueue)
        BY <1>0, <2>2 DEF TypeOK, NoJobLost
      <4> QED
        BY <2>1, <2>5, <4>1, AppendElements DEF Wait
    <3>2. Active' = Active /\ UNCHANGED <<immediates, semaphore, running>> /\ semaphore = 0
      BY <1>2, <2>5 DEF Active, Wait, Elements, SlotFree
    <3>3. SlotsAccounted' /\ WorkConserving'
      BY <1>0, <3>2 DEF SlotsAccounted, WorkConserving
    <3>4. TypeOK'
      BY <1>0, <1>2, <2>1, <3>1, <3>2 DEF TypeOK
    <3>5. NoJobLost'
      BY <1>0, <1>2, <2>2, <3>1, <3>2 DEF NoJobLost, Active
    <3> QED
      BY <2>1, <2>3, <3>3, <3>4, <3>5 DEF TrackerInv
  <2> QED
    BY <1>2, <2>4, <2>5
<1> QED
  BY <1>1, <1>2 DEF QueueJob

(* A job that has its slot runs. *)
LEMMA RunJobKeepsInv ==
  ASSUME TrackerInv, RunJob
  PROVE  TrackerInv' /\ Active' = Active
<1>0. /\ TypeOK /\ SlotsAccounted /\ WorkConserving /\ UniqueIds /\ NoJobLost
      /\ BatchIsOffered /\ immediates # <<>> /\ immediates' = Tail(immediates)
      /\ running' = running \cup {Head(immediates)}
      /\ UNCHANGED <<jobs, waitQueue, semaphore, batch, outcome, due, check>>
  BY DEF TrackerInv, RunJob, schedule
<1>1. /\ immediates' \in Seq(Job) /\ Distinct(immediates')
      /\ Head(immediates) \in Elements(immediates)
      /\ Elements(immediates)' = Elements(immediates) \ {Head(immediates)}
  BY <1>0, TailElements DEF TypeOK, NoJobLost, Elements
<1>2. Active' = Active
  BY <1>0, <1>1 DEF Active
<1>3. TypeOK'
  BY <1>0, <1>1, ElementsAreIn DEF TypeOK
<1>4. NoJobLost'
  BY <1>0, <1>1, <1>2 DEF NoJobLost, Elements, Distinct
<1>5. SlotsAccounted' /\ WorkConserving' /\ UniqueIds' /\ BatchIsOffered'
  BY <1>0, <1>2
  DEF SlotsAccounted, WorkConserving, UniqueIds, BatchIsOffered, Distinct, Elements
<1> QED
  BY <1>2, <1>3, <1>4, <1>5 DEF TrackerInv

(* What the end of a job does to the slots and those who wait for one. *)
LEMMA SettleMovesSlot ==
  ASSUME TrackerInv, NEW j \in Job, Settle(j)
  PROVE  /\ j \in Active /\ jobs' = jobs \ {j}
         /\ immediates' \in Seq(Job) /\ waitQueue' \in Seq(Job)
         /\ Distinct(immediates') /\ Distinct(waitQueue')
         /\ Elements(immediates)' \cap running' = {}
         /\ \/ /\ waitQueue = <<>> /\ waitQueue' = <<>> /\ semaphore' = semaphore + 1
               /\ Active' = Active \ {j}
            \/ /\ waitQueue # <<>> /\ waitQueue' = Tail(waitQueue) /\ semaphore' = semaphore
               /\ Head(waitQueue) \in Elements(waitQueue)
               /\ Elements(waitQueue)' = Elements(waitQueue) \ {Head(waitQueue)}
               /\ Active' = (Active \ {j}) \cup {Head(waitQueue)}
<1>0. /\ TypeOK /\ NoJobLost /\ UniqueIds /\ j \in running /\ running' = running \ {j}
      /\ j \in Active /\ j \in jobs /\ semaphore \in Nat
      /\ immediates \in Seq(Job) /\ waitQueue \in Seq(Job)
      /\ Distinct(immediates) /\ Distinct(waitQueue) /\ j \notin Elements(immediates)
  BY DEF TrackerInv, Settle, Active, NoJobLost, TypeOK
<1>1. jobs' = jobs \ {j}
  BY <1>0 DEF Settle, UniqueIds
<1>2. CASE waitQueue = <<>> /\ semaphore' = semaphore + 1 /\ UNCHANGED <<waitQueue, immediates>>
  <2>1. Elements(immediates)' = Elements(immediates)
    BY <1>2 DEF Elements
  <2>2. Active' = Active \ {j}
    BY <1>0, <2>1 DEF Active
  <2>3. Elements(immediates)' \cap running' = {}
    BY <1>0, <2>1 DEF NoJobLost
  <2> QED
    BY <1>0, <1>1, <1>2, <2>2, <2>3 DEF Distinct
<1>3. CASE /\ waitQueue # <<>> /\ waitQueue' = Tail(waitQueue)
           /\ ContinueWith(Head(waitQueue), semaphore + 1)
  <2>1. /\ waitQueue' \in Seq(Job) /\ Distinct(waitQueue')
        /\ Head(waitQueue) \in Elements(waitQueue)
        /\ Elements(waitQueue)' = Elements(waitQueue) \ {Head(waitQueue)}
    BY <1>0, <1>3, TailElements DEF Elements
  <2>2. Head(waitQueue) \in Job /\ Head(waitQueue) \notin Active
    BY <1>0, <2>1, ElementsAreIn DEF NoJobLost
  <2>3. /\ immediates' \in Seq(Job) /\ Distinct(immediates')
        /\ Elements(immediates)' = Elements(immediates) \cup {Head(waitQueue)}
    <3>1. Head(waitQueue) \notin Elements(immediates)
      BY <2>2 DEF Active
    <3> QED
      BY <1>0, <1>3, <2>2, <3>1, AppendElements DEF ContinueWith
  <2>4. Active' = (Active \ {j}) \cup {Head(waitQueue)}
    BY <1>0, <2>3 DEF Active
  <2>5. Elements(immediates)' \cap running' = {}
    BY <1>0, <2>2, <2>3 DEF NoJobLost, Active
  <2>6. semaphore' = semaphore
    BY <1>0, <1>3 DEF ContinueWith
  <2> QED
    BY <1>0, <1>1, <1>3, <2>1, <2>3, <2>4, <2>5, <2>6
<1> QED
  BY <1>2, <1>3 DEF Settle, Release

LEMMA SettleKeepsInv ==
  ASSUME TrackerInv, NEW j \in Job, Settle(j)
  PROVE  TrackerInv'
<1>0. /\ TypeOK /\ SlotsAccounted /\ WorkConserving /\ UniqueIds /\ NoJobLost
      /\ BatchIsOffered /\ running' = running \ {j}
      /\ outcome' = [outcome EXCEPT ![j] = "settled"]
      /\ batch = <<>> /\ batch' = <<>> /\ UNCHANGED <<due, check>>
  BY DEF TrackerInv, Settle, schedule, Idle
<1>1. {k \in Job : outcome'[k] = "accepted"} = jobs'
  BY <1>0, SettleMovesSlot DEF TypeOK, NoJobLost
<1>2. UniqueIds' /\ BatchIsOffered'
  BY <1>0, SettleMovesSlot DEF UniqueIds, BatchIsOffered, Distinct, Elements
<1>3. semaphore' \in Nat
  BY <1>0, SettleMovesSlot DEF TypeOK
<1>4. TypeOK'
  BY <1>0, <1>3, SettleMovesSlot DEF TypeOK, Outcomes
<1>5. Active \in SUBSET Job
  BY <1>0, ActiveAreJobs
<1>6. CASE waitQueue = <<>> /\ waitQueue' = <<>> /\ semaphore' = semaphore + 1 /\ Active' = Active \ {j}
  <2>1. SlotsAccounted'
    <3>1. Cardinality(Active') = Cardinality(Active) - 1 /\ Cardinality(Active) \in Nat
      BY <1>5, <1>6, SettleMovesSlot, JobsAreFinite
    <3> QED
      BY <1>0, <1>6, <3>1 DEF SlotsAccounted, TypeOK
  <2>2. Elements(waitQueue) = {} /\ Elements(waitQueue)' = {}
    BY <1>6 DEF Elements
  <2>3. NoJobLost'
    BY <1>0, <1>1, <1>6, <2>2, SettleMovesSlot DEF NoJobLost
  <2> QED
    BY <1>2, <1>4, <1>6, <2>1, <2>3 DEF TrackerInv, WorkConserving
<1>7. CASE /\ waitQueue # <<>> /\ semaphore' = semaphore
           /\ Head(waitQueue) \in Elements(waitQueue)
           /\ Elements(waitQueue)' = Elements(waitQueue) \ {Head(waitQueue)}
           /\ Active' = (Active \ {j}) \cup {Head(waitQueue)}
  <2>1. Head(waitQueue) \in Job /\ Head(waitQueue) \notin Active
    BY <1>0, <1>7, ElementsAreIn DEF NoJobLost, TypeOK
  <2>2. Active \ {j} \in SUBSET Job /\ Head(waitQueue) \notin Active \ {j}
    BY <1>5, <2>1
  <2>3. Cardinality(Active \ {j}) = Cardinality(Active) - 1 /\ Cardinality(Active) \in Nat
    BY <1>5, SettleMovesSlot, JobsAreFinite
  <2>4. Cardinality(Active') = Cardinality(Active \ {j}) + 1
    BY <1>7, <2>1, <2>2, JobsAreFinite
  <2>5. SlotsAccounted'
    BY <1>0, <1>7, <2>3, <2>4 DEF SlotsAccounted
  <2>6. NoJobLost'
    BY <1>0, <1>1, <1>7, <2>1, SettleMovesSlot DEF NoJobLost
  <2>7. WorkConserving'
    BY <1>0, <1>7 DEF WorkConserving
  <2> QED
    BY <1>2, <1>4, <2>5, <2>6, <2>7 DEF TrackerInv
<1> QED
  BY <1>6, <1>7, SettleMovesSlot

(* Every step keeps the invariant. *)
LEMMA NextTrackerInv == TrackerInv /\ [Next]_vars => TrackerInv'
<1> SUFFICES ASSUME TrackerInv, [Next]_vars PROVE TrackerInv'
  OBVIOUS
<1>1. CASE UNCHANGED vars
  <2>1. UNCHANGED <<tracker, batch, outcome>> /\ due' = due /\ check' = check
    BY <1>1 DEF vars, tracker
  <2> QED
    BY <2>1, ScheduleKeepsInv DEF TrackerInv, TypeOK
<1> QED
  BY <1>1, EmitKeepsInv, SettleKeepsInv, TickKeepsInv, SettledKeepsInv, QueueJobKeepsInv,
     RunJobKeepsInv DEF Next

-----------------------------------------------------------------------------
(* The semaphore, the wait queue, the map of jobs and what runs agree after *)
(* every step of JobSourceTracker, for any concurrency, overlapping checks  *)
(* and duplicates.                                                         *)
THEOREM TrackerInvHolds == Spec => []TrackerInv
BY InitTrackerInv, NextTrackerInv, PTL DEF Spec

(* The queue counts as the tracker does. *)
LEMMA QueueCounts == ASSUME NEW S PROVE Queue!Cardinality(S) = Cardinality(S)
BY DEF Queue!Cardinality, Cardinality

(* The known jobs of the queue are those of the tracker, and a slot of it   *)
(* is free if and only if the semaphore is not zero.                       *)
LEMMA QueueAgrees ==
  ASSUME TrackerInv
  PROVE  Queue!Known = jobs /\ (Cardinality(Active) < MaxJobConcurrency <=> SlotFree)
<1>1. Queue!Known = jobs
  BY DEF Queue!Known, TrackerInv, NoJobLost, Elements
<1>2. Cardinality(Active) \in Nat /\ semaphore \in Nat
  <2>1. Active \in SUBSET Job
    BY ActiveAreJobs DEF TrackerInv
  <2>2. IsFiniteSet(Active)
    BY <2>1, IdAssumption, FS_Subset
  <2> QED
    BY <2>2, FS_CardinalityType DEF TrackerInv, TypeOK
<1>3. Cardinality(Active) < MaxJobConcurrency <=> SlotFree
  BY <1>2, ScheduleAssumption DEF TrackerInv, SlotsAccounted, SlotFree
<1> QED
  BY <1>1, <1>3

(* Each step of the tracker accepts a job, completes one, or is none of the *)
(* queue.                                                                   *)
LEMMA StepIsOfQueue ==
  ASSUME TrackerInv, [Next]_vars
  PROVE  [Queue!Next]_<<Active, waitQueue>>
<1>1. CASE UNCHANGED tracker
  BY <1>1 DEF tracker, Active, Elements
<1>2. CASE RunJob
  BY <1>2, RunJobKeepsInv DEF RunJob
<1>3. CASE QueueJob /\ ~UNCHANGED tracker
  <2> DEFINE j == Head(batch)
  <2>1. /\ ~Known(j) /\ running' = running
        /\ \/ SlotFree /\ ContinueWith(j, semaphore) /\ UNCHANGED waitQueue
           \/ ~SlotFree /\ Wait(j)
    BY <1>3 DEF QueueJob
  <2>2. j \in Job
    BY <1>3, BatchShrinks DEF QueueJob
  <2>3. \A k \in Queue!Known : IdOf[k] # IdOf[j]
    BY <2>1, QueueAgrees DEF Known
  <2>4. CASE SlotFree /\ ContinueWith(j, semaphore) /\ UNCHANGED waitQueue
    <3>1. Elements(immediates)' = Elements(immediates) \cup {j}
      BY <2>2, <2>4, AppendElements DEF TrackerInv, TypeOK, ContinueWith
    <3>2. Active' = Active \cup {j}
      BY <2>1, <3>1 DEF Active
    <3> QED
      <4>1. Queue!Accept(j)
        BY <2>3, <2>4, <3>2, QueueAgrees, QueueCounts DEF Queue!Accept
      <4> QED
        BY <2>2, <4>1 DEF Queue!Next
  <2>5. CASE ~SlotFree /\ Wait(j)
    <3>1. Active' = Active /\ waitQueue' = Append(waitQueue, j)
      BY <2>1, <2>5 DEF Active, Elements, Wait
    <3> QED
      <4>1. Queue!Accept(j)
        BY <2>3, <2>5, <3>1, QueueAgrees, QueueCounts DEF Queue!Accept
      <4> QED
        BY <2>2, <4>1 DEF Queue!Next
  <2> QED
    BY <2>1, <2>4, <2>5
<1>4. ASSUME NEW j \in Job, Settle(j) PROVE [Queue!Next]_<<Active, waitQueue>>
  BY <1>4, SettleMovesSlot DEF Queue!Next, Queue!Complete
<1>5. ASSUME NEW j \in Job, Emit(j) PROVE UNCHANGED tracker
  BY <1>5 DEF Emit
<1>6. ASSUME Tick \/ \E c \in Check : Settled(c) PROVE UNCHANGED tracker
  BY <1>6 DEF Tick, TickNotDue, TickThrows, TickSync, TickAsync, Settled, Reject, Fulfil
<1>7. UNCHANGED vars => UNCHANGED tracker
  BY DEF vars, tracker
<1> QED
  BY <1>1, <1>2, <1>3, <1>4, <1>5, <1>6, <1>7 DEF Next

(* Jobs run in the order in which they were accepted, never more than the  *)
(* source allows, and never two of one id: the tracker implements JobQueue. *)
THEOREM TrackerImplementsJobQueue == Spec => ImplementsJobQueue
<1>1. Init => Queue!Init
  BY DEF Init, Queue!Init, Active, Elements
<1> QED
  BY <1>1, StepIsOfQueue, TrackerInvHolds, PTL
  DEF Spec, ImplementsJobQueue, Queue!Spec, Queue!vars
=============================================================================
