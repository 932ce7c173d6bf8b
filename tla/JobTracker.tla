----------------------------- MODULE JobTracker -----------------------------
(***************************************************************************)
(* The scheduler of the main process (DefaultJobSchedulingService.mts) for *)
(* one job source: the tick that asks the source for jobs, the jobs the    *)
(* source emits itself, and JobSourceTracker, which runs them with limited *)
(* concurrency.  Everything happens on one JavaScript thread: a step is    *)
(* what runs between two returns to the event loop, except that the loop   *)
(* of queueJobs is one step per job, during which nothing else runs.       *)
(***************************************************************************)
EXTENDS Queues, FiniteSets

CONSTANTS
  Job,                \* the job objects
  Id,                 \* their ids
  IdOf,               \* the id of each job
  MaxJobConcurrency,  \* of the source
  Interval,           \* scheduleCheckInterval, in ticks
  Check,              \* bound: asynchronous checks that can overlap
  MaxReturned         \* bound: jobs one check returns

ASSUME IdAssumption ==
  /\ IdOf \in [Job -> Id]
  /\ IsFiniteSet(Job)
ASSUME ScheduleAssumption ==
  /\ MaxJobConcurrency \in Nat \ {0}
  /\ Interval \in Nat \ {0}
  /\ MaxReturned \in Nat

VARIABLES
  jobs,       \* #jobs: the jobs known by id
  waitQueue,  \* #waitQueue
  semaphore,  \* #semaphore
  immediates, \* runJob callbacks handed to setImmediate
  running,    \* jobs whose run has been called and is not settled
  batch,      \* the jobs the loop of queueJobs has yet to look at
  outcome,    \* what has become of each job object
  due,        \* ticks until nextRun
  check       \* age in ticks of each unsettled promise of checkSchedule

tracker  == <<jobs, waitQueue, semaphore, immediates, running>>
schedule == <<due, check>>
vars     == <<jobs, waitQueue, semaphore, immediates, running, batch, outcome,
              due, check>>

Unused   == Interval + 1
Outcomes == {"new", "offered", "skipped", "accepted", "settled"}
Ages     == 0 .. Interval

Less(a, b)  == IF a > b THEN a - b ELSE 0
Capped(n)   == IF n > Interval THEN Interval ELSE n

Init ==
  /\ jobs = {} /\ waitQueue = <<>>
  /\ semaphore = MaxJobConcurrency
  /\ immediates = <<>> /\ running = {}
  /\ batch = <<>>
  /\ outcome = [j \in Job |-> "new"]
  /\ due = 0                            \* runOnStart
  /\ check = [c \in Check |-> Unused]

(* The event loop is free. *)
Idle == batch = <<>>

Fresh == {j \in Job : outcome[j] = "new"}

(* What a check can return: new job objects, in some order. *)
Returned ==
  UNION {{js \in [1 .. n -> Fresh] :
            \A a, b \in 1 .. n : a # b => js[a] # js[b]} : n \in 0 .. MaxReturned}

(* queueJobs(js) is called. *)
Offer(js) ==
  /\ batch' = js
  /\ outcome' = [j \in Job |-> IF j \in Elements(js) THEN "offered" ELSE outcome[j]]

(* The source emits "created". *)
Emit(j) ==
  /\ Idle
  /\ j \in Fresh
  /\ Offer(<<j>>)
  /\ UNCHANGED <<tracker, schedule>>

(* tick: one tick later, and the source is due: checkSchedule returns an   *)
(* array, returns a promise, or throws.                                    *)
Aged == [c \in Check |-> IF check[c] = Unused THEN Unused ELSE Capped(check[c] + 1)]

TickNotDue ==
  /\ Idle
  /\ due > 1
  /\ due' = due - 1
  /\ check' = Aged
  /\ UNCHANGED <<tracker, batch, outcome>>

TickSync(js) ==
  /\ Idle
  /\ due <= 1
  /\ due' = Interval
  /\ check' = Aged
  /\ Offer(js)
  /\ UNCHANGED tracker

TickAsync(c) ==
  /\ Idle
  /\ due <= 1
  /\ check[c] = Unused
  /\ due' = 0
  /\ check' = [Aged EXCEPT ![c] = 0]
  /\ UNCHANGED <<tracker, batch, outcome>>

TickThrows ==
  /\ Idle
  /\ due <= 1
  /\ due' = 0
  /\ check' = Aged
  /\ UNCHANGED <<tracker, batch, outcome>>

(* The promise of a check is fulfilled: nextRun counts from the tick that  *)
(* started it.                                                             *)
Fulfil(c, js) ==
  /\ Idle
  /\ check[c] # Unused
  /\ due' = Less(Interval, check[c])
  /\ check' = [check EXCEPT ![c] = Unused]
  /\ Offer(js)
  /\ UNCHANGED tracker

(* It is rejected: tick fails, nextRun stays in the past. *)
Reject(c) ==
  /\ Idle
  /\ check[c] # Unused
  /\ check' = [check EXCEPT ![c] = Unused]
  /\ UNCHANGED <<tracker, batch, outcome, due>>

SlotFree == semaphore # 0

Known(j) == \E k \in jobs : IdOf[k] = IdOf[j]

(* Mutant: the slot is not counted. *)
ContinueWithUncounted(j, free) ==
  /\ immediates' = Append(immediates, j)
  /\ semaphore' = free

(* continueWith: setImmediate(runJob, job), then the slot is taken. *)
ContinueWith(j, free) ==
  /\ immediates' = Append(immediates, j)
  /\ semaphore' = free - 1

(* Mutant: the latest job is served first. *)
WaitInFront(j) ==
  /\ waitQueue' = <<j>> \o waitQueue
  /\ UNCHANGED <<immediates, semaphore>>

Wait(j) ==
  /\ waitQueue' = Append(waitQueue, j)
  /\ UNCHANGED <<immediates, semaphore>>

(* One round of the loop in $queueJobs. *)
QueueJob ==
  LET j == Head(batch) IN
  /\ batch # <<>>
  /\ batch' = Tail(batch)
  /\ \/ /\ Known(j)
        /\ outcome' = [outcome EXCEPT ![j] = "skipped"]
        /\ UNCHANGED tracker
     \/ /\ ~Known(j)
        /\ outcome' = [outcome EXCEPT ![j] = "accepted"]
        /\ jobs' = jobs \cup {j}
        /\ \/ SlotFree /\ ContinueWith(j, semaphore) /\ UNCHANGED waitQueue
           \/ ~SlotFree /\ Wait(j)
        /\ UNCHANGED running
  /\ UNCHANGED schedule

(* $runJob begins: run is called. *)
RunJob ==
  /\ Idle
  /\ immediates # <<>>
  /\ running' = running \cup {Head(immediates)}
  /\ immediates' = Tail(immediates)
  /\ UNCHANGED <<jobs, waitQueue, semaphore, batch, outcome, schedule>>

(* Mutant: the slot is given back, and nobody gets it. *)
ReleaseForgetsQueue ==
  /\ semaphore' = semaphore + 1
  /\ UNCHANGED <<waitQueue, immediates>>

(* ++semaphore, and the job that waits longest continues. *)
Release ==
  \/ /\ waitQueue = <<>>
     /\ semaphore' = semaphore + 1
     /\ UNCHANGED <<waitQueue, immediates>>
  \/ /\ waitQueue # <<>>
     /\ ContinueWith(Head(waitQueue), semaphore + 1)
     /\ waitQueue' = Tail(waitQueue)

(* The finally block of $runJob, whether run returned, resolved, threw or  *)
(* rejected.                                                               *)
Settle(j) ==
  /\ Idle
  /\ j \in running
  /\ running' = running \ {j}
  /\ jobs' = {k \in jobs : IdOf[k] # IdOf[j]}
  /\ outcome' = [outcome EXCEPT ![j] = "settled"]
  /\ Release
  /\ UNCHANGED <<batch, schedule>>

Tick ==
  \/ TickNotDue \/ TickThrows
  \/ \E js \in Returned : TickSync(js)
  \/ \E c \in Check : TickAsync(c)

Settled(c) == Reject(c) \/ \E js \in Returned : Fulfil(c, js)

Next ==
  \/ \E j \in Job : Emit(j) \/ Settle(j)
  \/ Tick
  \/ \E c \in Check : Settled(c)
  \/ QueueJob
  \/ RunJob

Spec == Init /\ [][Next]_vars

(* The event loop goes on, jobs settle, the timer fires. *)
Fairness ==
  /\ WF_vars(QueueJob)
  /\ WF_vars(RunJob)
  /\ \A j \in Job : WF_vars(Settle(j))

FairSpec == Spec /\ Fairness
-----------------------------------------------------------------------------
Active == Elements(immediates) \cup running

(* The values the variables take. *)
TypeOK ==
  /\ jobs \in SUBSET Job
  /\ waitQueue \in Seq(Job)
  /\ semaphore \in Nat
  /\ immediates \in Seq(Job)
  /\ running \in SUBSET Job
  /\ batch \in Seq(Job)
  /\ outcome \in [Job -> Outcomes]
  /\ due \in Ages
  /\ check \in [Check -> Ages \cup {Unused}]

(* The semaphore counts the free slots exactly: no path through queueJobs  *)
(* and the finally block of runJob loses or invents one.                   *)
SlotsAccounted == semaphore + Cardinality(Active) = MaxJobConcurrency

(* No job waits while a slot is free. *)
WorkConserving == waitQueue # <<>> => semaphore = 0

(* No two jobs of one id wait or run at the same time, so the "delete by   *)
(* id" of a finished job never forgets another one.                        *)
UniqueIds == \A j, k \in jobs : IdOf[j] = IdOf[k] => j = k

(* An accepted job is in exactly one place until it is settled, and is     *)
(* there once.                                                             *)
NoJobLost ==
  /\ jobs = {j \in Job : outcome[j] = "accepted"}
  /\ jobs = Elements(waitQueue) \cup Active
  /\ Distinct(waitQueue) /\ Distinct(immediates)
  /\ Elements(waitQueue) \cap Active = {}
  /\ Elements(immediates) \cap running = {}

(* What queueJobs has yet to look at has not been looked at before. *)
BatchIsOffered ==
  /\ Distinct(batch)
  /\ \A j \in Elements(batch) : outcome[j] = "offered"

(* The accounts of a source as a whole: the counter, the queue, the known  *)
(* ids and what runs agree after every step.  It is inductive.             *)
TrackerInv ==
  /\ TypeOK
  /\ SlotsAccounted /\ WorkConserving /\ UniqueIds /\ NoJobLost
  /\ BatchIsOffered

(* Every job that is offered is settled or was a duplicate. *)
OfferedIsSettled ==
  \A j \in Job : outcome[j] = "offered" ~> outcome[j] \in {"skipped", "settled"}

Queue == INSTANCE JobQueue
           WITH active <- Active, waiting <- waitQueue, Slots <- MaxJobConcurrency

(* First come, first served, within the limit and by identity. *)
ImplementsJobQueue == Queue!Spec
=============================================================================
