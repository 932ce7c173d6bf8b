-------------------------- MODULE ArtifactsProofs --------------------------
(***************************************************************************)
(* For any versions, platforms, nodes, failures and kills: what artifacts, *)
(* nodes and jobs know of each other agrees, from which it follows that an *)
(* enabled artifact is complete and that no cleanup hits a node in use.    *)
(***************************************************************************)
EXTENDS Artifacts, QueueProofs, FiniteSetTheorems

Job == ImportJob \cup CleanJob

(* What a job is. *)
LEMMA JobFields ==
  ASSUME NEW j \in Job
  PROVE  /\ j.node \in Node /\ j.kind \in {"import", "clean"}
         /\ j.kind = "import" => j \in ImportJob /\ j.key \in Key
         /\ j.kind = "clean" => j \in CleanJob
BY DEF Job, ImportJob, CleanJob

LEMMA SameJob ==
  ASSUME NEW i \in Job, NEW j \in Job, i.kind = j.kind, i.node = j.node,
         i.kind = "import" => i.key = j.key
  PROVE  i = j
BY DEF Job, ImportJob, CleanJob

LEMMA CallsAreJobs ==
  ASSUME NEW c \in Call
  PROVE  /\ JobOf(c) \in Job /\ JobOf(c).node = c.node /\ c.node \in Node /\ c.key \in Key
         /\ c.kind = "import" => JobOf(c).kind = "import" /\ JobOf(c).key = c.key
         /\ c.kind = "delete" => JobOf(c).kind = "clean"
BY DEF Call, JobOf, Job, ImportJob, CleanJob

LEMMA QueuedAreJobs ==
  ASSUME TypeOK
  PROVE  Queued \subseteq Job /\ Unfinished \subseteq Queued /\ Promised \subseteq Job
<1>1. Queued \subseteq Job
  BY DEF TypeOK, Queued, Elements, Job
<1> QED
  BY <1>1, CallsAreJobs DEF Unfinished, Promised, TypeOK

(* A node has one job at most. *)
LEMMA OneJobPerNode ==
  ASSUME ArtifactsInv, NEW i \in Promised \cup Unfinished, NEW j \in Promised \cup Unfinished,
         i.node = j.node, i.node \notin hasty
  PROVE  i = j
<1>1. i \in Job /\ j \in Job /\ i.node \in Node
  BY QueuedAreJobs, JobFields DEF ArtifactsInv
<1>2. i.kind = j.kind
  BY <1>1, JobFields DEF ArtifactsInv, JobsFit
<1>3. i.kind = "import" => i.key = j.key
  <2> SUFFICES ASSUME i.kind = "import" PROVE i.key = j.key
    OBVIOUS
  <2>1. artifact[i.key] = i.node /\ artifact[j.key] = i.node /\ i.key \in Key /\ j.key \in Key
    BY <1>1, <1>2, JobFields DEF ArtifactsInv, JobsFit
  <2> QED
    BY <1>1, <2>1, NodeAssumption DEF ArtifactsInv, ArtifactsKept
<1> QED
  BY <1>1, <1>2, <1>3, SameJob

-----------------------------------------------------------------------------
(* The initial state satisfies the inductive invariant. *)
LEMMA InitArtifactsInv == Init => ArtifactsInv
<1> SUFFICES ASSUME Init PROVE ArtifactsInv
  OBVIOUS
<1>0. active = {} /\ waiting = <<>>
  BY DEF Init, Jobs!Init
<1>1. TypeOK
  BY <1>0, BoundAssumption DEF Init, TypeOK, Places, Names, Statuses, Sessions, Stages
<1>2. Queued = {} /\ Elements(waiting) = {}
  BY <1>0 DEF Queued, Elements
<1>3. SlotInv
  BY <1>0, <1>2 DEF Init, SlotInv, Distinct
<1>4. PromisedOnce /\ JobsFit
  BY <1>2 DEF Init, PromisedOnce, JobsFit, Promised, Unfinished
<1>5. NodesAccounted /\ ArtifactsKept
  BY PlaceAssumption DEF Init, NodesAccounted, ArtifactsKept
<1> QED
  BY <1>1, <1>3, <1>4, <1>5 DEF ArtifactsInv

(* The slot passes to the job that has waited longest. *)
LEMMA CompletePassesSlot ==
  ASSUME TypeOK, SlotInv, NEW j \in active, Complete(j), UNCHANGED <<session, calls>>
  PROVE  /\ active' \in SUBSET Job /\ waiting' \in Seq(Job) /\ stage' = "start"
         /\ SlotInv' /\ Unfinished' \subseteq Unfinished
<1>0. /\ active = {j} /\ waiting \in Seq(Job) /\ Distinct(waiting)
      /\ j \notin Elements(waiting) /\ j \in Job /\ stage' = "start" /\ session = "up"
  BY DEF TypeOK, SlotInv, Complete, Job, Sessions
<1>1. Elements(waiting) \subseteq Unfinished
  BY <1>0 DEF Unfinished, Queued
<1>2. CASE waiting = <<>>
  <2>1. active' = {} /\ waiting' = <<>>
    BY <1>0, <1>2 DEF Complete, Jobs!Complete
  <2>2. Elements(waiting') = {} /\ Unfinished' = {}
    BY <2>1 DEF Elements, Unfinished, Queued
  <2>3. SlotInv'
    BY <1>0, <2>1, <2>2 DEF SlotInv, Distinct
  <2> QED
    BY <1>0, <2>1, <2>2, <2>3
<1>3. CASE waiting # <<>>
  <2>1. active' = {Head(waiting)} /\ waiting' = Tail(waiting)
    BY <1>0, <1>3 DEF Complete, Jobs!Complete
  <2>2. /\ waiting' \in Seq(Job) /\ Head(waiting) \in Elements(waiting) /\ Distinct(waiting')
        /\ Elements(waiting') = Elements(waiting) \ {Head(waiting)}
    BY <1>0, <1>3, <2>1, TailElements
  <2>3. Head(waiting) \in Job
    BY <1>0, <2>2 DEF Elements
  <2>4. SlotInv'
    BY <1>0, <2>1, <2>2 DEF SlotInv
  <2>5. Unfinished' \subseteq Unfinished
    BY <1>1, <2>1, <2>2 DEF Unfinished, Queued
  <2> QED
    BY <1>0, <2>1, <2>2, <2>3, <2>4, <2>5
<1> QED
  BY <1>2, <1>3

(* What leaves artifacts and nodes alone and adds no job keeps the rest. *)
LEMMA FewerJobs ==
  ASSUME ArtifactsInv, TypeOK', SlotInv', UNCHANGED <<artifact, parent, tree, hasty>>,
         calls' \subseteq calls, Unfinished' \subseteq Unfinished,
         \A j \in active' : stage' = "filled" => j \in active /\ stage = "filled"
  PROVE  ArtifactsInv'
<1>1. Promised' \subseteq Promised
  BY DEF Promised, JobOf
<1>2. PromisedOnce'
  BY DEF ArtifactsInv, PromisedOnce, JobOf
<1>3. JobsFit'
  BY <1>1 DEF ArtifactsInv, JobsFit
<1>4. NodesAccounted' /\ ArtifactsKept'
  BY DEF ArtifactsInv, NodesAccounted, ArtifactsKept
<1> QED
  BY <1>2, <1>3, <1>4 DEF ArtifactsInv

(* What leaves the schedule and the calls alone. *)
LEMMA QueueStands ==
  ASSUME ArtifactsInv, TypeOK', UNCHANGED <<active, waiting, stage, session>>,
         calls' \subseteq calls, UNCHANGED <<artifact, parent, tree, hasty>>
  PROVE  ArtifactsInv'
<1>1. Unfinished' = Unfinished
  BY DEF Unfinished, Queued, Elements
<1>2. SlotInv'
  BY DEF ArtifactsInv, SlotInv, Distinct, Elements
<1> QED
  BY <1>1, <1>2, FewerJobs

(* What the renderer is shown is a status. *)
LEMMA DispatchedIsTyped ==
  ASSUME TypeOK, NEW v \in Version, Dispatched(v)
  PROVE  view' \in [Key -> Statuses]
BY DEF TypeOK, Dispatched, Status, Statuses

(* The end of a job, whatever it has done. *)
LEMMA JobEnds ==
  ASSUME ArtifactsInv, NEW j \in active, Complete(j), UNCHANGED <<session, calls, db, hasty>>,
         view' \in [Key -> Statuses], dropped' \in SUBSET Job, rejected' = rejected,
         faults' \in 0 .. MaxFaults, crashes' = crashes
  PROVE  ArtifactsInv'
<1>0. TypeOK /\ SlotInv
  BY DEF ArtifactsInv
<1>1. /\ active' \in SUBSET Job /\ waiting' \in Seq(Job) /\ stage' = "start"
      /\ SlotInv' /\ Unfinished' \subseteq Unfinished
  BY <1>0, CompletePassesSlot
<1>2. TypeOK'
  BY <1>0, <1>1 DEF TypeOK, db, Job, Stages
<1> QED
  BY <1>1, <1>2, FewerJobs DEF db

-----------------------------------------------------------------------------
(* A placeholder is made at a node that nobody has and no job is for. *)
LEMMA CreateKeepsInv ==
  ASSUME ArtifactsInv, NEW k \in Key, NEW n \in Node, CreatePlaceholder(k, n)
  PROVE  ArtifactsInv'
<1> DEFINE c == [kind |-> "import", key |-> k, node |-> n]
<1>0. /\ TypeOK /\ SlotInv /\ PromisedOnce /\ JobsFit /\ NodesAccounted /\ ArtifactsKept
      /\ session = "up" /\ artifact[k] = NoNode /\ parent[n] = "none"
      /\ artifact' = [artifact EXCEPT ![k] = n] /\ parent' = [parent EXCEPT ![n] = "tmp"]
      /\ calls' = calls \cup {c}
      /\ UNCHANGED <<tree, active, waiting, stage, hasty, session>>
  BY DEF ArtifactsInv, CreatePlaceholder, queue, past
<1>1. c \in Call /\ JobOf(c).kind = "import" /\ JobOf(c).key = k /\ JobOf(c).node = n
  BY DEF Call, JobOf
<1>2. TypeOK'
  BY <1>0, <1>1 DEF CreatePlaceholder, TypeOK, Places, Names, queue, past
<1>3. SlotInv'
  BY <1>0 DEF SlotInv, Distinct, Elements
<1>4. Unfinished' = Unfinished /\ Promised' = Promised \cup {JobOf(c)}
  BY <1>0 DEF Unfinished, Queued, Elements, Promised, JobOf
<1>5. /\ \A l \in Key : l # k => artifact'[l] = artifact[l]
      /\ \A m \in Node : m # n => parent'[m] = parent[m]
      /\ artifact'[k] = n /\ parent'[n] = "tmp"
  BY <1>0 DEF TypeOK
<1>6. n \notin hasty => /\ \A j \in Promised \cup Unfinished : j.node # n
                        /\ \A l \in Key : artifact[l] # n
                        /\ tree[n] = {}
  <2> SUFFICES ASSUME n \notin hasty
               PROVE  /\ \A j \in Promised \cup Unfinished : j.node # n
                      /\ \A l \in Key : artifact[l] # n
                      /\ tree[n] = {}
    OBVIOUS
  <2>1. \A j \in Promised \cup Unfinished : j.node # n
    BY <1>0, QueuedAreJobs, JobFields DEF JobsFit
  <2>2. \A l \in Key : artifact[l] # n
    BY <1>0, NodeAssumption, PlaceAssumption DEF ArtifactsKept
  <2> QED
    BY <1>0, <2>1, <2>2 DEF NodesAccounted
<1>7. PromisedOnce'
  <2>1. \A d \in calls : d.node # n \/ n \in hasty
    BY <1>0, <1>6, CallsAreJobs DEF Promised, TypeOK
  <2>2. JobOf(c) \in Unfinished => n \in hasty
    BY <1>1, <1>6
  <2>3. \A d \in calls' : JobOf(d)' = JobOf(d)
    BY DEF JobOf
  <2> QED
    BY <1>0, <1>1, <1>4, <2>1, <2>2, <2>3 DEF PromisedOnce
<1>8. JobsFit'
  <2> SUFFICES ASSUME NEW j \in Promised' \cup Unfinished', j.node \notin hasty
               PROVE  /\ j.kind = "import" =>
                           /\ artifact'[j.key] = j.node /\ parent'[j.node] = "tmp"
                           /\ j \in active /\ stage = "filled" => tree[j.node] = {j.key}
                      /\ j.kind = "clean" => parent'[j.node] = "queue"
    BY <1>0 DEF JobsFit
  <2>1. CASE j = JobOf(c) /\ j \notin Unfinished
    <3>1. ~(j \in active /\ stage = "filled")
      BY <2>1 DEF Unfinished, Queued
    <3> QED
      BY <1>1, <1>5, <2>1, <3>1
  <2>2. CASE j \in Promised \cup Unfinished
    <3>1. j \in Job /\ j.node # n
      BY <1>0, <1>6, <2>2, QueuedAreJobs
    <3>2. j.kind = "import" => artifact[j.key] = j.node /\ j.key # k
      BY <1>0, <2>2, <3>1, JobFields, NodeAssumption DEF JobsFit
    <3> QED
      BY <1>0, <1>5, <2>2, <3>1, <3>2, JobFields DEF JobsFit
  <2> QED
    BY <1>4, <2>1, <2>2
<1>9. NodesAccounted'
  BY <1>0, <1>5, NodeAssumption, PlaceAssumption DEF NodesAccounted, TypeOK
<1>10. ArtifactsKept'
  <2> SUFFICES ASSUME NEW l \in Key, artifact'[l] \notin hasty \cup {NoNode}
               PROVE  /\ parent'[artifact'[l]] \in {"tmp"} \cup Version
                      /\ tree[artifact'[l]] \subseteq {l}
                      /\ parent'[artifact'[l]] \in Version => tree[artifact'[l]] = {l}
                      /\ \A m \in Key : artifact'[m] = artifact'[l] => m = l
    BY <1>0 DEF ArtifactsKept
  <2>1. CASE l = k
    BY <1>0, <1>5, <1>6, <2>1, PlaceAssumption
  <2>2. CASE l # k
    BY <1>0, <1>5, <1>6, <2>2 DEF ArtifactsKept, TypeOK
  <2> QED
    BY <2>1, <2>2
<1> QED
  BY <1>2, <1>3, <1>7, <1>8, <1>9, <1>10 DEF ArtifactsInv

(* An artifact is taken from its node, which goes to the cleanup queue. *)
LEMMA DeleteKeepsInv ==
  ASSUME ArtifactsInv, NEW k \in Key, DeleteArtifact(k)
  PROVE  ArtifactsInv'
<1> DEFINE n == artifact[k]
           c == [kind |-> "delete", key |-> k, node |-> n]
<1>0. /\ TypeOK /\ SlotInv /\ PromisedOnce /\ JobsFit /\ NodesAccounted /\ ArtifactsKept
      /\ session = "up" /\ n \in Node
      /\ UNCHANGED <<label, tree, active, waiting, stage, view, dropped, session, faults, crashes>>
  BY DEF ArtifactsInv, DeleteArtifact, queue, TypeOK
<1>1. CASE /\ rejected' = IF Status(k) = "enabled" THEN rejected \cup {k} ELSE rejected
           /\ UNCHANGED <<artifact, parent, calls, hasty>>
  <2>1. TypeOK'
    BY <1>0, <1>1 DEF TypeOK
  <2> QED
    BY <1>0, <1>1, <2>1, QueueStands
<1>2. CASE /\ artifact' = [artifact EXCEPT ![k] = NoNode]
           /\ parent' = [parent EXCEPT ![n] = "queue"]
           /\ calls' = calls \cup {c}
           /\ hasty' = IF parent[n] = "tmp" THEN hasty \cup {n} ELSE hasty
           /\ UNCHANGED rejected
  <2>1. c \in Call /\ JobOf(c).kind = "clean" /\ JobOf(c).node = n
    BY <1>0 DEF Call, JobOf
  <2>2. TypeOK'
    BY <1>0, <1>2, <2>1 DEF TypeOK, Places
  <2>3. SlotInv'
    BY <1>0 DEF SlotInv, Distinct, Elements
  <2>4. Unfinished' = Unfinished /\ Promised' = Promised \cup {JobOf(c)}
    BY <1>0, <1>2 DEF Unfinished, Queued, Elements, Promised, JobOf
  <2>5. /\ \A l \in Key : l # k => artifact'[l] = artifact[l]
        /\ \A m \in Node : m # n => parent'[m] = parent[m]
        /\ artifact'[k] = NoNode /\ parent'[n] = "queue"
        /\ hasty \subseteq hasty'
    BY <1>0, <1>2 DEF TypeOK
  <2>6. n \notin hasty' => /\ parent[n] \in Version
                           /\ \A j \in Promised \cup Unfinished : j.node # n
                           /\ \A l \in Key : artifact[l] = n => l = k
    <3> SUFFICES ASSUME n \notin hasty'
                 PROVE  /\ parent[n] \in Version
                        /\ \A j \in Promised \cup Unfinished : j.node # n
                        /\ \A l \in Key : artifact[l] = n => l = k
      OBVIOUS
    <3>1. n \notin hasty /\ parent[n] # "tmp"
      BY <1>2
    <3>2. parent[n] \in Version /\ \A l \in Key : artifact[l] = n => l = k
      BY <1>0, <3>1, NodeAssumption DEF ArtifactsKept
    <3>3. \A j \in Promised \cup Unfinished : j.node # n
      BY <1>0, <3>1, <3>2, QueuedAreJobs, JobFields, PlaceAssumption DEF JobsFit
    <3> QED
      BY <3>2, <3>3
  <2>7. PromisedOnce'
    <3>1. \A d \in calls : d.node # n \/ n \in hasty'
      BY <1>0, <2>6, CallsAreJobs DEF Promised, TypeOK
    <3>2. JobOf(c) \in Unfinished => n \in hasty'
      BY <2>1, <2>6
    <3>3. \A d \in calls' : JobOf(d)' = JobOf(d)
      BY DEF JobOf
    <3> QED
      BY <1>0, <1>2, <2>1, <2>4, <2>5, <3>1, <3>2, <3>3 DEF PromisedOnce
  <2>8. JobsFit'
    <3> SUFFICES ASSUME NEW j \in Promised' \cup Unfinished', j.node \notin hasty'
                 PROVE  /\ j.kind = "import" =>
                             /\ artifact'[j.key] = j.node /\ parent'[j.node] = "tmp"
                             /\ j \in active /\ stage = "filled" => tree[j.node] = {j.key}
                        /\ j.kind = "clean" => parent'[j.node] = "queue"
      BY <1>0 DEF JobsFit
    <3>1. CASE j = JobOf(c)
      BY <2>1, <2>5, <3>1
    <3>2. CASE j \in Promised \cup Unfinished
      <4>1. j \in Job /\ j.node # n /\ j.node \notin hasty
        BY <1>0, <2>5, <2>6, <3>2, QueuedAreJobs
      <4>2. j.kind = "import" => artifact[j.key] = j.node /\ j.key # k
        BY <1>0, <3>2, <4>1 DEF JobsFit
      <4> QED
        BY <1>0, <2>5, <3>2, <4>1, <4>2, JobFields DEF JobsFit
    <3> QED
      BY <2>4, <3>1, <3>2
  <2>9. NodesAccounted'
    <3> SUFFICES ASSUME NEW m \in Node, m \notin hasty'
                 PROVE  /\ parent'[m] = "none" => tree[m] = {}
                        /\ parent'[m] \in {"tmp"} \cup Version => \E l \in Key : artifact'[l] = m
      BY <1>0 DEF NodesAccounted
    <3>1. CASE m = n
      BY <2>5, <3>1, PlaceAssumption
    <3>2. CASE m # n
      <4>1. parent'[m] = parent[m] /\ m \notin hasty
        BY <2>5, <3>2
      <4>2. \A l \in Key : artifact[l] = m => artifact'[l] = m
        BY <2>5, <3>2
      <4> QED
        BY <1>0, <4>1, <4>2 DEF NodesAccounted
    <3> QED
      BY <3>1, <3>2
  <2>10. ArtifactsKept'
    <3> SUFFICES ASSUME NEW l \in Key, artifact'[l] \notin hasty' \cup {NoNode}
                 PROVE  /\ parent'[artifact'[l]] \in {"tmp"} \cup Version
                        /\ tree[artifact'[l]] \subseteq {l}
                        /\ parent'[artifact'[l]] \in Version => tree[artifact'[l]] = {l}
                        /\ \A m \in Key : artifact'[m] = artifact'[l] => m = l
      BY <1>0 DEF ArtifactsKept
    <3>1. l # k /\ artifact'[l] = artifact[l] /\ artifact[l] \in Node \ hasty
      BY <1>0, <2>5 DEF TypeOK
    <3>2. artifact[l] # n
      BY <2>6, <3>1, <2>5
    <3>3. parent'[artifact[l]] = parent[artifact[l]]
      BY <2>5, <3>1, <3>2
    <3>4. \A m \in Key : artifact'[m] = artifact'[l] => m = l
      BY <1>0, <2>5, <3>1, NodeAssumption DEF ArtifactsKept
    <3> QED
      BY <1>0, <3>1, <3>3, <3>4, NodeAssumption DEF ArtifactsKept
  <2> QED
    BY <2>2, <2>3, <2>7, <2>8, <2>9, <2>10 DEF ArtifactsInv
<1> QED
  BY <1>1, <1>2 DEF DeleteArtifact

(* The cardinality that JobQueue counts slots with. *)
LEMMA OneSlot ==
  ASSUME TypeOK, SlotInv, NEW j \in Job, ~IdKnown(j), Jobs!Accept(j), session = "up",
         UNCHANGED <<stage, session>>
  PROVE  /\ active' \in SUBSET Job /\ waiting' \in Seq(Job)
         /\ SlotInv' /\ Unfinished' = Unfinished \cup {j}
         /\ \A i \in active' : stage' = "filled" => i \in active
<1>0. /\ active \in SUBSET Job /\ waiting \in Seq(Job) /\ Distinct(waiting)
      /\ j \notin active /\ j \notin Elements(waiting)
  BY DEF TypeOK, SlotInv, Job, IdKnown, Queued
<1>1. CASE active = {}
  <2>1. Jobs!Cardinality(active) = 0
    BY <1>1, FS_EmptySet DEF Jobs!Cardinality, Cardinality
  <2>2. active' = {j} /\ waiting' = waiting /\ waiting = <<>> /\ stage = "start"
    BY <1>1, <2>1 DEF Jobs!Accept, SlotInv
  <2>3. Elements(waiting) = {} /\ Elements(waiting') = {} /\ Distinct(waiting')
    BY <2>2 DEF Elements, Distinct
  <2> QED
    BY <1>0, <1>1, <2>2, <2>3 DEF SlotInv, Unfinished, Queued
<1>2. CASE active # {}
  <2>0. PICK a \in active : TRUE
    BY <1>2
  <2>1. active = {a}
    BY <2>0 DEF SlotInv
  <2>2. Jobs!Cardinality(active) = 1
    BY <2>1, FS_Singleton DEF Jobs!Cardinality, Cardinality
  <2>3. active' = active /\ waiting' = Append(waiting, j)
    BY <2>2 DEF Jobs!Accept
  <2>4. /\ waiting' \in Seq(Job) /\ Distinct(waiting')
        /\ Elements(waiting') = Elements(waiting) \cup {j}
    BY <1>0, <2>3, AppendElements
  <2>5. SlotInv'
    BY <1>0, <1>2, <2>3, <2>4 DEF SlotInv
  <2>6. Unfinished' = Unfinished \cup {j}
    BY <1>0, <2>3, <2>4 DEF Unfinished, Queued
  <2> QED
    BY <1>0, <2>3, <2>4, <2>5, <2>6
<1> QED
  BY <1>1, <1>2

(* A promised job becomes one of the schedule, or is known already. *)
LEMMA FinishCallKeepsInv ==
  ASSUME ArtifactsInv, NEW c \in calls, FinishCall(c)
  PROVE  ArtifactsInv'
<1> DEFINE j == JobOf(c)
<1>0. /\ TypeOK /\ SlotInv /\ PromisedOnce /\ JobsFit /\ c \in Call /\ j \in Job
      /\ j.node = c.node /\ c.key[1] \in Version /\ session = "up"
      /\ calls' = calls \ {c} /\ EmitJob(j)
      /\ UNCHANGED <<artifact, parent, label, tree, stage, hasty, rejected, session, faults, crashes>>
  BY CallsAreJobs DEF ArtifactsInv, FinishCall, db, TypeOK, SlotInv, Key, Sessions
<1>1. view' \in [Key -> Statuses]
  BY <1>0, DispatchedIsTyped DEF FinishCall
<1>2. CASE IdKnown(j)
  <2>1. dropped' = dropped \cup {j} /\ UNCHANGED <<active, waiting>>
    BY <1>0, <1>2 DEF EmitJob
  <2>2. TypeOK'
    BY <1>0, <1>1, <2>1 DEF TypeOK, Job
  <2> QED
    BY <1>0, <2>1, <2>2, QueueStands
<1>3. CASE ~IdKnown(j)
  <2>1. Jobs!Accept(j) /\ dropped' = dropped
    BY <1>0, <1>3 DEF EmitJob
  <2>2. /\ active' \in SUBSET Job /\ waiting' \in Seq(Job)
        /\ SlotInv' /\ Unfinished' = Unfinished \cup {j}
        /\ \A i \in active' : stage' = "filled" => i \in active
    BY <1>0, <1>3, <2>1, OneSlot
  <2>3. TypeOK'
    BY <1>0, <1>1, <2>1, <2>2 DEF TypeOK, Job
  <2>4. PromisedOnce'
    <3>1. \A d \in calls' : JobOf(d)' = JobOf(d) /\ JobOf(d).node = d.node
      BY <1>0, CallsAreJobs DEF JobOf, TypeOK
    <3> QED
      BY <1>0, <2>2, <3>1 DEF PromisedOnce
  <2>5. Promised' \cup Unfinished' \subseteq Promised \cup Unfinished
    BY <1>0, <2>2 DEF Promised, JobOf
  <2>6. JobsFit'
    BY <1>0, <2>2, <2>5 DEF JobsFit
  <2>7. NodesAccounted' /\ ArtifactsKept'
    BY <1>0 DEF ArtifactsInv, NodesAccounted, ArtifactsKept
  <2> QED
    BY <2>2, <2>3, <2>4, <2>6, <2>7 DEF ArtifactsInv
<1> QED
  BY <1>2, <1>3

-----------------------------------------------------------------------------
(* The tree of an import is inserted below its node. *)
LEMMA FillKeepsInv ==
  ASSUME ArtifactsInv, NEW j \in active, FillNode(j)
  PROVE  ArtifactsInv'
<1>0. /\ TypeOK /\ SlotInv /\ PromisedOnce /\ JobsFit /\ NodesAccounted /\ ArtifactsKept
      /\ j \in Job /\ j.kind = "import" /\ j.key \in Key /\ j.node \in Node
      /\ active = {j} /\ stage = "start" /\ stage' = "filled"
      /\ UNCHANGED <<artifact, parent, label, active, waiting, calls, view, hasty,
                     dropped, rejected, session, faults, crashes>>
      /\ IF parent[j.node] = "none" THEN UNCHANGED tree
         ELSE tree' = [tree EXCEPT ![j.node] = @ \cup {j.key}]
  BY JobFields DEF ArtifactsInv, FillNode, past, TypeOK, Job, SlotInv
<1>1. TypeOK'
  BY <1>0 DEF TypeOK, Stages
<1>2. SlotInv'
  BY <1>0 DEF SlotInv, Distinct, Elements
<1>3. Unfinished' = Unfinished /\ Promised' = Promised /\ j \in Unfinished
  BY <1>0 DEF Unfinished, Queued, Elements, Promised, JobOf
<1>4. PromisedOnce'
  BY <1>0, <1>3 DEF PromisedOnce, JobOf
<1>5. \A n \in Node : n # j.node => tree'[n] = tree[n]
  BY <1>0 DEF TypeOK
<1>6. j.node \notin hasty => /\ artifact[j.key] = j.node /\ parent[j.node] = "tmp"
                             /\ tree'[j.node] = {j.key}
  <2> SUFFICES ASSUME j.node \notin hasty
               PROVE  artifact[j.key] = j.node /\ parent[j.node] = "tmp" /\ tree'[j.node] = {j.key}
    OBVIOUS
  <2>1. artifact[j.key] = j.node /\ parent[j.node] = "tmp"
    BY <1>0, <1>3 DEF JobsFit
  <2>2. tree[j.node] \subseteq {j.key}
    BY <1>0, <2>1, NodeAssumption DEF ArtifactsKept
  <2>3. tree'[j.node] = tree[j.node] \cup {j.key}
    BY <1>0, <2>1 DEF TypeOK
  <2> QED
    BY <2>1, <2>2, <2>3
<1>7. JobsFit'
  BY <1>0, <1>3, <1>6 DEF JobsFit
<1>8. NodesAccounted'
  BY <1>0, <1>5, <1>6 DEF NodesAccounted
<1>9. ArtifactsKept'
  <2> SUFFICES ASSUME NEW k \in Key, artifact[k] \notin hasty \cup {NoNode}
               PROVE  /\ tree'[artifact[k]] \subseteq {k}
                      /\ parent[artifact[k]] \in Version => tree'[artifact[k]] = {k}
    BY <1>0 DEF ArtifactsKept
  <2>0. artifact[k] \in Node
    BY <1>0 DEF TypeOK
  <2>1. CASE artifact[k] = j.node
    <3>1. k = j.key
      BY <1>0, <1>6, <2>1, NodeAssumption DEF ArtifactsKept
    <3> QED
      BY <1>6, <2>1, <3>1
  <2>2. CASE artifact[k] # j.node
    BY <1>0, <1>5, <2>0, <2>2 DEF ArtifactsKept
  <2> QED
    BY <2>1, <2>2
<1> QED
  BY <1>1, <1>2, <1>4, <1>7, <1>8, <1>9 DEF ArtifactsInv

(* The active job has done what it is for: no other job is for its node. *)
LEMMA ActiveIsDone ==
  ASSUME ArtifactsInv, NEW j \in active, stage \in {"start", "filled"},
         stage' \in {"replaced", "cleaned"}, UNCHANGED <<active, waiting, calls, hasty>>
  PROVE  /\ j \in Job /\ j \in Unfinished /\ active = {j}
         /\ Promised' = Promised /\ Unfinished' = Unfinished \ {j}
         /\ PromisedOnce'
         /\ \A i \in Promised' \cup Unfinished' :
              i \in Job /\ (i.node \notin hasty => i.node # j.node)
<1>1. j \in Job /\ j \in Unfinished /\ active = {j} /\ j \notin Elements(waiting)
  BY DEF ArtifactsInv, TypeOK, Job, SlotInv, Unfinished, Queued
<1>2. Unfinished = Queued /\ Unfinished' = Unfinished \ {j}
  BY <1>1 DEF Unfinished, Queued, Elements
<1>3. Promised' = Promised /\ PromisedOnce'
  BY <1>2 DEF ArtifactsInv, Promised, JobOf, PromisedOnce
<1>4. ASSUME NEW i \in Promised' \cup Unfinished', i.node \notin hasty
      PROVE  i.node # j.node
  <2>1. i \in Promised \cup Unfinished /\ j \in Promised \cup Unfinished
    BY <1>1, <1>2, <1>3, <1>4
  <2>2. i # j
    <3>1. CASE i \in Unfinished'
      BY <1>2, <3>1
    <3>2. CASE i \in Promised'
      <4>1. PICK c \in calls : i = JobOf(c)
        BY <1>3, <3>2 DEF Promised
      <4>2. c.node = i.node
        BY <4>1, CallsAreJobs DEF ArtifactsInv, TypeOK
      <4> QED
        BY <1>1, <1>4, <4>1, <4>2 DEF ArtifactsInv, PromisedOnce
    <3> QED
      BY <1>4, <3>1, <3>2
  <2> QED
    BY <1>4, <2>1, <2>2, OneJobPerNode
<1>5. Promised' \cup Unfinished' \subseteq Job
  BY <1>2, <1>3, QueuedAreJobs DEF ArtifactsInv
<1> QED
  BY <1>1, <1>2, <1>3, <1>4, <1>5

(* A replaced placeholder is the node of its artifact, in the directory of *)
(* the version.                                                            *)
LEMMA ReplaceKeepsInv ==
  ASSUME ArtifactsInv, NEW j \in active, ReplacePlaceholder(j)
  PROVE  ArtifactsInv'
<1>0. /\ TypeOK /\ SlotInv /\ JobsFit /\ NodesAccounted /\ ArtifactsKept
      /\ j.kind = "import" /\ stage = "filled" /\ stage' = "replaced" /\ MoveToVersion(j)
      /\ UNCHANGED <<artifact, tree, active, waiting, calls, view, hasty,
                     dropped, rejected, session, faults, crashes>>
  BY DEF ArtifactsInv, ReplacePlaceholder, past
<1>1. /\ j \in Job /\ j \in Unfinished /\ active = {j}
      /\ Promised' = Promised /\ Unfinished' = Unfinished \ {j} /\ PromisedOnce'
      /\ \A i \in Promised' \cup Unfinished' :
           i \in Job /\ (i.node \notin hasty => i.node # j.node)
  BY <1>0, ActiveIsDone
<1>2. j.node \in Node /\ j.key \in Key /\ j.key[1] \in Version /\ j.key[2] \in Platform
  BY <1>0, <1>1, JobFields DEF Key
<1>3. TypeOK'
  BY <1>0, <1>2 DEF TypeOK, MoveToVersion, Stages, Places, Names
<1>4. SlotInv'
  BY <1>0, <1>1 DEF SlotInv, Distinct, Elements
<1>5. \A n \in Node : n # j.node => parent'[n] = parent[n]
  BY <1>0 DEF MoveToVersion, TypeOK
<1>6. j.node \notin hasty => /\ artifact[j.key] = j.node /\ tree[j.node] = {j.key}
                             /\ parent'[j.node] = j.key[1]
  <2>1. j.node \notin hasty => /\ artifact[j.key] = j.node /\ tree[j.node] = {j.key}
                               /\ parent[j.node] = "tmp"
    BY <1>0, <1>1 DEF JobsFit
  <2> QED
    BY <1>0, <1>2, <2>1 DEF MoveToVersion, TypeOK
<1>7. JobsFit'
  <2> SUFFICES ASSUME NEW i \in Promised' \cup Unfinished', i.node \notin hasty
               PROVE  /\ i.kind = "import" => artifact[i.key] = i.node /\ parent'[i.node] = "tmp"
                      /\ i.kind = "clean" => parent'[i.node] = "queue"
    BY <1>0 DEF JobsFit
  <2>1. i \in Promised \cup Unfinished /\ i.node \in Node /\ i.node # j.node
    BY <1>1, JobFields
  <2> QED
    BY <1>0, <1>5, <2>1 DEF JobsFit
<1>8. NodesAccounted'
  BY <1>0, <1>2, <1>5, <1>6, PlaceAssumption DEF NodesAccounted
<1>9. ArtifactsKept'
  <2> SUFFICES ASSUME NEW k \in Key, artifact[k] \notin hasty \cup {NoNode}
               PROVE  /\ parent'[artifact[k]] \in {"tmp"} \cup Version
                      /\ parent'[artifact[k]] \in Version => tree[artifact[k]] = {k}
    BY <1>0 DEF ArtifactsKept
  <2>0. artifact[k] \in Node
    BY <1>0 DEF TypeOK
  <2>1. CASE artifact[k] = j.node
    <3>1. k = j.key
      BY <1>0, <1>2, <1>6, <2>1, NodeAssumption DEF ArtifactsKept
    <3> QED
      BY <1>2, <1>6, <2>1, <3>1
  <2>2. CASE artifact[k] # j.node
    BY <1>0, <1>5, <2>0, <2>2 DEF ArtifactsKept
  <2> QED
    BY <2>1, <2>2
<1> QED
  BY <1>1, <1>3, <1>4, <1>7, <1>8, <1>9 DEF ArtifactsInv

(* A cleaned node is free. *)
LEMMA CleanKeepsInv ==
  ASSUME ArtifactsInv, NEW j \in active, DeleteTree(j)
  PROVE  ArtifactsInv'
<1>0. /\ TypeOK /\ SlotInv /\ JobsFit /\ NodesAccounted /\ ArtifactsKept
      /\ j.kind = "clean" /\ stage = "start" /\ stage' = "cleaned"
      /\ parent' = [parent EXCEPT ![j.node] = "none"]
      /\ tree' = [tree EXCEPT ![j.node] = {}]
      /\ UNCHANGED <<artifact, active, waiting, calls, view, hasty,
                     dropped, rejected, session, faults, crashes>>
  BY DEF ArtifactsInv, DeleteTree, past
<1>1. /\ j \in Job /\ j \in Unfinished /\ active = {j}
      /\ Promised' = Promised /\ Unfinished' = Unfinished \ {j} /\ PromisedOnce'
      /\ \A i \in Promised' \cup Unfinished' :
           i \in Job /\ (i.node \notin hasty => i.node # j.node)
  BY <1>0, ActiveIsDone
<1>2. j.node \in Node
  BY <1>1, JobFields
<1>3. TypeOK'
  BY <1>0, <1>2 DEF DeleteTree, TypeOK, Stages, Places, Names
<1>4. SlotInv'
  BY <1>0, <1>1 DEF SlotInv, Distinct, Elements
<1>5. /\ \A n \in Node : n # j.node => parent'[n] = parent[n] /\ tree'[n] = tree[n]
      /\ parent'[j.node] = "none" /\ tree'[j.node] = {}
  BY <1>0, <1>2 DEF TypeOK
<1>6. \A k \in Key : artifact[k] \notin hasty \cup {NoNode} => artifact[k] # j.node
  <2>1. j.node \notin hasty => parent[j.node] = "queue"
    BY <1>0, <1>1 DEF JobsFit
  <2> QED
    BY <1>0, <2>1, PlaceAssumption DEF ArtifactsKept
<1>7. JobsFit'
  <2> SUFFICES ASSUME NEW i \in Promised' \cup Unfinished', i.node \notin hasty
               PROVE  /\ i.kind = "import" => artifact[i.key] = i.node /\ parent'[i.node] = "tmp"
                      /\ i.kind = "clean" => parent'[i.node] = "queue"
    BY <1>0 DEF JobsFit
  <2>1. i \in Promised \cup Unfinished /\ i.node \in Node /\ i.node # j.node
    BY <1>1, JobFields
  <2> QED
    BY <1>0, <1>5, <2>1 DEF JobsFit
<1>8. NodesAccounted'
  BY <1>0, <1>2, <1>5, PlaceAssumption DEF NodesAccounted
<1>9. ArtifactsKept'
  <2> SUFFICES ASSUME NEW k \in Key, artifact[k] \notin hasty \cup {NoNode}
               PROVE  /\ parent'[artifact[k]] \in {"tmp"} \cup Version
                      /\ tree'[artifact[k]] \subseteq {k}
                      /\ parent'[artifact[k]] \in Version => tree'[artifact[k]] = {k}
    BY <1>0 DEF ArtifactsKept
  <2>1. artifact[k] \in Node /\ artifact[k] # j.node
    BY <1>0, <1>6 DEF TypeOK
  <2> QED
    BY <1>0, <1>5, <2>1 DEF ArtifactsKept
<1> QED
  BY <1>1, <1>3, <1>4, <1>7, <1>8, <1>9 DEF ArtifactsInv

(* A step of the active job. *)
LEMMA JobKeepsInv ==
  ASSUME ArtifactsInv, NEW j \in active, JobStep(j)
  PROVE  ArtifactsInv'
<1>0. TypeOK /\ j \in Job
  BY DEF ArtifactsInv, TypeOK, Job
<1>1. CASE FillNode(j)
  BY <1>1, FillKeepsInv
<1>2. CASE FillRefused(j)
  BY <1>0, <1>2, JobEnds DEF FillRefused, TypeOK, Job
<1>3. CASE ReplacePlaceholder(j)
  BY <1>3, ReplaceKeepsInv
<1>4. CASE ReplaceRefused(j)
  BY <1>0, <1>4, JobEnds DEF ReplaceRefused, TypeOK, Job
<1>5. CASE FinishImport(j)
  <2>1. j.key[1] \in Version
    BY <1>0, <1>5, JobFields DEF FinishImport, Key
  <2>2. view' \in [Key -> Statuses]
    BY <1>0, <1>5, <2>1, DispatchedIsTyped DEF FinishImport
  <2> QED
    BY <1>0, <1>5, <2>2, JobEnds DEF FinishImport, past, TypeOK, Job
<1>6. CASE DeleteTree(j)
  BY <1>6, CleanKeepsInv
<1>7. CASE FinishCleanup(j)
  BY <1>0, <1>7, JobEnds DEF FinishCleanup, past, TypeOK, Job
<1>8. CASE FailJob(j)
  <2>1. faults' \in 0 .. MaxFaults
    BY <1>0, <1>8, BoundAssumption DEF FailJob, TypeOK
  <2> QED
    BY <1>0, <1>8, <2>1, JobEnds DEF FailJob, past, TypeOK, Job
<1> QED
  BY <1>1, <1>2, <1>3, <1>4, <1>5, <1>6, <1>7, <1>8 DEF JobStep

-----------------------------------------------------------------------------
(* The broken imports go to the cleanup queue, without their artifacts. *)
LEMMA ReapKeepsInv ==
  ASSUME ArtifactsInv, ReapBrokenImports
  PROVE  ArtifactsInv'
<1>0. /\ TypeOK /\ SlotInv /\ NodesAccounted /\ ArtifactsKept
      /\ calls = {} /\ active = {} /\ waiting = <<>> /\ stage = "start"
      /\ UNCHANGED <<tree, active, waiting, stage, calls, view, hasty, dropped, rejected,
                     faults, crashes>>
  BY DEF ArtifactsInv, ReapBrokenImports, SlotInv, queue, past
<1>1. /\ \A n \in Node : parent'[n] = IF n \in Broken THEN "queue" ELSE parent[n]
      /\ \A k \in Key : artifact'[k] = IF artifact[k] \in Node /\ parent'[artifact[k]] = "queue"
                                       THEN NoNode ELSE artifact[k]
  BY DEF ReapBrokenImports
<1>2. TypeOK'
  <2>1. parent' \in [Node -> Places]
    BY <1>0 DEF ReapBrokenImports, TypeOK, Places
  <2>2. label' \in [Node -> Names] /\ artifact' \in [Key -> Node \cup {NoNode}]
    BY <1>0 DEF ReapBrokenImports, TypeOK, Names
  <2> QED
    BY <1>0, <2>1, <2>2 DEF ReapBrokenImports, TypeOK, Sessions
<1>3. Queued' = {} /\ Elements(waiting') = {}
  BY <1>0 DEF Queued, Elements
<1>4. SlotInv' /\ PromisedOnce' /\ JobsFit'
  BY <1>0, <1>3 DEF SlotInv, Distinct, PromisedOnce, JobsFit, Promised, Unfinished
<1>5. NodesAccounted'
  <2> SUFFICES ASSUME NEW n \in Node, n \notin hasty
               PROVE  /\ parent'[n] = "none" => tree[n] = {}
                      /\ parent'[n] \in {"tmp"} \cup Version => \E k \in Key : artifact'[k] = n
    BY <1>0 DEF NodesAccounted
  <2>1. CASE n \in Broken
    BY <1>1, <2>1, PlaceAssumption
  <2>2. CASE n \notin Broken
    <3>1. parent'[n] = parent[n]
      BY <1>1, <2>2
    <3>2. ASSUME parent[n] \in {"tmp"} \cup Version PROVE \E k \in Key : artifact'[k] = n
      <4>1. PICK k \in Key : artifact[k] = n
        BY <1>0, <3>2 DEF NodesAccounted
      <4> QED
        BY <1>1, <3>1, <3>2, <4>1, PlaceAssumption
    <3> QED
      BY <1>0, <3>1, <3>2 DEF NodesAccounted
  <2> QED
    BY <2>1, <2>2
<1>6. ArtifactsKept'
  <2> SUFFICES ASSUME NEW k \in Key, artifact'[k] \notin hasty \cup {NoNode}
               PROVE  /\ parent'[artifact'[k]] \in {"tmp"} \cup Version
                      /\ tree[artifact'[k]] \subseteq {k}
                      /\ parent'[artifact'[k]] \in Version => tree[artifact'[k]] = {k}
                      /\ \A l \in Key : artifact'[l] = artifact'[k] => l = k
    BY <1>0 DEF ArtifactsKept
  <2>1. artifact'[k] = artifact[k] /\ artifact[k] \in Node /\ parent'[artifact[k]] # "queue"
    BY <1>0, <1>1 DEF TypeOK
  <2>2. parent'[artifact[k]] = parent[artifact[k]]
    BY <1>1, <2>1
  <2>3. \A l \in Key : artifact'[l] = artifact[k] => l = k
    BY <1>0, <1>1, <2>1, NodeAssumption DEF ArtifactsKept
  <2> QED
    BY <1>0, <2>1, <2>2, <2>3 DEF ArtifactsKept
<1> QED
  BY <1>2, <1>4, <1>5, <1>6 DEF ArtifactsInv

(* What lists the cleanup queue lists each of its nodes once. *)
LEMMA EachOnce ==
  ASSUME NEW order \in [1 .. Cardinality(InQueue) -> InQueue],
         {order[i] : i \in DOMAIN order} = InQueue
  PROVE  /\ Cardinality(InQueue) \in Nat
         /\ \A i, k \in DOMAIN order : order[i] = order[k] => i = k
<1>1. IsFiniteSet(InQueue) /\ Cardinality(InQueue) \in Nat
  BY NodeAssumption, FS_Subset, FS_CardinalityType DEF InQueue
<1> DEFINE N == 1 .. Cardinality(InQueue)
<1>2. IsFiniteSet(N) /\ Cardinality(N) = Cardinality(InQueue)
  BY <1>1, FS_Interval
<1>3. order \in Surjection(N, InQueue)
  BY DEF Surjection
<1>4. order \in Injection(N, InQueue)
  BY <1>2, <1>3, FS_SurjSameCardinalityImpliesInj
<1> QED
  BY <1>1, <1>4 DEF Injection, IsInjective

(* A cleanup is queued for each node of the cleanup queue. *)
LEMMA QueueCleanupsKeepsInv ==
  ASSUME ArtifactsInv, QueueCleanups
  PROVE  ArtifactsInv'
<1>0. /\ TypeOK /\ SlotInv /\ NodesAccounted /\ ArtifactsKept
      /\ calls = {} /\ active = {} /\ waiting = <<>> /\ stage = "start" /\ session' = "up"
      /\ UNCHANGED <<artifact, parent, label, tree, stage, calls, view, hasty, dropped,
                     rejected, faults, crashes>>
  BY DEF ArtifactsInv, QueueCleanups, SlotInv, db, past
<1>1. NodesAccounted' /\ ArtifactsKept'
  BY <1>0 DEF NodesAccounted, ArtifactsKept
<1>2. CASE UNCHANGED <<active, waiting>>
  <2>1. TypeOK'
    BY <1>0, <1>2 DEF TypeOK, Sessions
  <2>2. Queued' = {} /\ Elements(waiting') = {}
    BY <1>0, <1>2 DEF Queued, Elements
  <2>3. SlotInv' /\ PromisedOnce' /\ JobsFit'
    BY <1>0, <1>2, <2>2 DEF SlotInv, Distinct, PromisedOnce, JobsFit, Promised, Unfinished
  <2> QED
    BY <1>1, <2>1, <2>3 DEF ArtifactsInv
<1>3. ASSUME NEW order \in [1 .. Cardinality(InQueue) -> InQueue],
             {order[i] : i \in DOMAIN order} = InQueue, InQueue # {},
             active' = {Head([i \in DOMAIN order |-> [kind |-> "clean", node |-> order[i]]])},
             waiting' = Tail([i \in DOMAIN order |-> [kind |-> "clean", node |-> order[i]]])
      PROVE  ArtifactsInv'
  <2> DEFINE job == [i \in DOMAIN order |-> [kind |-> "clean", node |-> order[i]]]
  <2>1. /\ Cardinality(InQueue) \in Nat /\ DOMAIN order = 1 .. Cardinality(InQueue)
        /\ \A i, k \in DOMAIN order : order[i] = order[k] => i = k
    BY <1>3, EachOnce
  <2>2. /\ DOMAIN job = 1 .. Cardinality(InQueue)
        /\ \A i \in DOMAIN job : /\ job[i] \in Job /\ job[i].kind = "clean"
                                 /\ job[i].node = order[i] /\ order[i] \in InQueue
    BY <1>3, <2>1 DEF Job, CleanJob, InQueue
  <2> HIDE DEF job
  <2>3. job \in Seq(Job)
    <3>1. job = [i \in 1 .. Cardinality(InQueue) |-> job[i]]
      BY <2>1, <2>2 DEF job
    <3> QED
      BY <2>1, <2>2, <3>1
  <2>4. Distinct(job) /\ job # <<>>
    BY <1>3, <2>1, <2>2 DEF Distinct
  <2>5. /\ active' = {Head(job)} /\ waiting' = Tail(job)
        /\ Tail(job) \in Seq(Job) /\ Head(job) \in Elements(job) /\ Distinct(Tail(job))
        /\ Elements(Tail(job)) = Elements(job) \ {Head(job)}
    BY <1>3, <2>3, <2>4, TailElements DEF job
  <2>6. \A j \in Elements(job) : j \in Job /\ j.kind = "clean" /\ parent[j.node] = "queue"
    BY <2>2 DEF Elements, InQueue
  <2>7. TypeOK'
    BY <1>0, <2>5, <2>6 DEF TypeOK, Job, Sessions
  <2>8. SlotInv'
    BY <1>0, <2>5 DEF SlotInv
  <2>9. Unfinished' \subseteq Elements(job) /\ Promised' = {}
    BY <1>0, <2>5 DEF Unfinished, Queued, Promised
  <2>10. PromisedOnce' /\ JobsFit'
    BY <1>0, <2>6, <2>9 DEF PromisedOnce, JobsFit
  <2> QED
    BY <1>1, <2>7, <2>8, <2>10 DEF ArtifactsInv
<1> QED
  BY <1>2, <1>3 DEF QueueCleanups

(* What the start queues is for the nodes of the cleanup queue. *)
LEMMA QueueCleanupsAreInQueue ==
  ASSUME waiting = <<>>, active = {}, QueueCleanups
  PROVE  \A j \in Queued' : parent[j.node] = "queue" /\ j.node \in Node
<1>1. CASE UNCHANGED <<active, waiting>>
  BY <1>1 DEF Queued, Elements
<1>2. ASSUME NEW order \in [1 .. Cardinality(InQueue) -> InQueue],
             {order[i] : i \in DOMAIN order} = InQueue, InQueue # {},
             active' = {Head([i \in DOMAIN order |-> [kind |-> "clean", node |-> order[i]]])},
             waiting' = Tail([i \in DOMAIN order |-> [kind |-> "clean", node |-> order[i]]])
      PROVE  \A j \in Queued' : parent[j.node] = "queue" /\ j.node \in Node
  <2> DEFINE N == Cardinality(InQueue)
             job == [i \in DOMAIN order |-> [kind |-> "clean", node |-> order[i]]]
  <2>1. N \in Nat /\ DOMAIN order = 1 .. N /\ N # 0
    <3>1. N \in Nat /\ DOMAIN order = 1 .. N
      BY <1>2, EachOnce
    <3>2. \E i \in DOMAIN order : TRUE
      BY <1>2
    <3> QED
      BY <3>1, <3>2
  <2>2. DOMAIN job = 1 .. N /\ \A i \in 1 .. N : job[i].node \in InQueue
    BY <1>2, <2>1
  <2> HIDE DEF job, N
  <2>3. job = [i \in 1 .. N |-> job[i]]
    BY <2>1, <2>2 DEF job
  <2>4. job \in Seq({job[i] : i \in 1 .. N}) /\ Len(job) = N
    BY <2>1, <2>2, <2>3
  <2>5. Head(job) = job[1] /\ DOMAIN Tail(job) = 1 .. N - 1 /\ \A i \in 1 .. N - 1 : Tail(job)[i] = job[i + 1]
    BY <2>1, <2>4
  <2>6. \A j \in Queued' : \E i \in 1 .. N : j = job[i]
    <3>1. active' = {Head(job)} /\ waiting' = Tail(job)
      BY <1>2 DEF job
    <3>2. Queued' = {job[1]} \cup {Tail(job)[i] : i \in 1 .. N - 1}
      BY <2>5, <3>1 DEF Queued, Elements
    <3>3. 1 \in 1 .. N /\ \A i \in 1 .. N - 1 : i + 1 \in 1 .. N
      BY <2>1
    <3> QED
      BY <2>5, <3>2, <3>3
  <2> QED
    BY <2>2, <2>6 DEF InQueue
<1> QED
  BY <1>1, <1>2 DEF QueueCleanups

(* After a kill there is the database only. *)
LEMMA CrashKeepsInv ==
  ASSUME ArtifactsInv, Crash
  PROVE  ArtifactsInv'
<1>0. /\ active' = {} /\ waiting' = <<>> /\ stage' = "start" /\ calls' = {}
      /\ UNCHANGED <<artifact, parent, label, tree, hasty>>
  BY DEF Crash, db
<1>1. TypeOK'
  BY <1>0, BoundAssumption DEF ArtifactsInv, Crash, TypeOK, Stages, Sessions, Statuses
<1>2. Queued' = {} /\ Elements(waiting') = {}
  BY <1>0 DEF Queued, Elements
<1>3. SlotInv' /\ PromisedOnce' /\ JobsFit'
  BY <1>0, <1>2 DEF SlotInv, Distinct, PromisedOnce, JobsFit, Promised, Unfinished
<1>4. NodesAccounted' /\ ArtifactsKept'
  BY <1>0 DEF ArtifactsInv, NodesAccounted, ArtifactsKept
<1> QED
  BY <1>1, <1>3, <1>4 DEF ArtifactsInv

(* A start that failed, a call that failed, a view that is loaded. *)
LEMMA OthersKeepInv ==
  ASSUME ArtifactsInv, FailReap \/ LoadVersions \/ \E c \in calls : FailCall(c)
  PROVE  ArtifactsInv'
<1>1. CASE FailReap
  <2>1. TypeOK'
    BY <1>1, BoundAssumption
    DEF ArtifactsInv, FailReap, TypeOK, Sessions, db, queue, past
  <2>2. SlotInv'
    BY <1>1 DEF ArtifactsInv, FailReap, SlotInv, Distinct, Elements, queue
  <2>3. Unfinished' = Unfinished /\ stage' = stage /\ active' = active
    BY <1>1 DEF FailReap, queue, Unfinished, Queued, Elements
  <2> QED
    BY <1>1, <2>1, <2>2, <2>3, FewerJobs DEF FailReap, db, past
<1>2. CASE LoadVersions
  <2>1. TypeOK'
    BY <1>2 DEF ArtifactsInv, LoadVersions, TypeOK, Status, Statuses, db, queue, past
  <2> QED
    BY <1>2, <2>1, QueueStands DEF LoadVersions, db, queue, past
<1>3. ASSUME NEW c \in calls, FailCall(c) PROVE ArtifactsInv'
  <2>1. TypeOK'
    BY <1>3, BoundAssumption DEF ArtifactsInv, FailCall, TypeOK, db, queue, past
  <2> QED
    BY <1>3, <2>1, QueueStands DEF FailCall, db, queue, past
<1> QED
  BY <1>1, <1>2, <1>3

(* Every step keeps it. *)
LEMMA NextArtifactsInv == ArtifactsInv /\ [Next]_vars => ArtifactsInv'
<1> SUFFICES ASSUME ArtifactsInv, [Next]_vars PROVE ArtifactsInv'
  OBVIOUS
<1>1. ASSUME NEW k \in Key, NEW n \in Node, CreatePlaceholder(k, n) PROVE ArtifactsInv'
  BY <1>1, CreateKeepsInv
<1>2. ASSUME NEW k \in Key, DeleteArtifact(k) PROVE ArtifactsInv'
  BY <1>2, DeleteKeepsInv
<1>3. ASSUME NEW c \in calls, FinishCall(c) PROVE ArtifactsInv'
  BY <1>3, FinishCallKeepsInv
<1>4. ASSUME NEW j \in active, JobStep(j) PROVE ArtifactsInv'
  BY <1>4, JobKeepsInv
<1>5. CASE ReapBrokenImports
  BY <1>5, ReapKeepsInv
<1>6. CASE QueueCleanups
  BY <1>6, QueueCleanupsKeepsInv
<1>7. CASE FailReap \/ LoadVersions \/ \E c \in calls : FailCall(c)
  BY <1>7, OthersKeepInv
<1>8. CASE Crash
  BY <1>8, CrashKeepsInv
<1>9. CASE UNCHANGED vars
  <2>1. TypeOK'
    BY <1>9 DEF ArtifactsInv, TypeOK, vars
  <2> QED
    BY <1>9, <2>1, QueueStands DEF vars
<1> QED
  BY <1>1, <1>2, <1>3, <1>4, <1>5, <1>6, <1>7, <1>8, <1>9 DEF Next, CallStep, StartStep

-----------------------------------------------------------------------------
(* NodesKept: what leaves the artifacts alone, moves nodes to the          *)
(* directories of versions at most, and promises no cleanup.               *)
LEMMA NodesKeptStands ==
  ASSUME TypeOK, NodesKept, artifact' = artifact, calls' \subseteq calls,
         Unfinished' \subseteq Unfinished,
         \A n \in Node : parent'[n] = parent[n] \/ parent'[n] \in Version
  PROVE  NodesKept'
<1>1. Promised' \cup Unfinished' \subseteq Promised \cup Unfinished
  BY DEF Promised, JobOf
<1>2. Promised \cup Unfinished \subseteq Job
  BY QueuedAreJobs
<1>3. \A k \in Key : artifact[k] # NoNode => artifact[k] \in Node
  BY DEF TypeOK
<1>4. \A k \in Key :
        artifact'[k] # NoNode =>
          /\ parent'[artifact'[k]] \in {"tmp"} \cup Version
          /\ \A l \in Key : artifact'[l] = artifact'[k] => l = k
  BY <1>3 DEF NodesKept
<1>5. \A j \in Promised' \cup Unfinished' :
        j.kind = "clean" => parent'[j.node] # "none" /\ \A k \in Key : artifact'[k] # j.node
  BY <1>1, <1>2, JobFields, PlaceAssumption DEF NodesKept
<1>6. \A c \in calls' :
        c.kind = "delete" =>
          /\ JobOf(c)' \notin Unfinished'
          /\ \A d \in calls' : d.kind = "delete" /\ d.node = c.node => d = c
  BY DEF NodesKept, JobOf
<1> QED
  BY <1>4, <1>5, <1>6 DEF NodesKept

(* A node without an entry, and with it its artifact. *)
LEMMA CreateKeepsNodes ==
  ASSUME TypeOK, NodesKept, NEW k \in Key, NEW n \in Node, CreatePlaceholder(k, n)
  PROVE  NodesKept'
<1> DEFINE c == [kind |-> "import", key |-> k, node |-> n]
<1>1. /\ artifact[k] = NoNode /\ parent[n] = "none" /\ calls' = calls \cup {c}
      /\ Unfinished' = Unfinished /\ Promised' = Promised \cup {JobOf(c)}
      /\ JobOf(c).kind = "import"
  BY DEF CreatePlaceholder, queue, Unfinished, Queued, Elements, Promised, JobOf
<1>2. /\ \A l \in Key : l # k => artifact'[l] = artifact[l]
      /\ \A m \in Node : m # n => parent'[m] = parent[m]
      /\ artifact'[k] = n /\ parent'[n] = "tmp"
  BY DEF CreatePlaceholder, TypeOK
<1>3. \A l \in Key : artifact[l] # n
  BY <1>1, NodeAssumption, PlaceAssumption DEF NodesKept
<1>4. \A j \in Promised \cup Unfinished : j \in Job /\ (j.kind = "clean" => j.node # n)
  BY <1>1, QueuedAreJobs DEF NodesKept
<1>5. \A l \in Key :
        artifact'[l] # NoNode =>
          /\ parent'[artifact'[l]] \in {"tmp"} \cup Version
          /\ \A m \in Key : artifact'[m] = artifact'[l] => m = l
  <2> SUFFICES ASSUME NEW l \in Key, artifact'[l] # NoNode
               PROVE  /\ parent'[artifact'[l]] \in {"tmp"} \cup Version
                      /\ \A m \in Key : artifact'[m] = artifact'[l] => m = l
    OBVIOUS
  <2>1. CASE l = k
    BY <1>2, <1>3, <2>1
  <2>2. CASE l # k
    BY <1>2, <1>3, <2>2 DEF NodesKept, TypeOK
  <2> QED
    BY <2>1, <2>2
<1>6. \A j \in Promised' \cup Unfinished' :
        j.kind = "clean" => parent'[j.node] # "none" /\ \A l \in Key : artifact'[l] # j.node
  <2> SUFFICES ASSUME NEW j \in Promised' \cup Unfinished', j.kind = "clean"
               PROVE  parent'[j.node] # "none" /\ \A l \in Key : artifact'[l] # j.node
    OBVIOUS
  <2>1. j \in Promised \cup Unfinished /\ j.node \in Node /\ j.node # n
    BY <1>1, <1>4, JobFields
  <2> QED
    BY <1>2, <2>1 DEF NodesKept
<1>7. \A d \in calls' :
        d.kind = "delete" =>
          /\ JobOf(d)' \notin Unfinished'
          /\ \A e \in calls' : e.kind = "delete" /\ e.node = d.node => e = d
  BY <1>1 DEF NodesKept, JobOf
<1> QED
  BY <1>5, <1>6, <1>7 DEF NodesKept

(* The cleanup of a node is promised when its artifact is taken from it. *)
LEMMA DeleteKeepsNodes ==
  ASSUME TypeOK, NodesKept, NEW k \in Key, DeleteArtifact(k)
  PROVE  NodesKept'
<1> DEFINE n == artifact[k]
           c == [kind |-> "delete", key |-> k, node |-> n]
<1>0. n \in Node /\ UNCHANGED <<active, waiting, stage>> /\ Unfinished' = Unfinished
  BY DEF TypeOK, DeleteArtifact, queue, Unfinished, Queued, Elements
<1>1. CASE UNCHANGED <<artifact, parent, calls>>
  BY <1>0, <1>1, NodesKeptStands
<1>2. CASE /\ artifact' = [artifact EXCEPT ![k] = NoNode]
           /\ parent' = [parent EXCEPT ![n] = "queue"]
           /\ calls' = calls \cup {c}
  <2>1. /\ \A l \in Key : l # k => artifact'[l] = artifact[l]
        /\ \A m \in Node : m # n => parent'[m] = parent[m]
        /\ artifact'[k] = NoNode /\ parent'[n] = "queue"
    BY <1>0, <1>2 DEF TypeOK
  <2>2. Promised' = Promised \cup {JobOf(c)} /\ JobOf(c).kind = "clean" /\ JobOf(c).node = n
    BY <1>2 DEF Promised, JobOf
  <2>3. /\ \A l \in Key : artifact[l] = n => l = k
        /\ \A j \in Promised \cup Unfinished : j \in Job /\ (j.kind = "clean" => j.node # n)
    BY <1>0, QueuedAreJobs, NodeAssumption DEF NodesKept
  <2>4. \A l \in Key :
          artifact'[l] # NoNode =>
            /\ parent'[artifact'[l]] \in {"tmp"} \cup Version
            /\ \A m \in Key : artifact'[m] = artifact'[l] => m = l
    BY <2>1, <2>3 DEF NodesKept, TypeOK
  <2>5. \A j \in Promised' \cup Unfinished' :
          j.kind = "clean" => parent'[j.node] # "none" /\ \A l \in Key : artifact'[l] # j.node
    <3> SUFFICES ASSUME NEW j \in Promised' \cup Unfinished', j.kind = "clean"
                 PROVE  parent'[j.node] # "none" /\ \A l \in Key : artifact'[l] # j.node
      OBVIOUS
    <3>1. CASE j = JobOf(c)
      BY <1>0, <2>1, <2>2, <2>3, <3>1, NodeAssumption
    <3>2. CASE j \in Promised \cup Unfinished
      <4>1. j.node \in Node /\ j.node # n
        BY <2>3, <3>2, JobFields
      <4> QED
        BY <2>1, <3>2, <4>1, NodeAssumption DEF NodesKept
    <3> QED
      BY <1>0, <2>2, <3>1, <3>2
  <2>6. \A d \in calls' :
          d.kind = "delete" =>
            /\ JobOf(d)' \notin Unfinished'
            /\ \A e \in calls' : e.kind = "delete" /\ e.node = d.node => e = d
    <3>1. \A d \in calls : d.kind = "delete" => d.node # n
      BY <2>3, CallsAreJobs DEF Promised, TypeOK
    <3>2. JobOf(c) \notin Unfinished
      BY <2>2, <2>3
    <3>3. \A d \in calls' : JobOf(d)' = JobOf(d)
      BY DEF JobOf
    <3> QED
      BY <1>0, <1>2, <3>1, <3>2, <3>3 DEF NodesKept
  <2> QED
    BY <2>4, <2>5, <2>6 DEF NodesKept
<1> QED
  BY <1>1, <1>2 DEF DeleteArtifact

(* What a call promised is now in the schedule, or was there before. *)
LEMMA FinishCallSchedules ==
  ASSUME ArtifactsInv, NEW c \in calls, FinishCall(c)
  PROVE  /\ calls' = calls \ {c} /\ JobOf(c) \in Job
         /\ Unfinished' \in {Unfinished, Unfinished \cup {JobOf(c)}}
         /\ dropped \subseteq dropped' /\ JobOf(c) \in Unfinished' \cup dropped'
<1> DEFINE j == JobOf(c)
<1>1. /\ TypeOK /\ SlotInv /\ j \in Job /\ session = "up" /\ calls' = calls \ {c}
      /\ EmitJob(j) /\ UNCHANGED <<stage, session>>
  BY CallsAreJobs DEF ArtifactsInv, FinishCall, TypeOK, SlotInv, Sessions
<1>2. CASE IdKnown(j)
  BY <1>1, <1>2 DEF EmitJob, Unfinished, Queued, Elements
<1>3. CASE ~IdKnown(j)
  BY <1>1, <1>3, OneSlot DEF EmitJob
<1> QED
  BY <1>1, <1>2, <1>3

LEMMA FinishCallKeepsNodes ==
  ASSUME ArtifactsInv, NodesKept, NEW c \in calls, FinishCall(c)
  PROVE  NodesKept'
<1>1. /\ TypeOK /\ UNCHANGED <<artifact, parent>> /\ calls' = calls \ {c} /\ c \in Call
      /\ Unfinished' \in {Unfinished, Unfinished \cup {JobOf(c)}}
  BY FinishCallSchedules DEF ArtifactsInv, FinishCall, db, TypeOK
<1>2. Promised' \cup Unfinished' \subseteq Promised \cup Unfinished
  BY <1>1 DEF Promised, JobOf
<1>3. \A d \in calls' :
        d.kind = "delete" =>
          /\ JobOf(d)' \notin Unfinished'
          /\ \A e \in calls' : e.kind = "delete" /\ e.node = d.node => e = d
  <2> SUFFICES ASSUME NEW d \in calls', d.kind = "delete" PROVE JobOf(d) \notin Unfinished'
    BY <1>1 DEF NodesKept, JobOf
  <2>1. d \in calls /\ d # c /\ d \in Call
    BY <1>1 DEF TypeOK
  <2>2. JobOf(d) # JobOf(c)
    <3> SUFFICES ASSUME JobOf(d) = JobOf(c) PROVE FALSE
      OBVIOUS
    <3>1. c.node = d.node /\ c.kind = "delete"
      BY <1>1, <2>1, CallsAreJobs DEF Call
    <3> QED
      BY <2>1, <3>1 DEF NodesKept
  <2> QED
    BY <1>1, <2>1, <2>2 DEF NodesKept
<1> QED
  BY <1>1, <1>2, <1>3 DEF NodesKept

(* The node that is freed had this cleanup only, and no artifact. *)
LEMMA CleanKeepsNodes ==
  ASSUME ArtifactsInv, NodesKept, NEW j \in active, DeleteTree(j)
  PROVE  NodesKept'
<1>1. /\ TypeOK /\ j.kind = "clean" /\ stage = "start" /\ stage' = "cleaned"
      /\ parent' = [parent EXCEPT ![j.node] = "none"]
      /\ UNCHANGED <<artifact, active, waiting, calls, hasty>>
  BY DEF ArtifactsInv, DeleteTree, past
<1>2. /\ j \in Job /\ j \in Unfinished /\ Promised' = Promised /\ Unfinished' = Unfinished \ {j}
  BY <1>1, ActiveIsDone
<1>3. /\ j.node \in Node /\ \A k \in Key : artifact[k] # j.node
      /\ \A n \in Node : n # j.node => parent'[n] = parent[n]
  BY <1>1, <1>2, JobFields DEF NodesKept, TypeOK
<1>4. \A i \in Promised' \cup Unfinished' :
        i \in Promised \cup Unfinished /\ i.node \in Node /\ (i.kind = "clean" => i.node # j.node)
  <2> SUFFICES ASSUME NEW i \in Promised \cup (Unfinished \ {j})
               PROVE  i.node \in Node /\ (i.kind = "clean" => i.node # j.node)
    BY <1>2
  <2>1. i \in Job /\ i.node \in Node
    BY <1>1, QueuedAreJobs, JobFields
  <2>2. ASSUME i.kind = "clean", i.node = j.node PROVE FALSE
    <3>1. i = j
      BY <1>1, <1>2, <2>1, <2>2, SameJob
    <3>2. PICK c \in calls : i = JobOf(c)
      BY <3>1 DEF Promised
    <3>3. c.kind = "delete"
      BY <1>1, <2>2, <3>2, CallsAreJobs DEF Call, TypeOK
    <3> QED
      BY <1>2, <3>1, <3>2, <3>3 DEF NodesKept
  <2> QED
    BY <2>1, <2>2
<1>5. \A k \in Key :
        artifact'[k] # NoNode =>
          /\ parent'[artifact'[k]] \in {"tmp"} \cup Version
          /\ \A l \in Key : artifact'[l] = artifact'[k] => l = k
  BY <1>1, <1>3 DEF NodesKept, TypeOK
<1>6. \A i \in Promised' \cup Unfinished' :
        i.kind = "clean" => parent'[i.node] # "none" /\ \A k \in Key : artifact'[k] # i.node
  BY <1>1, <1>3, <1>4 DEF NodesKept
<1>7. \A c \in calls' :
        c.kind = "delete" =>
          /\ JobOf(c)' \notin Unfinished'
          /\ \A d \in calls' : d.kind = "delete" /\ d.node = c.node => d = c
  BY <1>1, <1>2 DEF NodesKept, JobOf
<1> QED
  BY <1>5, <1>6, <1>7 DEF NodesKept

(* The start of a session. *)
LEMMA StartKeepsNodes ==
  ASSUME ArtifactsInv, NodesKept, ReapBrokenImports \/ QueueCleanups \/ Crash
  PROVE  NodesKept'
<1>0. TypeOK /\ (session # "up" => calls = {} /\ active = {} /\ waiting = <<>>)
  BY DEF ArtifactsInv, SlotInv
<1>1. CASE ReapBrokenImports
  <2>1. calls' = {} /\ Unfinished' = {} /\ Promised' = {}
    BY <1>0, <1>1 DEF ReapBrokenImports, queue, Unfinished, Queued, Elements, Promised
  <2>2. /\ \A n \in Node : parent'[n] = IF n \in Broken THEN "queue" ELSE parent[n]
        /\ \A k \in Key : artifact'[k] = IF artifact[k] \in Node /\ parent'[artifact[k]] = "queue"
                                         THEN NoNode ELSE artifact[k]
    BY <1>1 DEF ReapBrokenImports
  <2>3. \A k \in Key :
          artifact'[k] # NoNode =>
            /\ parent'[artifact'[k]] \in {"tmp"} \cup Version
            /\ \A l \in Key : artifact'[l] = artifact'[k] => l = k
    <3> SUFFICES ASSUME NEW k \in Key, artifact'[k] # NoNode
                 PROVE  /\ parent'[artifact'[k]] \in {"tmp"} \cup Version
                        /\ \A l \in Key : artifact'[l] = artifact'[k] => l = k
      OBVIOUS
    <3>1. artifact'[k] = artifact[k] /\ artifact[k] \in Node /\ parent'[artifact[k]] # "queue"
      BY <1>0, <2>2 DEF TypeOK
    <3>2. parent'[artifact[k]] = parent[artifact[k]]
      BY <2>2, <3>1
    <3> QED
      BY <2>2, <3>1, <3>2, NodeAssumption DEF NodesKept
  <2> QED
    BY <2>1, <2>3 DEF NodesKept
<1>2. CASE QueueCleanups
  <2>1. UNCHANGED <<artifact, parent, calls>> /\ calls' = {} /\ Promised' = {}
    BY <1>0, <1>2 DEF QueueCleanups, db, Promised
  <2>2. \A j \in Queued' : parent[j.node] = "queue" /\ j.node \in Node
    BY <1>0, <1>2, QueueCleanupsAreInQueue DEF QueueCleanups
  <2>3. Unfinished' \subseteq Queued'
    BY DEF Unfinished
  <2>4. \A n \in Node : parent[n] = "queue" => \A k \in Key : artifact[k] # n
    BY NodeAssumption, PlaceAssumption DEF NodesKept
  <2> QED
    BY <2>1, <2>2, <2>3, <2>4 DEF NodesKept
<1>3. CASE Crash
  <2>1. calls' = {} /\ Unfinished' = {} /\ Promised' = {} /\ UNCHANGED <<artifact, parent>>
    BY <1>3 DEF Crash, Unfinished, Queued, Elements, Promised, db
  <2> QED
    BY <2>1 DEF NodesKept
<1> QED
  BY <1>1, <1>2, <1>3

LEMMA NextNodesKept == ArtifactsInv /\ NodesKept /\ [Next]_vars => NodesKept'
<1> SUFFICES ASSUME ArtifactsInv, NodesKept, [Next]_vars PROVE NodesKept'
  OBVIOUS
<1>0. TypeOK /\ SlotInv
  BY DEF ArtifactsInv
<1>1. ASSUME NEW k \in Key, NEW n \in Node, CreatePlaceholder(k, n) PROVE NodesKept'
  BY <1>0, <1>1, CreateKeepsNodes
<1>2. ASSUME NEW k \in Key, DeleteArtifact(k) PROVE NodesKept'
  BY <1>0, <1>2, DeleteKeepsNodes
<1>3. ASSUME NEW c \in calls, FinishCall(c) PROVE NodesKept'
  BY <1>3, FinishCallKeepsNodes
<1>4. ASSUME NEW j \in active, Complete(j), UNCHANGED <<db, calls, session>> PROVE NodesKept'
  BY <1>0, <1>4, CompletePassesSlot, NodesKeptStands DEF db
<1>5. ASSUME NEW j \in active, JobStep(j) PROVE NodesKept'
  <2>1. CASE Complete(j) /\ UNCHANGED <<db, calls, session>>
    BY <1>4, <2>1
  <2>2. CASE FillNode(j)
    <3>1. Unfinished' = Unfinished
      BY <1>0, <2>2 DEF FillNode, Unfinished, Queued, Elements
    <3> QED
      BY <1>0, <2>2, <3>1, NodesKeptStands DEF FillNode
  <2>3. CASE ReplacePlaceholder(j)
    <3>1. /\ stage = "filled" /\ stage' = "replaced" /\ MoveToVersion(j)
          /\ UNCHANGED <<artifact, active, waiting, calls, hasty>>
      BY <2>3 DEF ReplacePlaceholder, past
    <3>2. j \in Job /\ j.kind = "import" /\ Unfinished' \subseteq Unfinished
      BY <2>3, <3>1, ActiveIsDone DEF ReplacePlaceholder
    <3>3. j.node \in Node /\ j.key[1] \in Version
      BY <3>2, JobFields DEF Key
    <3>4. \A n \in Node : parent'[n] = parent[n] \/ parent'[n] \in Version
      BY <1>0, <3>1, <3>3 DEF MoveToVersion, TypeOK
    <3> QED
      BY <1>0, <3>1, <3>2, <3>4, NodesKeptStands
  <2>4. CASE DeleteTree(j)
    BY <2>4, CleanKeepsNodes
  <2> QED
    BY <1>5, <2>1, <2>2, <2>3, <2>4
    DEF JobStep, FillRefused, ReplaceRefused, FinishImport, FinishCleanup, FailJob
<1>6. CASE ReapBrokenImports \/ QueueCleanups \/ Crash
  BY <1>6, StartKeepsNodes
<1>7. CASE UNCHANGED <<db, active, waiting, stage>> /\ calls' \subseteq calls
  <2>1. Unfinished' = Unfinished
    BY <1>7 DEF Unfinished, Queued, Elements
  <2> QED
    BY <1>0, <1>7, <2>1, NodesKeptStands DEF db
<1> QED
  BY <1>1, <1>2, <1>3, <1>5, <1>6, <1>7
  DEF Next, CallStep, StartStep, FailCall, LoadVersions, FailReap, queue, vars, db

-----------------------------------------------------------------------------
(* PlaceholdersAwaited. *)

(* The end of a job ends no other. *)
LEMMA CompleteEndsOne ==
  ASSUME TypeOK, SlotInv, NEW j \in active, Complete(j)
  PROVE  Unfinished \ {j} \subseteq Unfinished'
<1>1. active = {j} /\ stage' = "start" /\ waiting \in Seq(Job) /\ Distinct(waiting)
  BY DEF TypeOK, SlotInv, Complete, Job
<1>2. CASE waiting = <<>>
  BY <1>1, <1>2 DEF Unfinished, Queued, Elements
<1>3. CASE waiting # <<>>
  <2>1. /\ active' = {Head(waiting)} /\ waiting' = Tail(waiting)
        /\ Elements(waiting') = Elements(waiting) \ {Head(waiting)}
    BY <1>1, <1>3, TailElements DEF Complete, Jobs!Complete
  <2> QED
    BY <1>1, <2>1 DEF Unfinished, Queued
<1> QED
  BY <1>2, <1>3

(* What makes no placeholder and drops no import without a reason. *)
LEMMA PlaceholdersStand ==
  ASSUME TypeOK, PlaceholdersAwaited, UNCHANGED <<artifact, session>>,
         \A n \in Node : parent'[n] = "tmp" => parent[n] = "tmp",
         faults' = 0 => faults = 0,
         session = "up" /\ faults' = 0 =>
           \A k \in Key : IsPlaceholder(k)' /\ ImportOf(k) \in calls \cup Unfinished \cup dropped
                            => ImportOf(k) \in calls' \cup Unfinished' \cup dropped'
  PROVE  PlaceholdersAwaited'
<1>1. \A k \in Key : IsPlaceholder(k)' => IsPlaceholder(k)
  BY DEF IsPlaceholder, TypeOK
<1>2. \A k \in Key : ImportOf(k)' = ImportOf(k)
  BY DEF ImportOf
<1> QED
  BY <1>1, <1>2 DEF PlaceholdersAwaited

LEMMA UserKeepsPlaceholders ==
  ASSUME TypeOK, NodesKept, PlaceholdersAwaited,
         \/ \E k \in Key, n \in Node : CreatePlaceholder(k, n)
         \/ \E k \in Key : DeleteArtifact(k)
  PROVE  PlaceholdersAwaited'
<1>1. ASSUME NEW k \in Key, NEW n \in Node, CreatePlaceholder(k, n) PROVE PlaceholdersAwaited'
  <2>1. /\ session' = "up" /\ session = "up" /\ faults' = faults /\ dropped' = dropped
        /\ artifact[k] = NoNode /\ parent[n] = "none"
        /\ calls' = calls \cup {[kind |-> "import", key |-> k, node |-> n]}
        /\ Unfinished' = Unfinished
    BY <1>1 DEF CreatePlaceholder, queue, past, Unfinished, Queued, Elements
  <2>2. /\ \A l \in Key : l # k => artifact'[l] = artifact[l]
        /\ \A m \in Node : m # n => parent'[m] = parent[m]
        /\ artifact'[k] = n
    BY <1>1 DEF CreatePlaceholder, TypeOK
  <2>3. \A l \in Key : artifact[l] # n
    BY <2>1, NodeAssumption, PlaceAssumption DEF NodesKept
  <2>4. ImportOf(k)' \in calls'
    BY <2>1, <2>2 DEF ImportOf
  <2>5. \A l \in Key : l # k /\ IsPlaceholder(l)' => IsPlaceholder(l) /\ ImportOf(l)' = ImportOf(l)
    BY <2>2, <2>3 DEF IsPlaceholder, ImportOf, TypeOK
  <2> QED
    BY <2>1, <2>4, <2>5 DEF PlaceholdersAwaited
<1>2. ASSUME NEW k \in Key, DeleteArtifact(k) PROVE PlaceholdersAwaited'
  <2>1. /\ session' = "up" /\ session = "up" /\ faults' = faults /\ dropped' = dropped
        /\ calls \subseteq calls' /\ Unfinished' = Unfinished /\ artifact[k] \in Node
    BY <1>2 DEF DeleteArtifact, queue, Unfinished, Queued, Elements, TypeOK
  <2>2. /\ \A l \in Key : artifact'[l] \in {artifact[l], NoNode}
        /\ \A m \in Node : parent'[m] \in {parent[m], "queue"}
    BY <1>2, <2>1 DEF DeleteArtifact, TypeOK
  <2>3. \A l \in Key : IsPlaceholder(l)' => IsPlaceholder(l) /\ ImportOf(l)' = ImportOf(l)
    BY <2>2 DEF IsPlaceholder, ImportOf, TypeOK
  <2> QED
    BY <2>1, <2>3 DEF PlaceholdersAwaited
<1> QED
  BY <1>1, <1>2

(* An import leaves the schedule when its placeholder has been replaced,   *)
(* when it was refused, or after a failure.                                *)
LEMMA JobKeepsPlaceholders ==
  ASSUME ArtifactsInv, PlaceholdersAwaited, NEW j \in active, JobStep(j)
  PROVE  PlaceholdersAwaited'
<1>0. /\ TypeOK /\ SlotInv /\ session = "up" /\ j \in Job /\ active = {j}
      /\ j \notin Elements(waiting) /\ faults \in Nat
  BY DEF ArtifactsInv, SlotInv, TypeOK, Sessions, Job
<1>1. \A k \in Key : ImportOf(k).kind = "import" /\ ImportOf(k).node = artifact[k]
  BY DEF ImportOf
<1>2. CASE FillNode(j)
  <2>1. Unfinished' = Unfinished
    BY <1>0, <1>2 DEF FillNode, Unfinished, Queued, Elements
  <2> QED
    BY <1>0, <1>2, <2>1, PlaceholdersStand DEF FillNode, past
<1>3. CASE FillRefused(j) \/ ReplaceRefused(j)
  <2>1. /\ UNCHANGED <<artifact, parent, session, calls, faults>> /\ dropped' = dropped \cup {j}
        /\ Unfinished \ {j} \subseteq Unfinished'
    BY <1>0, <1>3, CompleteEndsOne DEF FillRefused, ReplaceRefused, db
  <2> QED
    BY <1>0, <2>1, PlaceholdersStand
<1>4. CASE ReplacePlaceholder(j)
  <2>1. /\ stage = "filled" /\ stage' = "replaced" /\ MoveToVersion(j) /\ j.kind = "import"
        /\ UNCHANGED <<artifact, active, waiting, calls, hasty, dropped, session, faults>>
    BY <1>4 DEF ReplacePlaceholder, past
  <2>2. Unfinished' = Unfinished \ {j} /\ j.node \in Node /\ j.key[1] \in Version
    BY <1>0, <2>1, ActiveIsDone, JobFields DEF Key
  <2>3. /\ \A n \in Node : n # j.node => parent'[n] = parent[n]
        /\ parent'[j.node] # "tmp"
    BY <1>0, <2>1, <2>2, PlaceAssumption DEF MoveToVersion, TypeOK
  <2>4. \A k \in Key : IsPlaceholder(k)' => ImportOf(k) # j
    BY <1>1, <2>1, <2>3 DEF IsPlaceholder
  <2> QED
    BY <1>0, <2>1, <2>2, <2>3, <2>4, PlaceholdersStand
<1>5. CASE FinishImport(j) \/ FinishCleanup(j)
  <2>1. /\ UNCHANGED <<artifact, parent, session, calls, faults, dropped>>
        /\ stage \in {"replaced", "cleaned"} /\ Unfinished \ {j} \subseteq Unfinished'
    BY <1>0, <1>5, CompleteEndsOne DEF FinishImport, FinishCleanup, db, past
  <2>2. j \notin Unfinished
    BY <2>1 DEF Unfinished
  <2> QED
    BY <1>0, <2>1, <2>2, PlaceholdersStand
<1>6. CASE DeleteTree(j)
  <2>1. /\ j.kind = "clean" /\ stage = "start" /\ stage' = "cleaned"
        /\ parent' = [parent EXCEPT ![j.node] = "none"]
        /\ UNCHANGED <<artifact, active, waiting, calls, hasty, dropped, session, faults>>
    BY <1>6 DEF DeleteTree, past
  <2>2. Unfinished' = Unfinished \ {j}
    BY <2>1, ActiveIsDone
  <2>3. \A n \in Node : parent'[n] = "tmp" => parent[n] = "tmp"
    BY <1>0, <2>1 DEF TypeOK
  <2> QED
    BY <1>0, <1>1, <2>1, <2>2, <2>3, PlaceholdersStand
<1>7. CASE FailJob(j)
  <2>1. UNCHANGED <<artifact, parent, session>> /\ faults' # 0
    BY <1>0, <1>7 DEF FailJob, db
  <2> QED
    BY <1>0, <2>1, PlaceholdersStand
<1> QED
  BY <1>2, <1>3, <1>4, <1>5, <1>6, <1>7 DEF JobStep

LEMMA NextPlaceholdersAwaited ==
  ArtifactsInv /\ NodesKept /\ PlaceholdersAwaited /\ [Next]_vars => PlaceholdersAwaited'
<1> SUFFICES ASSUME ArtifactsInv, NodesKept, PlaceholdersAwaited, [Next]_vars
             PROVE  PlaceholdersAwaited'
  OBVIOUS
<1>0. TypeOK /\ SlotInv /\ faults \in Nat
  BY DEF ArtifactsInv, TypeOK
<1>1. CASE \/ \E k \in Key, n \in Node : CreatePlaceholder(k, n)
           \/ \E k \in Key : DeleteArtifact(k)
  BY <1>0, <1>1, UserKeepsPlaceholders
<1>2. ASSUME NEW c \in calls, FinishCall(c) PROVE PlaceholdersAwaited'
  <2>1. /\ UNCHANGED <<artifact, parent, session, faults>> /\ calls' = calls \ {c}
        /\ Unfinished \subseteq Unfinished' /\ dropped \subseteq dropped'
        /\ JobOf(c) \in Unfinished' \cup dropped'
    BY <1>2, FinishCallSchedules DEF FinishCall, db
  <2>2. \A k \in Key : ImportOf(k) = c => ImportOf(k) = JobOf(c)
    BY DEF ImportOf, JobOf
  <2> QED
    BY <1>0, <2>1, <2>2, PlaceholdersStand
<1>3. ASSUME NEW c \in calls, FailCall(c) PROVE PlaceholdersAwaited'
  <2>1. UNCHANGED <<artifact, parent, session>> /\ faults' # 0
    BY <1>0, <1>3 DEF FailCall, db
  <2> QED
    BY <1>0, <2>1, PlaceholdersStand
<1>4. ASSUME NEW j \in active, JobStep(j) PROVE PlaceholdersAwaited'
  BY <1>4, JobKeepsPlaceholders
<1>5. CASE ReapBrokenImports
  <2>1. session' = "reaped"
    BY <1>5 DEF ReapBrokenImports
  <2>2. /\ \A n \in Node : parent'[n] = IF n \in Broken THEN "queue" ELSE parent[n]
        /\ \A k \in Key : artifact'[k] \in {artifact[k], NoNode}
    BY <1>5 DEF ReapBrokenImports
  <2>3. \A k \in Key : ~IsPlaceholder(k)'
    BY <1>0, <2>2 DEF IsPlaceholder, Broken, TypeOK
  <2> QED
    BY <2>1, <2>3 DEF PlaceholdersAwaited
<1>6. CASE QueueCleanups
  <2>1. session = "reaped" /\ session' = "up" /\ UNCHANGED <<artifact, parent>>
    BY <1>6 DEF QueueCleanups, db
  <2> QED
    BY <2>1 DEF PlaceholdersAwaited, IsPlaceholder
<1>7. CASE FailReap
  <2>1. session' = "up" /\ faults' # 0
    BY <1>0, <1>7 DEF FailReap
  <2> QED
    BY <2>1 DEF PlaceholdersAwaited
<1>8. CASE Crash
  BY <1>8 DEF Crash, PlaceholdersAwaited
<1>9. CASE LoadVersions \/ UNCHANGED vars
  <2>1. UNCHANGED <<artifact, parent, session, faults, calls, active, waiting, stage, dropped>>
    BY <1>9 DEF LoadVersions, vars, db, queue, past
  <2>2. Unfinished' = Unfinished
    BY <2>1 DEF Unfinished, Queued, Elements
  <2> QED
    BY <1>0, <2>1, <2>2, PlaceholdersStand
<1> QED
  BY <1>1, <1>2, <1>3, <1>4, <1>5, <1>6, <1>7, <1>8, <1>9 DEF Next, CallStep, StartStep

-----------------------------------------------------------------------------
(* ViewFollows. *)

(* The status of an artifact whose node stays where it is. *)
LEMMA StatusStands ==
  ASSUME TypeOK, NEW k \in Key, artifact'[k] = artifact[k],
         artifact[k] # NoNode => parent'[artifact[k]] = parent[artifact[k]]
  PROVE  Status(k)' = Status(k)
BY DEF Status

(* The renderer is told of what changes, unless something fails. *)
LEMMA NextViewFollows ==
  ArtifactsInv /\ NodesKept /\ ViewFollows /\ [Next]_vars => ViewFollows'
<1> SUFFICES ASSUME ArtifactsInv, NodesKept, ViewFollows, [Next]_vars PROVE ViewFollows'
  OBVIOUS
<1>0. /\ TypeOK /\ SlotInv /\ faults \in Nat
      /\ session # "up" => calls = {} /\ active = {}
  BY DEF ArtifactsInv, TypeOK, SlotInv
<1>1. ASSUME NEW k \in Key, NEW n \in Node, CreatePlaceholder(k, n) PROVE ViewFollows'
  <2>1. /\ session = "up" /\ UNCHANGED <<session, faults, view, stage, active, hasty>>
        /\ artifact[k] = NoNode /\ parent[n] = "none"
        /\ calls' = calls \cup {[kind |-> "import", key |-> k, node |-> n]}
    BY <1>1 DEF CreatePlaceholder, queue, past
  <2>2. /\ \A l \in Key : l # k => artifact'[l] = artifact[l]
        /\ \A m \in Node : m # n => parent'[m] = parent[m]
    BY <1>1 DEF CreatePlaceholder, TypeOK
  <2>3. \A l \in Key : artifact[l] # n
    BY <2>1, NodeAssumption, PlaceAssumption DEF NodesKept
  <2>4. \A l \in Key : l # k => Status(l)' = Status(l)
    BY <1>0, <2>2, <2>3, StatusStands DEF TypeOK
  <2>5. ToBeDispatched(k[1])' /\ \A v \in Version : ToBeDispatched(v) => ToBeDispatched(v)'
    <3>1. \E c \in calls' : c.key = k
      <4> DEFINE d == [kind |-> "import", key |-> k, node |-> n]
      <4>1. d \in calls' /\ d.key = k
        BY <2>1
      <4> QED
        BY <4>1
    <3> QED
      BY <2>1, <3>1 DEF ToBeDispatched
  <2> QED
    BY <2>1, <2>2, <2>4, <2>5 DEF ViewFollows, Key
<1>2. ASSUME NEW k \in Key, DeleteArtifact(k) PROVE ViewFollows'
  <2>1. /\ session = "up" /\ UNCHANGED <<session, faults, view, stage, active>>
        /\ artifact[k] \in Node
    BY <1>0, <1>2 DEF DeleteArtifact, queue, TypeOK
  <2>2. /\ hasty \subseteq hasty'
        /\ \A v \in Version : ToBeDispatched(v) => ToBeDispatched(v)'
    <3>1. calls \subseteq calls' /\ hasty \subseteq hasty'
      BY <1>2 DEF DeleteArtifact
    <3> QED
      BY <2>1, <3>1 DEF ToBeDispatched
  <2>3. CASE UNCHANGED <<artifact, parent>>
    BY <2>1, <2>2, <2>3 DEF ViewFollows, Status, Key
  <2>4. CASE /\ artifact' = [artifact EXCEPT ![k] = NoNode]
             /\ parent' = [parent EXCEPT ![artifact[k]] = "queue"]
             /\ calls' = calls \cup {[kind |-> "delete", key |-> k, node |-> artifact[k]]}
    <3>1. \A l \in Key : l # k => artifact'[l] = artifact[l] /\ artifact[l] # artifact[k]
      BY <2>1, <2>4, NodeAssumption DEF NodesKept, TypeOK
    <3>2. \A l \in Key : l # k => Status(l)' = Status(l)
      BY <1>0, <2>1, <2>4, <3>1, StatusStands DEF TypeOK
    <3>3. ToBeDispatched(k[1])'
      <4>1. \E c \in calls' : c.key = k
        <5> DEFINE d == [kind |-> "delete", key |-> k, node |-> artifact[k]]
        <5>1. d \in calls' /\ d.key = k
          BY <2>4
        <5> QED
          BY <5>1
      <4> QED
        BY <4>1 DEF ToBeDispatched
    <3> QED
      BY <2>1, <2>2, <3>1, <3>2, <3>3 DEF ViewFollows, Key
  <2> QED
    BY <1>2, <2>3, <2>4 DEF DeleteArtifact
<1>3. ASSUME NEW v \in Version, Dispatched(v), UNCHANGED <<artifact, parent, session, faults, hasty>>,
             session = "up",
             \A w \in Version : w # v /\ ToBeDispatched(w) => ToBeDispatched(w)'
      PROVE  ViewFollows'
  <2>1. \A k \in Key : /\ Status(k)' = Status(k)
                       /\ view'[k] = IF k[1] = v /\ view[k] # "unloaded" THEN Status(k) ELSE view[k]
    BY <1>3 DEF Dispatched, Status
  <2> QED
    BY <1>3, <2>1 DEF ViewFollows, Key
<1>4. ASSUME NEW c \in calls, FinishCall(c) PROVE ViewFollows'
  <2>1. c.key[1] \in Version /\ session = "up"
    BY <1>0, CallsAreJobs DEF Key, TypeOK
  <2>2. /\ Dispatched(c.key[1]) /\ UNCHANGED <<artifact, parent, session, faults, hasty, stage>>
        /\ calls' = calls \ {c}
    BY <1>4 DEF FinishCall, db
  <2>3. stage = "replaced" => active \subseteq active'
    <3> SUFFICES ASSUME stage = "replaced" PROVE active \subseteq active'
      OBVIOUS
    <3> QED
      BY <1>4 DEF FinishCall, EmitJob, Jobs!Accept
  <2>4. \A w \in Version : w # c.key[1] /\ ToBeDispatched(w) => ToBeDispatched(w)'
    BY <2>2, <2>3 DEF ToBeDispatched
  <2> QED
    BY <1>3, <2>1, <2>2, <2>4
<1>5. ASSUME UNCHANGED <<artifact, parent, session, view, hasty>>, faults' = 0 => faults = 0,
             session = "up" /\ faults' = 0 =>
               \A w \in Version : ToBeDispatched(w) => ToBeDispatched(w)'
      PROVE  ViewFollows'
  BY <1>5 DEF ViewFollows, Status, Key
<1>6. ASSUME NEW j \in active, JobStep(j) PROVE ViewFollows'
  <2>0. active = {j} /\ session = "up" /\ j \in Job
    BY <1>0, <1>6 DEF SlotInv, TypeOK, Job
  <2>1. CASE FillNode(j)
    <3>1. \A w \in Version : ToBeDispatched(w) => ToBeDispatched(w)'
      BY <2>1 DEF FillNode, ToBeDispatched
    <3> QED
      BY <1>5, <2>1, <3>1 DEF FillNode, past
  <2>2. CASE FillRefused(j) \/ ReplaceRefused(j) \/ FinishCleanup(j)
    <3>1. stage # "replaced" /\ UNCHANGED <<artifact, parent, session, view, hasty, faults, calls>>
      BY <2>2 DEF FillRefused, ReplaceRefused, FinishCleanup, db, past
    <3>2. \A w \in Version : ToBeDispatched(w) => ToBeDispatched(w)'
      BY <3>1 DEF ToBeDispatched
    <3> QED
      BY <1>5, <3>1, <3>2
  <2>3. CASE ReplacePlaceholder(j)
    <3>1. /\ stage = "filled" /\ stage' = "replaced" /\ MoveToVersion(j) /\ j.kind = "import"
          /\ UNCHANGED <<artifact, active, waiting, calls, hasty, session, faults, view>>
      BY <2>3 DEF ReplacePlaceholder, past
    <3>2. j \in Unfinished /\ j.node \in Node /\ j.key \in Key
      BY <2>0, <3>1, ActiveIsDone, JobFields
    <3>3. \A n \in Node : n # j.node => parent'[n] = parent[n]
      BY <1>0, <3>1 DEF MoveToVersion, TypeOK
    <3>4. \A k \in Key : artifact[k] = j.node /\ j.node \notin hasty => k = j.key
      BY <3>1, <3>2, NodeAssumption DEF ArtifactsInv, JobsFit, NodesKept
    <3>5. \A k \in Key : artifact[k] # j.node => Status(k)' = Status(k)
      BY <1>0, <3>1, <3>3, StatusStands DEF TypeOK
    <3>6. ToBeDispatched(j.key[1])' /\ \A v \in Version : ToBeDispatched(v) => ToBeDispatched(v)'
      BY <3>1 DEF ToBeDispatched
    <3> QED
      BY <3>1, <3>4, <3>5, <3>6 DEF ViewFollows, Key
  <2>4. CASE FinishImport(j)
    <3>1. /\ j.key[1] \in Version /\ Dispatched(j.key[1])
          /\ UNCHANGED <<artifact, parent, session, faults, hasty, calls>>
      BY <2>0, <2>4, JobFields DEF FinishImport, db, past, Key
    <3>2. \A w \in Version : w # j.key[1] /\ ToBeDispatched(w) => ToBeDispatched(w)'
      BY <2>0, <3>1 DEF ToBeDispatched
    <3> QED
      BY <1>3, <2>0, <3>1, <3>2
  <2>5. CASE DeleteTree(j)
    <3>1. /\ stage = "start" /\ j.kind = "clean" /\ parent' = [parent EXCEPT ![j.node] = "none"]
          /\ UNCHANGED <<artifact, active, waiting, calls, hasty, session, faults, view>>
      BY <2>5 DEF DeleteTree, past
    <3>2. j \in Unfinished
      BY <3>1 DEF Unfinished, Queued
    <3>3. \A k \in Key : artifact[k] # j.node
      BY <3>1, <3>2 DEF NodesKept
    <3>4. \A k \in Key : Status(k)' = Status(k)
      BY <1>0, <3>1, <3>3, StatusStands DEF TypeOK
    <3>5. \A v \in Version : ToBeDispatched(v) => ToBeDispatched(v)'
      BY <3>1 DEF ToBeDispatched
    <3> QED
      BY <3>1, <3>4, <3>5 DEF ViewFollows, Key
  <2>6. CASE FailJob(j)
    <3>1. UNCHANGED <<artifact, parent, session, view, hasty>> /\ faults' # 0
      BY <1>0, <2>6 DEF FailJob, db, past
    <3> QED
      BY <1>5, <3>1
  <2> QED
    BY <1>6, <2>1, <2>2, <2>3, <2>4, <2>5, <2>6 DEF JobStep
<1>7. ASSUME NEW c \in calls, FailCall(c) PROVE ViewFollows'
  <2>1. UNCHANGED <<artifact, parent, session, view, hasty>> /\ faults' # 0
    BY <1>0, <1>7 DEF FailCall, db, past
  <2> QED
    BY <1>5, <2>1
<1>8. CASE StartStep \/ Crash
  <2>1. /\ \A k \in Key : view'[k] = "unloaded"
    BY <1>8 DEF StartStep, Crash, ReapBrokenImports, QueueCleanups, FailReap, ViewFollows
  <2> QED
    BY <2>1 DEF ViewFollows
<1>9. CASE LoadVersions
  <2>1. session' = "up" /\ \A k \in Key : view'[k] = Status(k) /\ Status(k)' = Status(k)
    BY <1>9 DEF LoadVersions, db, Status
  <2> QED
    BY <2>1 DEF ViewFollows
<1>10. CASE UNCHANGED vars
  <2>1. \A w \in Version : ToBeDispatched(w) => ToBeDispatched(w)'
    BY <1>10 DEF vars, ToBeDispatched
  <2> QED
    BY <1>5, <1>10, <2>1 DEF vars
<1> QED
  BY <1>1, <1>2, <1>4, <1>6, <1>7, <1>8, <1>9, <1>10 DEF Next, CallStep

(* The initial state satisfies the three. *)
LEMMA InitScheduleInv == Init => ScheduleInv
<1> SUFFICES ASSUME Init PROVE ScheduleInv
  OBVIOUS
<1>1. ArtifactsInv
  BY InitArtifactsInv
<1>2. calls = {} /\ Promised = {} /\ Unfinished = {}
  BY DEF Init, Jobs!Init, Promised, Unfinished, Queued, Elements
<1>3. NodesKept
  BY <1>2 DEF Init, NodesKept
<1>4. PlaceholdersAwaited /\ ViewFollows
  BY DEF Init, PlaceholdersAwaited, ViewFollows
<1> QED
  BY <1>1, <1>3, <1>4 DEF ScheduleInv

-----------------------------------------------------------------------------
(* What the database, the schedule and the renderer know of each other     *)
(* agrees after every transaction, however calls, jobs, failures, kills    *)
(* and the reuse of node numbers interleave.                               *)
THEOREM ScheduleInvHolds == Spec => []ScheduleInv
<1>1. ScheduleInv /\ [Next]_vars => ScheduleInv'
  BY NextArtifactsInv, NextNodesKept, NextPlaceholdersAwaited, NextViewFollows DEF ScheduleInv
<1> QED
  BY <1>1, InitScheduleInv, PTL DEF Spec

(* An artifact that can be played has the complete tree that was imported  *)
(* for it.                                                                 *)
THEOREM EnabledAlwaysComplete == Spec => []EnabledIsComplete
<1>1. ScheduleInv => EnabledIsComplete
  <2> SUFFICES ASSUME ScheduleInv, NEW k \in Key, Status(k) = "enabled", artifact[k] \notin hasty
               PROVE  tree[artifact[k]] = {k}
    BY DEF EnabledIsComplete
  <2>1. artifact[k] # NoNode /\ parent[artifact[k]] \notin {"none", "tmp", "queue"}
    BY DEF Status
  <2> QED
    BY <2>1 DEF ScheduleInv, ArtifactsInv, ArtifactsKept
<1> QED
  BY <1>1, ScheduleInvHolds, PTL

(* A cleanup job only ever deletes a node that no artifact has, and in the *)
(* cleanup queue but for what its import took out of it.                   *)
THEOREM CleanupsHitObsolete == Spec => []CleanupTargetsObsolete
<1>1. ScheduleInv => CleanupTargetsObsolete
  <2> SUFFICES ASSUME ScheduleInv, NEW j \in Queued, j.kind = "clean",
                      ~(j \in active /\ stage = "cleaned")
               PROVE  /\ j.node \notin hasty => parent[j.node] = "queue"
                      /\ \A k \in Key : artifact[k] # j.node
    BY DEF CleanupTargetsObsolete
  <2>1. j \in active => stage # "replaced"
    BY DEF ScheduleInv, ArtifactsInv, SlotInv
  <2>2. j \in Unfinished
    BY <2>1 DEF Unfinished
  <2> QED
    BY <2>2 DEF ScheduleInv, ArtifactsInv, JobsFit, NodesKept
<1> QED
  BY <1>1, ScheduleInvHolds, PTL

(* No node outside the cleanup queue is without an artifact, and no        *)
(* artifact without a directory entry.                                     *)
THEOREM NoNodeIsLeaked == Spec => []NoNodeLeaked
<1>1. ScheduleInv => NoNodeLeaked
  BY DEF ScheduleInv, ArtifactsInv, NodesAccounted, NodesKept, NoNodeLeaked
<1> QED
  BY <1>1, ScheduleInvHolds, PTL

(* A session in which nothing fails keeps no placeholder without its       *)
(* import, but for one that was refused.                                   *)
THEOREM PlaceholdersHaveJobs == Spec => []PlaceholderHasJob
<1>1. ScheduleInv => PlaceholderHasJob
  BY DEF ScheduleInv, PlaceholdersAwaited, PlaceholderHasJob, Unfinished
<1> QED
  BY <1>1, ScheduleInvHolds, PTL

(* Once all is done and nothing has failed, the renderer shows the truth.  *)
THEOREM ViewsConverge == Spec => []ViewConverges
<1>1. ScheduleInv => ViewConverges
  BY DEF ScheduleInv, ViewFollows, ToBeDispatched, ViewConverges
<1> QED
  BY <1>1, ScheduleInvHolds, PTL
=============================================================================
