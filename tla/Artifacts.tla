----------------------------- MODULE Artifacts -----------------------------
(***************************************************************************)
(* The life of the artifacts of a game: placeholder, import, replacement   *)
(* of the placeholder, deletion, cleanup, and the repair of what an        *)
(* earlier session left behind (ArtifactsOperationSchedule.mts,            *)
(* DefaultArtifactOperationService.mts), over the database tables          *)
(* game_version_artifact and node_member, the job queue of the schedule    *)
(* (JobQueue, with one slot) and the renderer's view of the versions.      *)
(*                                                                         *)
(* A step is one database transaction of the main process, with the code   *)
(* up to the next await.  What happens to the content of the files is in   *)
(* BlobStore, what happens inside the scheduler in JobTracker.             *)
(***************************************************************************)
EXTENDS Queues, FiniteSets

CONSTANTS
  Version,     \* the versions of the game
  Platform,    \* the platforms an artifact can be for
  Node,        \* node numbers; a freed number may be given out again
  NoNode,      \* not a node
  Random,      \* a directory entry name made unique by randomblob, or none
  MaxHasty,    \* bound: nodes deleted while still placeholders
  MaxFaults,   \* bound: failing steps per session
  MaxCrashes   \* bound: how often the application is killed

Key == Version \X Platform        \* primary key of game_version_artifact

ASSUME NodeAssumption == NoNode \notin Node /\ IsFiniteSet(Node)
ASSUME NameAssumption == Platform \cap Key = {} /\ Random \notin Key \cup Platform
ASSUME PlaceAssumption == Version \cap {"none", "tmp", "queue"} = {}
ASSUME BoundAssumption == MaxHasty \in Nat /\ MaxFaults \in Nat /\ MaxCrashes \in Nat

Places   == {"none", "tmp", "queue"} \cup Version
Names    == Key \cup Platform \cup {Random}
Statuses == {"unloaded", "none", "disabled", "enabled"}
Sessions == {"starting", "reaped", "up"}
Stages   == {"start", "filled", "replaced", "cleaned"}

ImportJob == [kind : {"import"}, key : Key, node : Node]
CleanJob  == [kind : {"clean"}, node : Node]
Call      == [kind : {"import", "delete"}, key : Key, node : Node]

(* Job.id: import-from-fs:<game>-<version>-<platform>, dbfs-node-cleanup-N *)
JobId == [j \in ImportJob \cup CleanJob |->
            IF j.kind = "import" THEN <<"import", j.key>> ELSE <<"clean", j.node>>]

VARIABLES
  artifact,  \* game_version_artifact: the node of each artifact, or NoNode
  parent,    \* node_member: the import directory (tmp), the cleanup queue, or
             \* the directory of a version below the artifacts directory
  label,     \* node_member.name: <game>-<version>-<platform>, the platform, random
  tree,      \* what the worker has inserted below each node: the artifacts it
             \* was imported for
  active,    \* the job that has the slot of the schedule
  waiting,   \* the jobs that wait for it
  stage,     \* where the active job is
  calls,     \* remote calls between their transaction and their end
  view,      \* what the renderer shows of each artifact
  hasty,     \* the nodes that were deleted while still placeholders
  dropped,   \* jobs refused in this session, by the scheduler as duplicates,
             \* or by the database because of a name or a number
  rejected,  \* deletions of enabled artifacts that the database refused
  session,   \* start of the application, up to the first check
  faults,    \* failing steps in this session
  crashes

vars == <<artifact, parent, label, tree, active, waiting, stage, calls, view,
          hasty, dropped, rejected, session, faults, crashes>>
db    == <<artifact, parent, label, tree>>
queue == <<active, waiting, stage>>
past  == <<hasty, dropped, rejected>>

Jobs == INSTANCE JobQueue
          WITH Job <- ImportJob \cup CleanJob, IdOf <- JobId, Slots <- 1

Queued == active \cup Elements(waiting)

Init ==
  /\ artifact = [k \in Key |-> NoNode]
  /\ parent = [n \in Node |-> "none"]
  /\ label = [n \in Node |-> Random]
  /\ tree = [n \in Node |-> {}]
  /\ Jobs!Init /\ stage = "start"
  /\ calls = {} /\ hasty = {} /\ dropped = {} /\ rejected = {}
  /\ view = [k \in Key |-> "unloaded"]
  /\ session = "starting"
  /\ faults = 0 /\ crashes = 0

-----------------------------------------------------------------------------
(* The renderer's view: DefaultGameVersionService and game-versions.mts.   *)

(* disabled: no directory entry, or one in a disabling directory. *)
Status(k) ==
  IF artifact[k] = NoNode THEN "none"
  ELSE IF parent[artifact[k]] \in {"none", "tmp", "queue"} THEN "disabled"
  ELSE "enabled"

(* Mutant: the renderer is not told. *)
NotDispatched(v) == UNCHANGED view

(* retrieveVersionInfoForGame and dispatch(gameVersionUpdated) for one     *)
(* version; the reducer ignores games whose versions are not loaded.       *)
Dispatched(v) ==
  view' = [k \in Key |->
             IF k[1] = v /\ view[k] # "unloaded" THEN Status(k) ELSE view[k]]

(* loadGameVersionsForGame, when the page of the game is opened. *)
LoadVersions ==
  /\ session = "up"
  /\ view' = [k \in Key |-> Status(k)]
  /\ UNCHANGED <<db, queue, calls, past, session, faults, crashes>>

-----------------------------------------------------------------------------
(* The remote procedures of ArtifactsOperationSchedule.                    *)

(* u__node_no_parent__name *)
NameTaken(p, name) == \E m \in Node : parent[m] = p /\ label[m] = name

(* createArtifactPlaceholder: primary key and u__node_no_parent__name must *)
(* allow it, otherwise the transaction rolls back and nothing happens.     *)
CreatePlaceholder(k, n) ==
  /\ session = "up"
  /\ artifact[k] = NoNode
  /\ parent[n] = "none"
  /\ ~NameTaken("tmp", k)
  /\ artifact' = [artifact EXCEPT ![k] = n]
  /\ parent' = [parent EXCEPT ![n] = "tmp"]
  /\ label' = [label EXCEPT ![n] = k]
  /\ calls' = calls \cup {[kind |-> "import", key |-> k, node |-> n]}
  /\ UNCHANGED <<tree, queue, view, past, session, faults, crashes>>

(* Mutant: the directory entry stays where it is. *)
DeleteArtifactRowOnly(k) ==
  /\ session = "up"
  /\ view[k] = "enabled"
  /\ artifact[k] # NoNode
  /\ artifact' = [artifact EXCEPT ![k] = NoNode]
  /\ calls' = calls \cup {[kind |-> "delete", key |-> k, node |-> artifact[k]]}
  /\ UNCHANGED <<parent, label, tree, queue, view, past, session, faults,
                 crashes>>

(* deleteArtifact, first transaction.  GameVersionArtifacts.tsx calls it   *)
(* for artifacts it shows as enabled only; there is no other guard.  In    *)
(* the cleanup queue the entry keeps the name it had.                      *)
DeleteArtifact(k) ==
  /\ session = "up"
  /\ view[k] = "enabled"
  /\ artifact[k] # NoNode
  /\ \/ /\ NameTaken("queue", label[artifact[k]])
        /\ rejected' = IF Status(k) = "enabled" THEN rejected \cup {k} ELSE rejected
        /\ UNCHANGED <<artifact, parent, calls, hasty>>
     \/ /\ ~NameTaken("queue", label[artifact[k]])
        /\ parent[artifact[k]] = "tmp" => Cardinality(hasty) < MaxHasty
        /\ artifact' = [artifact EXCEPT ![k] = NoNode]
        /\ parent' = [parent EXCEPT ![artifact[k]] = "queue"]
        /\ calls' = calls \cup {[kind |-> "delete", key |-> k, node |-> artifact[k]]}
        /\ hasty' = IF parent[artifact[k]] = "tmp" THEN hasty \cup {artifact[k]} ELSE hasty
        /\ UNCHANGED rejected
  /\ UNCHANGED <<label, tree, queue, view, dropped, session, faults,
                 crashes>>

JobOf(c) ==
  IF c.kind = "import"
  THEN [kind |-> "import", key |-> c.key, node |-> c.node]
  ELSE [kind |-> "clean", node |-> c.node]

(* queueJobs: a job whose id is known is logged and dropped. *)
IdKnown(j) == \E q \in Queued : JobId[q] = JobId[j]

EmitJob(j) ==
  IF IdKnown(j)
  THEN dropped' = dropped \cup {j} /\ UNCHANGED <<active, waiting>>
  ELSE Jobs!Accept(j) /\ UNCHANGED dropped

(* The rest of both calls: the renderer is told, the job is emitted. *)
FinishCall(c) ==
  /\ c \in calls
  /\ calls' = calls \ {c}
  /\ Dispatched(c.key[1])
  /\ EmitJob(JobOf(c))
  /\ UNCHANGED <<db, stage, hasty, rejected, session, faults, crashes>>

(* retrieveVersionInfoForGame throws: neither happens. *)
FailCall(c) ==
  /\ c \in calls
  /\ faults < MaxFaults
  /\ faults' = faults + 1
  /\ calls' = calls \ {c}
  /\ UNCHANGED <<db, queue, view, past, session, crashes>>

-----------------------------------------------------------------------------
(* The jobs.                                                               *)

Complete(j) == Jobs!Complete(j) /\ stage' = "start"

(* importFromFsNode: the worker inserts the tree below the node, which it   *)
(* knows by its number.  Without the node, only an empty tree can be.      *)
FillNode(j) ==
  /\ j \in active /\ j.kind = "import" /\ stage = "start"
  /\ IF parent[j.node] = "none" THEN UNCHANGED tree
     ELSE tree' = [tree EXCEPT ![j.node] = @ \cup {j.key}]
  /\ stage' = "filled"
  /\ UNCHANGED <<artifact, parent, label, active, waiting, calls, view,
                 past, session, faults, crashes>>

(* A foreign key or u__node_no_parent__name does not allow a row: nothing  *)
(* is inserted, the job fails.                                             *)
FillRefused(j) ==
  /\ j \in active /\ j.kind = "import" /\ stage = "start"
  /\ parent[j.node] = "none" \/ tree[j.node] # {}
  /\ dropped' = dropped \cup {j}
  /\ Complete(j)
  /\ UNCHANGED <<db, calls, view, hasty, rejected, session, faults, crashes>>

(* The name in the directory of the version is that of another node. *)
Occupied(j) ==
  LET v == j.key[1]
      p == j.key[2]
  IN NameTaken(v, p) /\ <<parent[j.node], label[j.node]>> # <<v, p>>

(* The update of node_member: the node moves to the directory of its       *)
(* version, whatever directory it is in; an update of no row is no error.  *)
MoveToVersion(j) ==
  IF parent[j.node] = "none" THEN UNCHANGED <<parent, label>>
  ELSE /\ ~Occupied(j)
       /\ parent' = [parent EXCEPT ![j.node] = j.key[1]]
       /\ label' = [label EXCEPT ![j.node] = j.key[2]]

(* Mutant: the placeholder is replaced before the import. *)
ReplaceTooEarly(j) ==
  /\ j \in active /\ j.kind = "import" /\ stage = "start"
  /\ MoveToVersion(j)
  /\ UNCHANGED <<artifact, tree, queue, calls, view, past, session,
                 faults, crashes>>

(* Likewise for the new place of the node. *)
ReplaceRefused(j) ==
  /\ j \in active /\ j.kind = "import" /\ stage = "filled"
  /\ parent[j.node] # "none" /\ Occupied(j)
  /\ dropped' = dropped \cup {j}
  /\ Complete(j)
  /\ UNCHANGED <<db, calls, view, hasty, rejected, session, faults, crashes>>

(* replaceArtifactPlaceholder. *)
ReplacePlaceholder(j) ==
  /\ j \in active /\ j.kind = "import" /\ stage = "filled"
  /\ MoveToVersion(j)
  /\ stage' = "replaced"
  /\ UNCHANGED <<artifact, tree, active, waiting, calls, view, past,
                 session, faults, crashes>>

FinishImport(j) ==
  /\ j \in active /\ j.kind = "import" /\ stage = "replaced"
  /\ Dispatched(j.key[1])
  /\ Complete(j)
  /\ UNCHANGED <<db, calls, past, session, faults, crashes>>

(* Mutant: the number of the node is freed, its directory entry is not. *)
DeleteTreeKeepsEntry(j) ==
  /\ j \in active /\ j.kind = "clean" /\ stage = "start"
  /\ tree' = [tree EXCEPT ![j.node] = {}]
  /\ stage' = "cleaned"
  /\ UNCHANGED <<artifact, parent, label, active, waiting, calls, view,
                 past, session, faults, crashes>>

(* DbfsNodeCleanupJob, the transaction that deletes the tree of the node. *)
DeleteTree(j) ==
  /\ j \in active /\ j.kind = "clean" /\ stage = "start"
  /\ parent' = [parent EXCEPT ![j.node] = "none"]
  /\ label' = [label EXCEPT ![j.node] = Random]
  /\ tree' = [tree EXCEPT ![j.node] = {}]
  /\ stage' = "cleaned"
  /\ UNCHANGED <<artifact, active, waiting, calls, view, past, session,
                 faults, crashes>>

(* The rest of it, on the content store. *)
FinishCleanup(j) ==
  /\ j \in active /\ j.kind = "clean" /\ stage = "cleaned"
  /\ Complete(j)
  /\ UNCHANGED <<db, calls, view, past, session, faults, crashes>>

(* Mutant: a job that fails is queued again, whatever it has done already. *)
FailJobRetried(j) ==
  /\ j \in active
  /\ faults < MaxFaults
  /\ faults' = faults + 1
  /\ active' = {Head(Append(waiting, j))} /\ waiting' = Tail(Append(waiting, j))
  /\ stage' = "start"
  /\ UNCHANGED <<db, calls, view, past, session, crashes>>

(* run throws at any of its steps; the scheduler logs it and goes on. *)
FailJob(j) ==
  /\ j \in active
  /\ faults < MaxFaults
  /\ faults' = faults + 1
  /\ Complete(j)
  /\ UNCHANGED <<db, calls, view, past, session, crashes>>

-----------------------------------------------------------------------------
(* Start of the application: the first checkSchedule, #reapBrokenImports.  *)

(* Mutant: broken imports are left in the import directory. *)
ReapNothing ==
  /\ session = "starting"
  /\ session' = "reaped"
  /\ UNCHANGED <<db, queue, calls, view, past, faults, crashes>>

(* The nodes of the import directory that an artifact refers to move to    *)
(* the cleanup queue under random names; then the artifacts whose nodes    *)
(* are in the cleanup queue are deleted.                                   *)
Broken == {n \in Node : parent[n] = "tmp" /\ \E k \in Key : artifact[k] = n}

ReapBrokenImports ==
  /\ session = "starting"
  /\ session' = "reaped"
  /\ parent' = [n \in Node |-> IF n \in Broken THEN "queue" ELSE parent[n]]
  /\ label' = [n \in Node |-> IF n \in Broken THEN Random ELSE label[n]]
  /\ artifact' = [k \in Key |->
                    IF artifact[k] \in Node /\ parent'[artifact[k]] = "queue"
                    THEN NoNode ELSE artifact[k]]
  /\ UNCHANGED <<tree, queue, calls, view, past, faults, crashes>>

InQueue == {n \in Node : parent[n] = "queue"}

(* Mutant: the nodes of the import directory are cleaned up. *)
QueueImports ==
  /\ session = "reaped"
  /\ session' = "up"
  /\ \E order \in [1 .. Cardinality(Node) -> Node] :
       LET imports == {n \in Node : parent[n] # "none"}
           job == [i \in 1 .. Cardinality(imports) |->
                     [kind |-> "clean", node |-> order[i]]] IN
       /\ {order[i] : i \in DOMAIN job} = imports
       /\ IF imports = {} THEN UNCHANGED <<active, waiting>>
          ELSE active' = {Head(job)} /\ waiting' = Tail(job)
  /\ UNCHANGED <<db, stage, calls, view, past, faults, crashes>>

(* The nodes of the cleanup queue are listed, in any order, and a job for  *)
(* each is queued (the content cleanup that follows them is in BlobStore). *)
QueueCleanups ==
  /\ session = "reaped"
  /\ session' = "up"
  /\ \E order \in [1 .. Cardinality(InQueue) -> InQueue] :
       LET job == [i \in DOMAIN order |-> [kind |-> "clean", node |-> order[i]]] IN
       /\ {order[i] : i \in DOMAIN order} = InQueue
       /\ IF InQueue = {} THEN UNCHANGED <<active, waiting>>
          ELSE active' = {Head(job)} /\ waiting' = Tail(job)
  /\ UNCHANGED <<db, stage, calls, view, past, faults, crashes>>

(* One of the two fails; `startup` is false by then, so it is not tried    *)
(* again in this session.                                                  *)
FailReap ==
  /\ session \in {"starting", "reaped"}
  /\ faults < MaxFaults
  /\ faults' = faults + 1
  /\ session' = "up"
  /\ UNCHANGED <<db, queue, calls, view, past, crashes>>

(* The application is killed; the database stays. *)
Crash ==
  /\ crashes < MaxCrashes
  /\ crashes' = crashes + 1
  /\ session' = "starting"
  /\ active' = {} /\ waiting' = <<>> /\ stage' = "start"
  /\ calls' = {} /\ dropped' = {} /\ rejected' = {}
  /\ view' = [k \in Key |-> "unloaded"]
  /\ faults' = 0
  /\ UNCHANGED <<db, hasty>>

CallStep(c) == FinishCall(c) \/ FailCall(c)

JobStep(j) ==
  \/ FillNode(j) \/ FillRefused(j)
  \/ ReplacePlaceholder(j) \/ ReplaceRefused(j) \/ FinishImport(j)
  \/ DeleteTree(j) \/ FinishCleanup(j) \/ FailJob(j)

StartStep == ReapBrokenImports \/ QueueCleanups \/ FailReap

Next ==
  \/ \E k \in Key, n \in Node : CreatePlaceholder(k, n)
  \/ \E k \in Key : DeleteArtifact(k)
  \/ \E c \in calls : CallStep(c)
  \/ \E j \in active : JobStep(j)
  \/ StartStep
  \/ LoadVersions
  \/ Crash

Spec == Init /\ [][Next]_vars

(* The main process goes on with what it has begun; the calls that wait    *)
(* for the database connection get it in turn (ConnectionMutex).           *)
Fairness ==
  /\ \A c \in Call : WF_vars(CallStep(c))
  /\ WF_vars(\E j \in active : JobStep(j))
  /\ WF_vars(StartStep)

FairSpec == Spec /\ Fairness
-----------------------------------------------------------------------------
(* The values the variables take. *)
TypeOK ==
  /\ artifact \in [Key -> Node \cup {NoNode}]
  /\ parent \in [Node -> Places]
  /\ label \in [Node -> Names]
  /\ tree \in [Node -> SUBSET Key]
  /\ active \in SUBSET (ImportJob \cup CleanJob)
  /\ waiting \in Seq(ImportJob \cup CleanJob)
  /\ stage \in Stages
  /\ calls \in SUBSET Call
  /\ view \in [Key -> Statuses]
  /\ hasty \in SUBSET Node
  /\ dropped \in SUBSET (ImportJob \cup CleanJob)
  /\ rejected \in SUBSET Key
  /\ session \in Sessions
  /\ faults \in 0 .. MaxFaults
  /\ crashes \in 0 .. MaxCrashes

(* The jobs that have yet to do what they are for: those a call is about   *)
(* to emit, and those of the schedule.                                     *)
Promised   == {JobOf(c) : c \in calls}
Unfinished == {j \in Queued : ~(j \in active /\ stage \in {"replaced", "cleaned"})}

(* One job at a time has the slot, each is there once, and an earlier      *)
(* session leaves none.                                                    *)
SlotInv ==
  /\ session # "up" => calls = {} /\ active = {}
  /\ active = {} => waiting = <<>> /\ stage = "start"
  /\ \A i, j \in active : i = j
  /\ \A j \in active :
       stage \in {"start"} \cup (IF j.kind = "import" THEN {"filled", "replaced"} ELSE {"cleaned"})
  /\ Distinct(waiting) /\ active \cap Elements(waiting) = {}

(* Nothing is promised twice to a node.  Here and below: but for nodes     *)
(* that were deleted while their import was on the way, which knows them   *)
(* by their numbers only.                                                  *)
PromisedOnce ==
  \A c \in calls :
    c.node \notin hasty =>
      /\ JobOf(c) \notin Unfinished
      /\ \A d \in calls : d.node = c.node => d = c

(* Whom a job is for: an import has its placeholder, a cleanup finds its   *)
(* node in the cleanup queue.                                              *)
JobsFit ==
  \A j \in Promised \cup Unfinished :
    j.node \notin hasty =>
      /\ j.kind = "import" =>
           /\ artifact[j.key] = j.node /\ parent[j.node] = "tmp"
           /\ j \in active /\ stage = "filled" => tree[j.node] = {j.key}
      /\ j.kind = "clean" => parent[j.node] = "queue"

(* A node is free and empty, or in the cleanup queue, or has its artifact. *)
NodesAccounted ==
  \A n \in Node \ hasty :
    /\ parent[n] = "none" => tree[n] = {}
    /\ parent[n] \in {"tmp"} \cup Version => \E k \in Key : artifact[k] = n

(* An artifact has a node of its own, with nothing of another artifact.    *)
ArtifactsKept ==
  \A k \in Key :
    artifact[k] \notin hasty \cup {NoNode} =>
      /\ parent[artifact[k]] \in {"tmp"} \cup Version
      /\ tree[artifact[k]] \subseteq {k}
      /\ parent[artifact[k]] \in Version => tree[artifact[k]] = {k}
      /\ \A l \in Key : artifact[l] = artifact[k] => l = k

(* What artifacts, nodes and jobs know of each other agrees, through calls *)
(* that end in any order, refused and failed jobs, kills, and numbers      *)
(* given out again.  It is inductive.                                      *)
ArtifactsInv ==
  TypeOK /\ SlotInv /\ PromisedOnce /\ JobsFit /\ NodesAccounted /\ ArtifactsKept

(* Also of the nodes that were deleted as placeholders: an artifact has a   *)
(* node of its own, outside the cleanup queue; a cleanup is promised once  *)
(* to a node, which is still there and no artifact has.                    *)
NodesKept ==
  /\ \A k \in Key :
       artifact[k] # NoNode =>
         /\ parent[artifact[k]] \in {"tmp"} \cup Version
         /\ \A l \in Key : artifact[l] = artifact[k] => l = k
  /\ \A j \in Promised \cup Unfinished :
       j.kind = "clean" => parent[j.node] # "none" /\ \A k \in Key : artifact[k] # j.node
  /\ \A c \in calls :
       c.kind = "delete" =>
         /\ JobOf(c) \notin Unfinished
         /\ \A d \in calls : d.kind = "delete" /\ d.node = c.node => d = c

ImportOf(k) == [kind |-> "import", key |-> k, node |-> artifact[k]]

IsPlaceholder(k) == artifact[k] # NoNode /\ parent[artifact[k]] = "tmp"

(* The import of a placeholder is still to come or was refused, unless     *)
(* something failed; the start of a session leaves no placeholder.         *)
PlaceholdersAwaited ==
  /\ session = "up" /\ faults = 0 =>
       \A k \in Key : IsPlaceholder(k) => ImportOf(k) \in calls \cup Unfinished \cup dropped
  /\ session = "reaped" => \A k \in Key : ~IsPlaceholder(k)

(* The renderer is about to be told of a version. *)
ToBeDispatched(v) ==
  \/ \E c \in calls : c.key[1] = v
  \/ stage = "replaced" /\ \E j \in active : j.key[1] = v

(* What the renderer shows is true or about to be corrected. *)
ViewFollows ==
  /\ session # "up" => \A k \in Key : view[k] = "unloaded"
  /\ session = "up" /\ faults = 0 =>
       \A k \in Key :
         artifact[k] \notin hasty =>
           view[k] \in {"unloaded", Status(k)} \/ ToBeDispatched(k[1])

(* What the database, the schedule and the renderer know of each other     *)
(* agrees.  It is inductive.                                               *)
ScheduleInv ==
  ArtifactsInv /\ NodesKept /\ PlaceholdersAwaited /\ ViewFollows

(* An artifact that can be played has been imported completely, from the   *)
(* directory that was chosen for it: failures, crashes and the reuse of    *)
(* node numbers never show a partial tree or that of another artifact.      *)
EnabledIsComplete ==
  \A k \in Key :
    Status(k) = "enabled" /\ artifact[k] \notin hasty => tree[artifact[k]] = {k}

(* A cleanup job that has not run yet is for a node that no artifact has,  *)
(* in the cleanup queue unless its import moved it: it cannot hit a node    *)
(* number that was given out again.                                        *)
CleanupTargetsObsolete ==
  \A j \in Queued :
    j.kind = "clean" /\ ~(j \in active /\ stage = "cleaned") =>
      /\ j.node \notin hasty => parent[j.node] = "queue"
      /\ \A k \in Key : artifact[k] # j.node

(* Every tree belongs to an artifact or is in the cleanup queue, where the *)
(* next start finds it, and every artifact has a directory entry, although *)
(* no foreign key says so.                                                 *)
NoNodeLeaked ==
  /\ \A n \in Node \ hasty :
       parent[n] \in {"tmp"} \cup Version => \E k \in Key : artifact[k] = n
  /\ \A k \in Key :
       artifact[k] # NoNode => parent[artifact[k]] \in {"tmp"} \cup Version

(* An artifact only stays a placeholder while its import is on its way,    *)
(* unless something failed in this session or the job was refused: an      *)
(* earlier session leaves nothing.                                         *)
PlaceholderHasJob ==
  session = "up" /\ faults = 0 =>
    \A k \in Key : IsPlaceholder(k) => ImportOf(k) \in Queued \cup calls \cup dropped

(* When nothing is going on and nothing has failed, a loaded view shows    *)
(* what is in the database.                                                *)
ViewConverges ==
  session = "up" /\ faults = 0 /\ calls = {} /\ active = {} =>
    \A k \in Key :
      artifact[k] \notin hasty => view[k] \in {"unloaded", Status(k)}

(* What is in the cleanup queue is deleted, unless something fails or its *)
(* import moves it out of the queue again.                                *)
QueueIsDrained ==
  \A n \in Node :
    parent[n] = "queue" ~> (parent[n] # "queue" \/ n \in hasty \/ faults > 0)

(* GameVersionArtifacts.tsx offers to "Delete the selected artifacts": the *)
(* database does not refuse the deletion of an enabled artifact.           *)
SelectedAreDeleted == rejected = {}
=============================================================================
