----------------------------- MODULE BlobStore -----------------------------
(***************************************************************************)
(* The content addressable store of imported files: rows of the table      *)
(* node_file_content, blobs in the blob_store directory, the worker that   *)
(* imports directories into them (NodeArtifactsIoService.mts) and the      *)
(* cleanup jobs of the main process that remove what is not referred to    *)
(* (DbfsContentCleanupJob.mts, DbfsNodeCleanupJob.mts, Delete.mts).        *)
(*                                                                         *)
(* The worker and the main process have a database connection each, so a  *)
(* step is one committed statement, one statement of an open transaction   *)
(* with the file operation that follows it, or one file operation.  Only   *)
(* one write transaction is open at a time (the write lock of SQLite);     *)
(* the importing jobs and the cleanup jobs take turns, but the files of a  *)
(* failed import are still being processed after its job has ended.        *)
(***************************************************************************)
EXTENDS Naturals

CONSTANTS
  Hash,        \* the content hashes (blake3_hash)
  Imports,     \* the import operations, each with the node tree it fills
  Files,       \* the files the operations find in the imported directories
  Owner,       \* the operation of each file
  MaxCrashes   \* bound: how often the process may be killed

JobKinds  == {"none", "startup", "content", "node"}
LockKinds == {"free", "purge"}

ASSUME OwnerAssumption == Owner \in [Files -> Imports]
ASSUME JobAssumption   == Imports \cap JobKinds = {}
ASSUME LockAssumption  == Files \cap LockKinds = {}
ASSUME CrashAssumption == MaxCrashes \in Nat

VARIABLES
  row,       \* node_file_content: no row, data inline, or data null (external)
  refs,      \* node_file: the hashes the files of each imported tree refer to
  blobs,     \* the files of the leaf directories of blob_store
  staged,    \* the temporary files in the _imports/stage-* directories
  stageDirs, \* the operations whose stage directory exists
  lock,      \* the transaction that holds the write lock
  import,    \* where each operation is
  file,      \* where the processing of each file is
  hash,      \* the hash of the content read from each file
  job,       \* what the schedule (maxJobConcurrency = 1) is running
  step,      \* where the running cleanup job is
  pending,   \* the hashes the running cleanup job has not looked at yet
  batch,     \* the blobs passed to dbfsPurgeUnreferencedFileData
  doomed,    \* the blobs it has decided to unlink and has not tried yet
  skipped,   \* the blobs whose unlink failed in the running job
  crashes    \* how often the process has been killed

disk   == <<row, refs, blobs, staged, stageDirs>>
worker == <<import, file, hash>>
main   == <<job, step, pending, batch, doomed, skipped>>
vars   == <<row, refs, blobs, staged, stageDirs, lock, import, file, hash,
            job, step, pending, batch, doomed, skipped, crashes>>

RowStates    == {"none", "inline", "external"}
ImportStates == {"idle", "reaping", "cleaning", "removing", "reaped",
                 "done", "failed"}
InTx         == {"inserted", "duplicate", "moved", "dropped"}
FileStates   == {"idle", "listed", "reading", "copying", "copied", "stored", "failed"}
                  \cup InTx
Steps        == {"idle", "vacuum", "chunk", "purge", "unlinking"}

FilesOf(i)  == {f \in Files : Owner[f] = i}
Referenced  == UNION {refs[i] : i \in Imports}
External    == {h \in Hash : row[h] = "external"}
HasRow      == {h \in Hash : row[h] # "none"}
(* what a reader of the store can get: node_file_content and its blob *)
Readable    == {h \in Hash : \/ row[h] = "inline"
                             \/ row[h] = "external" /\ h \in blobs}

Init ==
  /\ row = [h \in Hash |-> "none"]
  /\ refs = [i \in Imports |-> {}]
  /\ blobs = {} /\ staged = {} /\ stageDirs = {}
  /\ lock = "free"
  /\ import = [i \in Imports |-> "idle"]
  /\ file = [f \in Files |-> "idle"]
  /\ hash \in [Files -> Hash]
  /\ job = "startup" /\ step = "idle"
  /\ pending = {} /\ batch = {} /\ doomed = {} /\ skipped = {}
  /\ crashes = 0

-----------------------------------------------------------------------------
(* The worker: one import operation.                                       *)

(* Mutant: maxJobConcurrency is not respected. *)
StartImportUnserialised(i) ==
  /\ import[i] = "idle"
  /\ import' = [import EXCEPT ![i] = "reaping"]
  /\ stageDirs' = stageDirs \cup {i}
  /\ UNCHANGED <<row, refs, blobs, staged, lock, file, hash, main, crashes>>

(* importFromFsNode: the stage directory is made and the walk begins. *)
StartImport(i) ==
  /\ job = "none"
  /\ import[i] = "idle"
  /\ job' = i
  /\ import' = [import EXCEPT ![i] = "reaping"]
  /\ stageDirs' = stageDirs \cup {i}
  /\ UNCHANGED <<row, refs, blobs, staged, lock, file, hash, step, pending,
                 batch, doomed, skipped, crashes>>

(* reapDirectory meets the file and starts importFile, whose stat is       *)
(* pending: from here on nothing stops the processing of the file.         *)
ListFile(f) ==
  /\ import[Owner[f]] = "reaping"
  /\ file[f] = "idle"
  /\ file' = [file EXCEPT ![f] = "listed"]
  /\ UNCHANGED <<disk, lock, import, hash, main, crashes>>

(* importFile, size at most the threshold: the content is being read. *)
StartSmall(f) ==
  /\ file[f] = "listed"
  /\ file' = [file EXCEPT ![f] = "reading"]
  /\ UNCHANGED <<disk, lock, import, hash, main, crashes>>

(* importFile, size above the threshold: the copy in the stage directory   *)
(* is created.                                                             *)
StartLarge(f) ==
  /\ file[f] = "listed"
  /\ Owner[f] \in stageDirs
  /\ file' = [file EXCEPT ![f] = "copying"]
  /\ staged' = staged \cup {f}
  /\ UNCHANGED <<row, refs, blobs, stageDirs, lock, import, hash, main, crashes>>

(* insertFileContent with the data, a statement of its own: on conflict do *)
(* nothing.                                                                *)
StoreSmall(f) ==
  /\ file[f] = "reading"
  /\ lock = "free"
  /\ row' = [row EXCEPT ![hash[f]] = IF @ = "none" THEN "inline" ELSE @]
  /\ file' = [file EXCEPT ![f] = "stored"]
  /\ UNCHANGED <<refs, blobs, staged, stageDirs, lock, import, hash, main, crashes>>

(* The copy is complete and its size is known; without the staged file the *)
(* stat fails (FailFile).                                                  *)
FinishCopy(f) ==
  /\ file[f] = "copying"
  /\ f \in staged
  /\ file' = [file EXCEPT ![f] = "copied"]
  /\ UNCHANGED <<disk, lock, import, hash, main, crashes>>

(* Mutant: the row is inserted without taking the write lock. *)
BeginStoreUnlocked(f) ==
  /\ file[f] = "copied"
  /\ file' = [file EXCEPT ![f] =
                IF row[hash[f]] = "none" THEN "inserted" ELSE "duplicate"]
  /\ UNCHANGED <<disk, lock, import, hash, main, crashes>>

(* The transaction of importLargeFile begins by inserting the row, which   *)
(* no other connection sees before the commit.                             *)
BeginStore(f) ==
  /\ file[f] = "copied"
  /\ lock = "free"
  /\ lock' = f
  /\ file' = [file EXCEPT ![f] =
                IF row[hash[f]] = "none" THEN "inserted" ELSE "duplicate"]
  /\ UNCHANGED <<disk, import, hash, main, crashes>>

(* newlyInserted: the staged file becomes the blob. *)
RenameBlob(f) ==
  /\ file[f] = "inserted"
  /\ f \in staged
  /\ staged' = staged \ {f}
  /\ blobs' = blobs \cup {hash[f]}
  /\ file' = [file EXCEPT ![f] = "moved"]
  /\ UNCHANGED <<row, refs, stageDirs, lock, import, hash, main, crashes>>

(* ~newlyInserted: the staged file is not needed. *)
DropStaged(f) ==
  /\ file[f] = "duplicate"
  /\ f \in staged
  /\ staged' = staged \ {f}
  /\ file' = [file EXCEPT ![f] = "dropped"]
  /\ UNCHANGED <<row, refs, blobs, stageDirs, lock, import, hash, main, crashes>>

CommitStore(f) ==
  /\ file[f] \in {"moved", "dropped"}
  /\ lock' = "free"
  /\ row' = IF file[f] = "moved" THEN [row EXCEPT ![hash[f]] = "external"] ELSE row
  /\ file' = [file EXCEPT ![f] = "stored"]
  /\ UNCHANGED <<refs, blobs, staged, stageDirs, import, hash, main, crashes>>

(* Mutant: the transaction of a failed import is left open. *)
RollbackStoreLeftOpen(f) ==
  /\ file[f] \in InTx
  /\ file' = [file EXCEPT ![f] = "failed"]
  /\ UNCHANGED <<disk, lock, import, hash, main, crashes>>

(* An exception in the transaction (rename, unlink, mkdir, commit): it is  *)
(* rolled back, the files stay where they are.                             *)
RollbackStore(f) ==
  /\ file[f] \in InTx
  /\ lock' = "free"
  /\ file' = [file EXCEPT ![f] = "failed"]
  /\ UNCHANGED <<disk, import, hash, main, crashes>>

(* An exception before it (read, copy, stat, a busy database). *)
FailFile(f) ==
  /\ file[f] \in {"listed", "reading", "copying", "copied"}
  /\ file' = [file EXCEPT ![f] = "failed"]
  /\ UNCHANGED <<disk, lock, import, hash, main, crashes>>

(* reapDirectory has returned: every file met by the walk is stored, and   *)
(* the empty stage directory is removed.                                   *)
FinishReap(i) ==
  /\ import[i] = "reaping"
  /\ \A f \in FilesOf(i) : file[f] \in {"idle", "stored"}
  /\ import' = [import EXCEPT ![i] = "reaped"]
  /\ stageDirs' = stageDirs \ {i}
  /\ UNCHANGED <<row, refs, blobs, staged, lock, file, hash, main, crashes>>

(* reapDirectory has thrown (a file of the directory, or its listing); the *)
(* other files of the Promise.all go on.                                   *)
FailReap(i) ==
  /\ import[i] = "reaping"
  /\ import' = [import EXCEPT ![i] = "cleaning"]
  /\ UNCHANGED <<disk, lock, file, hash, main, crashes>>

(* rm(stageDirPath, recursive) first removes the files it finds ... *)
RemoveStaged(i) ==
  /\ import[i] = "cleaning"
  /\ staged' = staged \ FilesOf(i)
  /\ import' = [import EXCEPT ![i] = "removing"]
  /\ UNCHANGED <<row, refs, blobs, stageDirs, lock, file, hash, main, crashes>>

(* ... and then the directory, which fails when a file has appeared in it. *)
RemoveStageDir(i) ==
  /\ import[i] = "removing"
  /\ stageDirs' = IF FilesOf(i) \cap staged = {} THEN stageDirs \ {i} ELSE stageDirs
  /\ import' = [import EXCEPT ![i] = "failed"]
  /\ job' = "none"
  /\ UNCHANGED <<row, refs, blobs, staged, lock, file, hash, step, pending,
                 batch, doomed, skipped, crashes>>

TreeHashes(i) == {hash[f] : f \in {g \in FilesOf(i) : file[g] = "stored"}}

(* One transaction inserts all nodes; node_file.blake3_hash is a foreign   *)
(* key, so it fails when the content row of a file has gone.               *)
InsertTree(i) ==
  /\ import[i] = "reaped"
  /\ lock = "free"
  /\ TreeHashes(i) \subseteq HasRow
  /\ refs' = [refs EXCEPT ![i] = TreeHashes(i)]
  /\ import' = [import EXCEPT ![i] = "done"]
  /\ job' = "none"
  /\ UNCHANGED <<row, blobs, staged, stageDirs, lock, file, hash, step, pending,
                 batch, doomed, skipped, crashes>>

(* Mutant: a failed job keeps its turn. *)
FailTreeKeepsTurn(i) ==
  /\ import[i] = "reaped"
  /\ import' = [import EXCEPT ![i] = "failed"]
  /\ UNCHANGED <<disk, lock, file, hash, main, crashes>>

FailTree(i) ==
  /\ import[i] = "reaped"
  /\ import' = [import EXCEPT ![i] = "failed"]
  /\ job' = "none"
  /\ UNCHANGED <<disk, lock, file, hash, step, pending, batch, doomed,
                 skipped, crashes>>

-----------------------------------------------------------------------------
(* The main process: cleanup jobs.                                         *)

(* Startup only: DbfsNodeCleanupJob without unlinkBlobs for a node of the  *)
(* cleanup queue.                                                          *)
DetachAtStartup(i) ==
  /\ job = "startup"
  /\ lock = "free"
  /\ refs[i] # {}
  /\ refs' = [refs EXCEPT ![i] = {}]
  /\ UNCHANGED <<row, blobs, staged, stageDirs, lock, worker, main, crashes>>

(* #reapBrokenImports has failed: no cleanup job exists in this session. *)
SkipStartup ==
  /\ job = "startup"
  /\ job' = "none"
  /\ UNCHANGED <<disk, lock, worker, step, pending, batch, doomed, skipped, crashes>>

(* Mutant: only the rows that hold their data are deleted. *)
DeleteContentInlineOnly ==
  /\ job = "startup"
  /\ lock = "free"
  /\ row' = [h \in Hash |->
               IF h \in Referenced \/ row[h] = "external" THEN row[h] ELSE "none"]
  /\ job' = "content"
  /\ step' = IF HasRow \subseteq Referenced THEN "chunk" ELSE "vacuum"
  /\ pending' = Hash
  /\ UNCHANGED <<refs, blobs, staged, stageDirs, lock, worker, batch, doomed,
                 skipped, crashes>>

(* DbfsContentCleanupJob: rows without a file are deleted; VACUUM follows  *)
(* when there were any, then the directories are listed.                   *)
DeleteContent ==
  /\ job = "startup"
  /\ lock = "free"
  /\ row' = [h \in Hash |-> IF h \in Referenced THEN row[h] ELSE "none"]
  /\ job' = "content"
  /\ step' = IF HasRow \subseteq Referenced THEN "chunk" ELSE "vacuum"
  /\ pending' = Hash
  /\ UNCHANGED <<refs, blobs, staged, stageDirs, lock, worker, batch, doomed,
                 skipped, crashes>>

Vacuum ==
  /\ step = "vacuum"
  /\ step' = "chunk"
  /\ UNCHANGED <<disk, lock, worker, job, pending, batch, doomed, skipped, crashes>>

(* One leaf directory D is listed; an empty listing is not purged. *)
ScanDirectory(D) ==
  /\ job = "content" /\ step = "chunk"
  /\ pending' = pending \ D
  /\ batch' = D \cap blobs
  /\ step' = IF D \cap blobs = {} THEN "chunk" ELSE "purge"
  /\ UNCHANGED <<disk, lock, worker, job, doomed, skipped, crashes>>

(* DbfsNodeCleanupJob with unlinkBlobs: the transaction that deletes the   *)
(* tree returns the hashes its files had.                                  *)
DetachTree(i) ==
  /\ job = "none"
  /\ lock = "free"
  /\ import[i] = "done"
  /\ refs[i] # {}
  /\ refs' = [refs EXCEPT ![i] = {}]
  /\ job' = "node" /\ step' = "chunk"
  /\ pending' = refs[i]
  /\ UNCHANGED <<row, blobs, staged, stageDirs, lock, worker, batch, doomed,
                 skipped, crashes>>

(* Mutant: the rows of a chunk are deleted though other trees use them. *)
DeleteChunkUnchecked(C) ==
  /\ job = "node" /\ step = "chunk"
  /\ lock = "free"
  /\ row' = [h \in Hash |-> IF h \in C THEN "none" ELSE row[h]]
  /\ batch' = C \cap External
  /\ step' = IF batch' = {} THEN "chunk" ELSE "purge"
  /\ pending' = pending \ C
  /\ UNCHANGED <<refs, blobs, staged, stageDirs, lock, worker, job, doomed,
                 skipped, crashes>>

(* The rows of one chunk C of them without a file are deleted, and those   *)
(* that were external are blobs to purge.                                  *)
DeleteChunk(C) ==
  /\ job = "node" /\ step = "chunk"
  /\ lock = "free"
  /\ row' = [h \in Hash |-> IF h \in C \ Referenced THEN "none" ELSE row[h]]
  /\ batch' = (C \ Referenced) \cap External
  /\ step' = IF batch' = {} THEN "chunk" ELSE "purge"
  /\ pending' = pending \ C
  /\ UNCHANGED <<refs, blobs, staged, stageDirs, lock, worker, job, doomed,
                 skipped, crashes>>

(* Mutant: the blobs are unlinked without looking again at the rows. *)
BeginPurgeBlindly ==
  /\ step = "purge"
  /\ lock = "free"
  /\ lock' = "purge"
  /\ doomed' = batch
  /\ batch' = {}
  /\ step' = "unlinking"
  /\ UNCHANGED <<disk, worker, job, pending, skipped, crashes>>

(* dbfsPurgeUnreferencedFileData: BEGIN IMMEDIATE, then the entries known  *)
(* to be external are taken out.                                           *)
BeginPurge ==
  /\ step = "purge"
  /\ lock = "free"
  /\ lock' = "purge"
  /\ doomed' = batch \ External
  /\ batch' = {}
  /\ step' = "unlinking"
  /\ UNCHANGED <<disk, worker, job, pending, skipped, crashes>>

(* Promise.allSettled: each unlink succeeds, or fails and is forgotten. *)
UnlinkBlob(h) ==
  /\ h \in doomed
  /\ doomed' = doomed \ {h}
  /\ blobs' = blobs \ {h}
  /\ UNCHANGED <<row, refs, staged, stageDirs, lock, worker, job, step, pending,
                 batch, skipped, crashes>>

UnlinkFails(h) ==
  /\ h \in doomed
  /\ doomed' = doomed \ {h}
  /\ skipped' = skipped \cup {h}
  /\ UNCHANGED <<disk, lock, worker, job, step, pending, batch, crashes>>

CommitPurge ==
  /\ step = "unlinking"
  /\ doomed = {}
  /\ lock' = "free"
  /\ step' = "chunk"
  /\ UNCHANGED <<disk, worker, job, pending, batch, doomed, skipped, crashes>>

(* The job ends when nothing is left, or with an exception outside of the  *)
(* purge (a busy database, VACUUM, readdir).                               *)
EndCleanup ==
  /\ job \in {"content", "node"}
  /\ step \in {"vacuum", "chunk", "purge"}
  /\ job' = "none" /\ step' = "idle"
  /\ pending' = {} /\ batch' = {} /\ skipped' = {}
  /\ UNCHANGED <<disk, lock, worker, doomed, crashes>>

-----------------------------------------------------------------------------
(* The process is killed: transactions roll back, files stay, and the next *)
(* start begins with the startup jobs.                                     *)
Crash ==
  /\ crashes < MaxCrashes
  /\ crashes' = crashes + 1
  /\ lock' = "free"
  /\ import' = [i \in Imports |->
                  IF import[i] \in {"idle", "done"} THEN import[i] ELSE "failed"]
  /\ file' = [f \in Files |->
                  IF file[f] \in {"idle", "stored"} THEN file[f] ELSE "failed"]
  /\ job' = "startup" /\ step' = "idle"
  /\ pending' = {} /\ batch' = {} /\ doomed' = {} /\ skipped' = {}
  /\ UNCHANGED <<disk, hash>>

FileStep(f) ==
  \/ ListFile(f) \/ StartSmall(f) \/ StartLarge(f) \/ StoreSmall(f)
  \/ FinishCopy(f) \/ BeginStore(f) \/ RenameBlob(f) \/ DropStaged(f)
  \/ CommitStore(f) \/ RollbackStore(f) \/ FailFile(f)

ImportStep(i) ==
  \/ FinishReap(i) \/ FailReap(i) \/ RemoveStaged(i) \/ RemoveStageDir(i)
  \/ InsertTree(i) \/ FailTree(i)

CleanupStep ==
  \/ Vacuum \/ BeginPurge \/ CommitPurge \/ EndCleanup
  \/ \E D \in SUBSET pending \ {{}} : ScanDirectory(D) \/ DeleteChunk(D)
  \/ \E h \in doomed : UnlinkBlob(h) \/ UnlinkFails(h)

StartupStep ==
  \/ SkipStartup \/ DeleteContent
  \/ \E i \in Imports : DetachAtStartup(i)

Next ==
  \/ \E f \in Files : FileStep(f)
  \/ \E i \in Imports : StartImport(i) \/ ImportStep(i) \/ DetachTree(i)
  \/ StartupStep
  \/ CleanupStep
  \/ Crash

Spec == Init /\ [][Next]_vars

(* Threads keep running their pending callbacks; nobody has to start an    *)
(* import, to delete one or to kill the process.                           *)
Fairness ==
  /\ \A f \in Files : WF_vars(FileStep(f))
  /\ \A i \in Imports : WF_vars(ImportStep(i))
  /\ WF_vars(CleanupStep)
  /\ WF_vars(StartupStep)

FairSpec == Spec /\ Fairness
-----------------------------------------------------------------------------
(* The values the variables take. *)
TypeOK ==
  /\ row \in [Hash -> RowStates]
  /\ refs \in [Imports -> SUBSET Hash]
  /\ blobs \in SUBSET Hash
  /\ staged \in SUBSET Files
  /\ stageDirs \in SUBSET Imports
  /\ lock \in Files \cup LockKinds
  /\ import \in [Imports -> ImportStates]
  /\ file \in [Files -> FileStates]
  /\ hash \in [Files -> Hash]
  /\ job \in Imports \cup JobKinds
  /\ step \in Steps
  /\ pending \in SUBSET Hash
  /\ batch \in SUBSET Hash
  /\ doomed \in SUBSET Hash
  /\ skipped \in SUBSET Hash
  /\ crashes \in Nat

(* A committed row without data has its blob on disk: neither a purge that *)
(* races with an import of the same content, nor a rollback, nor a crash   *)
(* between rename and commit breaks the pair (Delete.mts, importLargeFile).*)
BlobPresent == External \subseteq blobs

(* While an import waits to insert its tree no cleanup takes away the rows *)
(* of the files it has already stored: the foreign key of node_file never  *)
(* fails it.                                                               *)
StoredContentKept ==
  \A i \in Imports :
    import[i] \in {"reaping", "reaped"} => TreeHashes(i) \subseteq Readable

(* When DbfsContentCleanupJob has seen every directory, the store holds    *)
(* what the trees refer to and nothing else, but for unlinks that failed.  *)
SweepComplete ==
  job = "content" /\ step = "chunk" /\ pending = {} =>
    /\ HasRow = Referenced
    /\ blobs \subseteq External \cup skipped

(* The transactions of the worker and of the purge exclude each other. *)
Exclusive ==
  /\ \A f \in Files : file[f] \in InTx <=> lock = f
  /\ step = "unlinking" <=> lock = "purge"

(* No row appears for a blob between the decision to unlink it and the     *)
(* unlink: the write lock is held all the time.                            *)
PurgeIsSafe ==
  doomed # {} => lock = "purge" /\ doomed \cap External = {}

(* What an open transaction of the worker found when it inserted the row   *)
(* is still so when it commits, and a new blob is there before that.       *)
DecisionHolds ==
  \A f \in Files :
    /\ file[f] \in {"inserted", "moved"} => row[hash[f]] = "none"
    /\ file[f] \in {"duplicate", "dropped"} => row[hash[f]] # "none"
    /\ file[f] = "moved" => hash[f] \in blobs

(* Why a committed row keeps its blob: the inductive invariant of the      *)
(* write lock shared by importLargeFile and the purge (Delete.mts: no      *)
(* "new references to the blobs have been created in the meantime").       *)
LockInv == TypeOK /\ BlobPresent /\ Exclusive /\ PurgeIsSafe /\ DecisionHolds

(* The jobs of the schedule take turns. *)
Serial ==
  /\ \A i \in Imports :
       import[i] \in {"reaping", "cleaning", "removing", "reaped"} <=> job = i
  /\ \A f \in Files : import[Owner[f]] = "idle" => file[f] = "idle"

(* Why the rows an import needs are not collected under it: the inductive  *)
(* invariant of maxJobConcurrency = 1.                                     *)
TurnInv ==
  /\ Serial
  /\ \A f \in Files :
       /\ import[Owner[f]] \in {"reaping", "reaped"}
       /\ file[f] = "stored"
       => row[hash[f]] # "none"

(* Why the collection of a startup is complete: no file of an import is    *)
(* being processed in its time, and a blob without a row is among those it *)
(* has yet to look at, to purge or to unlink.                              *)
SweepInv ==
  /\ step = "idle" <=> job \notin {"content", "node"}
  /\ step # "purge" => batch = {}
  /\ job \in {"startup", "content"} =>
       \A f \in Files : file[f] \in {"idle", "stored", "failed"}
  /\ job = "content" =>
       /\ HasRow = Referenced
       /\ blobs \subseteq External \cup skipped \cup pending \cup batch \cup doomed

(* NodeArtifactsIoService.mts says of the files left by a failed import    *)
(* that they "will be cleaned up by the garbage collection on next         *)
(* startup": when that collection is complete, no staged file is left.     *)
StagedFilesCollected ==
  job = "content" /\ step = "chunk" /\ pending = {} => staged = {}

(* A write transaction ends: rename, unlink and purge cannot keep the      *)
(* write lock for ever.                                                    *)
LockIsReleased == lock # "free" ~> lock = "free"

(* A job that was started ends, so the schedule, which runs one at a time, *)
(* becomes free again even when files of the import fail.                  *)
JobsEnd == job # "none" ~> job = "none"

Contents == INSTANCE ContentStore WITH content <- Readable

(* Every file of an imported tree can be read, whatever import, cleanup,   *)
(* failure or crash comes between (dbfsResolveFileNodeContentByPath finds  *)
(* its row, and the blob when the row has no data).                        *)
FilesReadable == Contents!ReferencedIsReadable

(* The store keeps the promise of ContentStore. *)
ImplementsContentStore == Contents!Spec
=============================================================================
