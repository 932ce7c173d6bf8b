# A TLA+ development of mytfgames

mytfgames is an Electron application that keeps a library of games: their
descriptions, and the files of the versions one has downloaded. This directory
holds TLA+ models of the parts of it that carry state and can go wrong in an
order nobody tested, the TLC runs that check them, and proofs checked by TLAPS.
Paths below are relative to `src/src/` (the source of the application) unless
they start with `src/`.

## 1. The system

Three contexts run JavaScript, each with an event loop of its own:

| context | what runs there | state |
|---|---|---|
| main process (`main/`) | remote services, job schedule, database connection, cleanup, migration | the SQLite database, the job schedule, the RPC dispatcher to the worker |
| worker thread (`worker/`) | the import of directories | a second database connection, the stage directories |
| renderer (`renderer/`) | React pages, redux store | the store: games, versions, index |

The main process and the worker open the same SQLite database (WAL, foreign
keys on, busy timeout) and share the directory `blob_store`. The renderer and
the main process talk over a message port: calls in one direction, results and
redux actions in the other; the worker and the main process over a second
one. Nothing else is shared. Only one instance of the application runs.

### Inventory

| component | state it keeps | operations | talks to | what is hard |
|---|---|---|---|---|
| content store (`worker/artifacts`, `main/artifacts/jobs`, `libs/node-base/database-fs/Delete.mts`) | `node_file_content`, `node_file`, `blob_store/`, `_imports/stage-*` | import of a directory, deletion of a tree, cleanup at startup and after a deletion | schedule (jobs), SQLite write lock | two connections, file operations inside transactions, kills between them, siblings of a failed file that go on |
| job schedule (`main/app/DefaultJobSchedulingService.mts`) | semaphore, wait queue, known ids, next run | tick, check, emit, run, settle | every job source | checks that overlap, ids that are in use, jobs that fail or throw |
| artifacts (`main/artifacts`) | `game_version_artifact`, the version, import and cleanup directories | import, delete, load; replacement of placeholders; repair at startup | schedule, content store, renderer | jobs that wait while calls change what they are about; kills; reuse of node numbers |
| file tree (`libs/node-base/database-fs`) | `node`, `node_directory`, `node_file`, `node_member` | make, look up, move, fill, delete | artifacts, worker | recursive queries, number types of the driver |
| set difference (`libs/pure-base/utils/algorithms.mts`) | two arrays, a result | the merge | purge | ends of the arrays; decides what is unlinked |
| connection mutex (`libs/node-base/database/kysely-support`) | the promise of the owner | lock, begin, execute, commit, rollback, release | every query of a process | microtasks, newcomers ahead of those that wait |
| migration (`main/database/migrate.mts`) | the database file and its log | copy, migrate, move over, remove the log | start of the application | kills and errors between file operations and between the transactions of the migrations; releases installed in any order |
| schema (`libs/node-base/database`) | tables, keys, references, indexes, views | the statements of the two migrations | migration; every query and upsert | renames in place; types written by hand beside the statements |
| RPC (`libs/pure-base/ipc`, `libs/node-base/ipc`, `main/worker`) | transaction ids, calls that are outstanding | dispatch, result, exit of the worker | worker and main, renderer and main | ids that wrap, results in any order, a transport that closes |
| games (`main/games`, `renderer/dux/games.mts`, `renderer/ui/routes/games`) | descriptions, metadata, notes; the renderer's copy; the query of the index and what it shows | import of metadata, edits, loading by id, search | RPC, redux actions | loads that overlap with edits and other loads; answers to a query that has changed |
| game info loader and parser (`libs/game-info`) | none | YAML and markdown to metadata | games | pure conversion |
| HTML play (`main/games/HtmlGamePlayService.mts`) | the sessions of games | startGame, the protocol handler that reads the tree and the store | file tree, content store | blob opened after its transaction; paths that are decoded, cut, completed, normalised, joined and split |
| life cycle (`main/main.mts`, `main/app/MainApp.mts`, `main/pal/worker`, `main/pal/browser`) | how far the start is, the worker, windows | start order, activation, windows, quit | all | events of Electron, of the worker and of the user in any order |
| the rest (platform wrappers, UI components, configuration, logging, build) | — | — | — | no state of their own to speak of |

### What makes each correct

* Content store: a committed row without inline data has its blob; what an
  import has stored is not collected before its tree refers to it; every file
  of an imported tree can be read; a complete sweep leaves nothing behind;
  locks and jobs end.
* Schedule: jobs run in the order of acceptance, within the limit, never two of
  one id, and none is lost or waits beside a free slot.
* Artifacts: an artifact that can be played is complete; a cleanup never hits a
  tree in use; no tree and no placeholder is forgotten; the view converges.
* File tree: it stays a tree; what was made is what is found.
* Connection: one holder; a rollback undoes only its own statements; nobody
  is forgotten.
* Migration: nothing committed is lost; a log is never read with a database it
  was not written for; whatever was interrupted before, the next migration fits
  the schema it meets, and the application runs on the schema its types are
  written for.
* HTML play: a path leads to the file imported for it and to no other; a request
  that has found its file is answered while the file is kept.
* RPC: each call gets the result of its own execution, exactly once.
* Games: nothing stays "loading"; what is shown is what the database has, and
  what the query asks for.
* Life cycle: nothing uses the database before it is migrated; a start shows a
  window or ends.

`PROJECT.json` lists the hazards behind these, each at its line.

## 2. The modules

| module | models | composed with |
|---|---|---|
| `ContentStore` | abstract: content that can be read, trees over it | implemented by `BlobStore` |
| `BlobStore` | the content store, its two connections and the disk | |
| `JobQueue` | abstract: a FIFO queue with slots and identities | implemented by `JobTracker`, instantiated by `Artifacts` |
| `JobTracker` | the schedule for one job source | |
| `JobTrackerProofs` | theorems about it, the refinement among them | |
| `Artifacts` | the life of artifacts over the schedule, the tables and the view | `Jobs == INSTANCE JobQueue` with one slot |
| `ArtifactsProofs` | theorems about it | |
| `Dbfs` | the file tree, one transaction per step | |
| `HtmlPlay` | the requests of a game window, over the tree and its content | extends `Dbfs`, uses `ContentStore` |
| `HtmlPlayProofs` | theorems about both, the use of `ContentStore` among them | |
| `SortedDifference` | the merge of the purge | |
| `StoreProofs` | theorems about `BlobStore` and the merge | |
| `ConnectionMutex`, `ConnectionMutexProofs` | the mutex of a connection | |
| `Schema` | what SQLite makes of the statements of a migration | |
| `Migrations` | the statements of the two migrations; the types of the entities | extends `Schema` |
| `Migrate` | the migration at the start, on the files of the database | extends `Migrations` |
| `Application` | the life of a process around it: worker, schedule, windows, quit | extends `Migrate` |
| `Rpc` | remote calls over one transport, with the worker's life | |
| `ProcessProofs` | theorems about `Migrate`, `Application` and `Rpc` | |
| `Games`, `GamesProofs` | descriptions in the database and in the renderer | |
| `Queues`, `QueueProofs` | elements and distinctness of queues, and lemmas about them | used by `JobTracker`, `Artifacts`, `ConnectionMutex`, `SortedDifference` |
| `MC*` | values of the constants for TLC | |

Names of definitions follow the functions of the source; `PROJECT.json` ("map")
gives the lines of each. Definitions whose comment begins with "Mutant:" are
plausible mistakes in the definition after them; no specification uses them.
They serve to show that each property can fail.

### What a step is

JavaScript runs to completion, so a step is what happens between two awaits
that really give way. In `BlobStore` it is one committed statement, one
statement of an open transaction with the file operation after it, or one file
operation, as the worker and the main process run in parallel. In `Artifacts`,
`Dbfs` and `Games` it is one transaction: the connection of the main process is
given to one transaction at a time (`ConnectionMutex`). The interleaving of
transactions is real, not an artefact of the model: the purge keeps the
connection over its unlinks, and everything else has to wait in that time.

### BlobStore

`row` is `node_file_content` (no row, data inline, or data null: external),
`refs` the hashes of `node_file` per imported tree, `blobs` the files in
`blob_store`, `staged` and `stageDirs` the temporary files, `lock` the write
lock of SQLite. `file[f]` goes through importFile: small content is one insert;
large content is copied to a staged file, then a transaction inserts the row,
renames the file over or removes it, and commits. `import[i]` goes through
importDirectoryFromFs: reap the files, remove the stage directory, insert the
tree, or fail; files of a failed import go on after it, as they do under
`Promise.all`. `job` is what the schedule runs: an import, the
`DbfsContentCleanupJob` of the startup (vacuum, then directories of the blob
store), or the `DbfsNodeCleanupJob` of a deletion (chunks of hashes). Both hand
`batch` to dbfsPurgeUnreferencedFileData: `BeginPurge` deletes and selects rows
under the write lock and decides `doomed` (the set difference of the module
`SortedDifference`), `UnlinkBlob` and `UnlinkFails` are its unlinks, `CommitPurge`
gives the lock back. `Crash` rolls the open transaction back and keeps the disk.

`Contents == INSTANCE ContentStore WITH content <- Readable` is the refinement:
readable content is what has inline data or a row and a blob.

### JobTracker

`jobs` is the set of known ids' jobs, `waitQueue`, `semaphore` as in the code,
`immediates` what setImmediate has queued, `running` the promises under way,
`batch` what queueJobs iterates over. A source may emit jobs at any time, and
its check may answer at once, later, never, with an error or by throwing
(`TickSync`, `TickAsync`, `Fulfil`, `Reject`, `TickThrows`); `due` and `Interval`
count ticks, as nextRun does in time.

### Artifacts

`artifact` is the table, `parent` and `label` are `node_member`, `tree` is what
the worker has put below a node. `calls` holds remote calls between their
transaction and their end, `stage` is where the active job is, `session` where
the repair of the startup is. The store of the renderer appears as `view`,
which decides what the user can ask for. `FillNode` is the whole of `BlobStore`'s
import as `ContentStore` promises it: the tree appears as a whole or not at all.

The view may be older than the database, so that the placeholder of a new import
can be deleted while the artifact it replaces is still shown. Its import job
knows the node by a number only and goes on: it may fill and move a node that is
in the cleanup queue, gone (`FillRefused`, or an update of no row), or has been
given out to another artifact, whose own import then finds names taken
(`FillRefused`, `ReplaceRefused`). `hasty` is the set of nodes this has happened
to; the properties except these by name, and so say that no other node, artifact
or job suffers from it.

### HtmlPlay

The tables of `Dbfs` with `hash` (`node_file.blake3_hash`), the hashes whose
`content` can be read, and one `request` of a window. `Handle` is the handler of
the protocol up to the end of its transaction: `ParsePathname` (the segments "",
"." and ".." are values of their own, `Normalized` is posix.normalize), the path
below the artifacts directory, and the lookup of `Dbfs`. Refusals, what is not
found and content in the row are answered in that step, and leave nothing to
remember; a blob is opened by `FetchBlob`, a step of its own, and in
between anything can be made, moved, imported, deleted and purged. What the
module says of the content is no assumption: `UsesContentStore` shows that its
steps are those of `ContentStore`, which `BlobStore` implements.

### Schema, Migrations

`Migrations` lists the statements of both `up` functions as data: columns, keys,
references, indexes, views, and the columns that rows and ON CONFLICT name.
`Schema` is the part of SQLite that interprets them: `Run` is a transaction of
statements, broken if one cannot be executed. TLC computes `After`, the schema
after n migrations, and `Runs`, which migration can be executed on which. Beside
them stand `AppDatabase`, the tables and columns of the `*Entities.mts`, and
`Upserts`; `Serves` compares the two.

### Dbfs, SortedDifference, ConnectionMutex, Migrate, Application, Rpc, Games

* `Dbfs`: the tables as functions of node numbers; a new node takes the largest
  number plus one, so the number of the last node is used again (the comment
  "smallest available integer" in the migration is not what SQLite does).
  `WalkedIn` and `BelowIn` are recursive functions for the recursive queries, of
  any table of members, as the proofs compare the table before and after a step;
  `Chain` is the rows of the directories made for the rest of a path.
  An import (`imports`) holds a node number from `CreatePlaceholder` on and acts on
  it in `InsertTree` and `ReplacePlaceholder` without asking whether it still is its
  artifact's: `DeleteArtifact` only takes it off the import (`Disowned`), and the
  number may be queued, free or given out again when it is used. What a late
  import fills or moves is marked in the history variable `late` (`Mark`). A
  tree is a directory with one file, at a path of any depth.
* `SortedDifference`: one step per turn of the loops of sortedDifferenceBy.
* `ConnectionMutex`: `promise`/`resolve` are the fields of the mutex, `reactions`
  the calls that await each promise, `ready` the microtask queue.
* `Migrate`: two database files with a log each. A log carries the file it was
  written for, which SQLite does not look at: reading another is `mixed`. A
  migration is two transactions, its statements (`ApplyMigration`,
  sqliteSafeMigration) and its record in `kysely_migration` (`RecordMigration`).
  A release is known by how many migrations it has; any other may be installed
  after it, an earlier one, too.
* `Application`: `phase` is the await at which MainApp.run() is, `worker` the
  thread, `appWindow` the field of MainApp, which is never unset; windows are
  counted. Its steps include those of `Migrate`: an error of the migration, a
  failing run(), the end of app.quit and a kill all end the process (`Ended`).
  `darwin` is the platform, on which closing the last window quits nothing.
* `Rpc`: `executingCalls` with ids that wrap at `IdSpace` and entries that are
  never removed; `requests` and `results` are the two directions of the
  transport. The worker comes online once and may exit once.
* `Games`: one FIFO of messages to the renderer carries results of loads and of
  searches, and `gameCrawled`; `entity` is the state of the redux slice per
  game. `query` and `result` belong to the index, which is open or not as `page`
  is; a search is `live` until the effect that started it is cleaned up, after
  which it still loads what it finds. `ResetPage` is the rendering that goes
  back to page 1 when nothing is shown.

## 3. The runs

All runs take every state the bounds allow. Only `HtmlPlay` uses symmetry, of the
two imports, which differ in nothing but their names; it has no liveness. Where a
component has liveness properties its one run works under the specification with
fairness and answers both questions together.

Each passing run has the type invariant of its module as a conjunct of the invariant
meant for induction: `LockInv`, `TrackerInv`, `ScheduleInv`, `MutexInv`,
`MergeInv`, `RpcInv`, `AppInv`, `GamesInv`, `PlayInv`. All of these are
inductive, and proved to be.

| run | instance | question | result |
|---|---|---|---|
| `BlobStore` | 2 imports, 3 files, 2 hashes, 1 kill | Are rows, blobs and references consistent, does the store implement `ContentStore`, does everything end? | holds |
| `BlobStoreStaged` | 2 imports, 2 files, 1 kill | Does the collection of the next startup remove the files of a failed import? | violated (finding 1) |
| `JobTracker` | 5 jobs, 2 with one id, 2 slots, 2 checks | Is the accounting exact, is `JobQueue` implemented, is every job settled? | holds |
| `Artifacts` | 2 versions of one platform, 2 nodes, 1 fault per session, 1 kill, 1 placeholder deleted | Is an enabled artifact complete, is nothing leaked, does the view converge? | holds |
| `ArtifactsDelete` | the same with no faults, no kill | Are the selected artifacts deleted? | violated (finding 2) |
| `Rpc` | 5 calls of all kinds, 3 ids | Is every result the call's own, is every call of a live worker settled? | holds |
| `RpcClosed` | 5 calls, 2 ids | Is every call settled once the transport has closed? | violated (finding 3) |
| `Games` | 1 game, 2 pages of the index, 2 calls at a time, 2 clock values, 1 edit, 1 fault | Is what is loaded current, does nothing stay loading, does the index show what its query asks for? | holds |
| `ConnectionMutex` | 4 clients, 3 calls each | One holder, own changes, no lost wakeup, everyone served? | holds |
| `SortedDifference` | all pairs of sorted arrays over 5 values | Is the merge the set difference, in order, within the bounds of both arrays? | holds |
| `Application` | 2 edits, both migrations, both releases in any order, 2 kills, windows of the application and of 1 game | Is anything lost or mixed, do the migrations fit and serve, does anything use the database too early, does each start show a window or end? | holds |
| `HtmlPlay` | 2 names, 4 nodes, 2 imports, 1 of them late at a time, depth 2, all paths of up to 3 segments, 1 content in the row and 1 blob | Is it a tree, is what was made found, are artifacts kept, does a path find its file and, but in late nodes, no other, is it answered? | holds, with the exceptions of section 6 |

### Bounds, and why they are enough

* `BlobStore`: races over content need two files of equal content, in one import
  and in two: three files and two hashes give both, and a second hash that is
  collected or kept beside. A second kill meets nothing new: what a kill leaves
  behind is a disk state, and the first can come at any step of any import. That
  bound is on the run only; the theorems hold for any number.
* `JobTracker`: two slots and four ids fill both slots and let two jobs wait;
  the fifth job is the duplicate. Two checks are what overlapping means.
* `Artifacts`: two artifacts compete for the names of one platform in the
  cleanup queue and for the slot of the schedule; with two nodes a number is
  given out again while the other one is in use. A fault can hit any step after a
  kill, too. One deleted placeholder (`MaxHasty`) is enough for its import to
  meet the queue, no node, or the node of the other artifact; three nodes without
  it, and three nodes with it but without faults and kills, have been run as
  well and hold, and are too large to be repeated with everything at once.
* `Rpc`: five calls over three ids use an id again while others are outstanding;
  `NextTxn` assumes that the call that had an id is settled by then (2^31 ids in
  the code).
* `Games`: games are independent but for sharing a load, and an instance with
  two games and no index showed no more than one game with two loads. Two clock
  values give metadata that is older, as old or newer, and a timestamp after
  the present; one edit is enough to make a load stale. With one game on a page,
  the second page of the index is empty, and the search by name finds the game
  or not.
* `ConnectionMutex`: one holder, one that waits, one that is woken and a
  newcomer are four clients; the third call of a client meets what it left.
* `Application`: two kills meet the attempt of the start after the first. The
  releases are those there are; the first edit may be made under either. There
  are at most two windows of the application by itself; one of a game is enough
  to be the last one.
* `HtmlPlay`: two imports are a late one and the one of the artifact that its
  number was given to; with one late import at a time (`MaxLate`) it meets the queue,
  no node, the node of the other artifact, and a directory below one, where it strays.
  Directories are also made below node 2 (`Anchor`), which can be any of these. A
  run with two late imports and node 1 instead (446,800 states) holds as well.
  Four numbers are a version directory, a tree of two nodes and a
  second artifact; numbers are reused after each deletion. Depth two is a
  directory that exists with one that does not, or two that do not. Three
  segments are a version and a path that goes down and up, or twice up. Names
  have to differ within a directory only, so the game has the name of a version.

### Fairness, and why the code justifies it

Weak fairness throughout: a step that stays possible is taken. Nobody has to
import, edit, delete, upgrade, quit, or kill the process, and nothing has to fail.

* `BlobStore`: every file, every import, the cleanup and the startup go on, as
  each waits for an operation of the file system or of SQLite that ends; the
  write lock is given back in time for the busy timeout.
* `JobTracker`: the event loop comes back, and a job that runs settles its
  promise. `Rpc` shows when the second is not so (finding 3).
* `Artifacts`: calls, the active job and the startup go on.
* `Rpc`: both event loops go on and procedures end.
* `Games`: calls are answered, messages delivered.
* `ConnectionMutex`: microtasks run, and whoever has the connection ends.
* `Application`: the migration and run() go on, Electron becomes ready, the
  worker comes online unless it exits, and app.quit ends the process.

`SortedDifference`, `Dbfs` and `HtmlPlay` have no liveness properties.

## 4. What is proved

TLC decides small instances; these hold for all values of the constants. The
only assumptions are the ASSUMEs of the modules, which say that sets of names
do not overlap, that bounds are numbers and that jobs and nodes are finitely
many, and `MigrationsFit`, which says of
the two migrations of the repository that each can be executed after those
before it. It is about no constant: TLC evaluates it by executing them.

**The write lock (`LockInvHolds`, `TypeCorrect`, `BlobAlwaysPresent`).**
BlobPresent — every external row has its blob — is not inductive: a state in
which a purge has doomed a blob that a worker is about to refer to satisfies it
and breaks it two steps later. `LockInv` adds what rules this out: a file is
inside its transaction exactly if it has the lock, and the purge is unlinking
exactly if it has (`Exclusive`); what is doomed has no row, and the lock is held
as long as anything is doomed (`PurgeIsSafe`); and what a transaction found when
it inserted its row is still so at its commit, with the blob in place after the
rename (`DecisionHolds`). Each action then either keeps rows and blobs, or has
the lock.

**Turns (`StoredContentAlwaysKept`).** Rows of an import that is not complete
have no reference, so a cleanup would collect them. That it does not follows
from the schedule, which runs one job at a time: `TurnInv` says that a job is
running exactly if its import is under way, and that files stored by it have
their rows. The late files of a *failed* import are outside of it, and do not
need it.

**Refinement (`BlobStoreRefines`, `FilesAlwaysReadable`).** Under `LockInv`,
readable content is exactly what has a row, so steps on rows and on `refs` are
steps of `ContentStore`, and those on blobs, staged files and locks stutter.
`ReferencedIsReadable` is an invariant of `ContentStore`, and so every file of
an imported tree can be read.

**The mutex (`MutexInvHolds`, `MutexExcludes`, `ChangesAreOwn`,
`WakeupsAreKept`).** `MutexInv` says who holds the connection (`Held`), that
whoever awaits is in the list of reactions of the present promise or in the
microtask queue and nobody else is (`NoLostWakeup`), that it is there once
(`WokenOnce`), and that what has been executed belongs to the open transaction
(`OwnChanges`). `WokenOnce` is why a client that is woken cannot be the holder.
Three lemmas on sequences (`QueueProofs`) say what Append, Tail and
concatenation do to this.

**The sweep (`SweepIsComplete`).** During the cleanup of the startup no file of
an import is being processed, as the schedule runs one job at a time. So no
content becomes unreferenced behind it, once the vacuum has left exactly the
referenced rows, and every blob without a row is one it has failed to unlink,
has yet to look at, has in its batch, or is about to unlink (`SweepInv`).

**The schedule (`TrackerInvHolds`, `TrackerImplementsJobQueue`).** The semaphore
is a number, the jobs it counts are in three places. `TrackerInv` says that an
accepted job is in exactly one of them and there once (`NoJobLost`, with
distinctness), so that moving a job from one to another changes no count
(`SlotsAccounted`); that what queueJobs still has to look at is new
(`BatchIsOffered`), so that no job object is counted twice; and that nobody
waits beside a free slot (`WorkConserving`), from which the abstract queue's
decision between the slot and the end of the queue is the same as that of the
code. A job that has been handed to setImmediate is already active: RunJob
stutters.

**Artifacts (`ScheduleInvHolds`, `EnabledAlwaysComplete`, `CleanupsHitObsolete`,
`NoNodeIsLeaked`, `PlaceholdersHaveJobs`, `ViewsConverge`).** None of the
properties is inductive: what the active import fills and moves is known to it by
number, and whether that number is still its own depends on what every call and
every waiting job has been promised. `ArtifactsInv` says whom each promised or
queued job is for (`JobsFit`: an import has its placeholder, a cleanup finds its
node in the cleanup queue), that nothing is promised twice (`PromisedOnce`), that
one job has the slot and each is there once (`SlotInv`), and what each node and
each artifact have of each other (`NodesAccounted`, `ArtifactsKept`). From it a
node has one job at most (`OneJobPerNode`), which is why the end of one job cannot
disturb another. At a start, the cleanup queue is listed in any order; that no
node is listed twice is a fact on surjections of finite sets. `ScheduleInv` adds
what makes things come right in the end: once the start has repaired what it found,
and as long as nothing fails, every placeholder has its call, its job, or a job that
was refused (`PlaceholdersAwaited`), and the view knows the status of an artifact or
its version is about to be dispatched (`ViewFollows`).

**Games (`GamesInvHolds`, `LoadedAreCurrent`, `ShownAreAsked`).** A loaded game may
differ from its row as long as a message about the game is under way behind it, and
that message may be outdated itself. `GamesInv` says of each message, and of what is
loaded, that it has the row of the database or that a later message about the game
is under way (`LastIsCurrent`); so the last one is right, and as the channel is a
FIFO it arrives last. For the index, a search that is live asks for the present
query (`LiveIsAsked`), and only its answer is shown.

**The tree (`TreeInvHolds`, `ArtifactsAlwaysKept`, `MadeIsFound`).** `TreeInv`
has two parts. What holds whatever an import does: types, every node in one
directory that exists and under a name of its own there (`RowsFit`), the well
known directories (`WellKnownKept`), and one import at a time whose directory
stays (`OneSlot`). And what holds unless a late import has strayed (`Strayed`,
section 6): the tables are one tree below the root (`OneTree`), the directories
of artifacts and of late nodes are where they belong (`ArtifactsPlaced`), an
import that is not late has its own placeholder (`ImportsPlaced`), and each file
belongs to somebody (`FilesOwned`). The last is needed for more than files: a
placeholder that is moved must not carry the file of another. `ArtifactsAreKept`
and `FoundAsMade` follow, the latter because nothing is remembered after a step
that might move the directory. The theorems are about `Dbfs` by itself;
`PlayInv` contains `TreeInv`, so they hold of `HtmlPlay`, too. The proofs treat
artifacts and late nodes alike, as `Roots`: directories that are moved and cut
off as a whole, of which only those that are not late promise to have no other
file (`RowsOf`, `TreeOf`, `Placed`). A step that strays has to keep the rows
only.

The queries are recursive, and the provers cannot do induction over data by a
rule. The induction is done by hand: a set of natural numbers that is not empty
has a least element (`LeastOf`, from the well-foundedness of inclusion on finite
sets), so what holds of 0 and is passed on holds up to n (`Steps`). From this
follow the existence of the recursive functions (`WalkExists`, `ReachExists`),
what a walk passes (`WalkUp`, `WalkPasses`, `WalkIs`), and that `Below(n)` is
the least set that has n and the members of what it has (`BelowIs`): the
recursion gains a node in each step or is finished, and there are as many steps
as nodes. All later arguments use that characterisation and not the recursion:
nobody is below himself (`NoCycle`), artifacts, late nodes and trees in the
queue have nothing in common (`TopsApart`). Every operation is one of three
changes of the tables, for which the invariant is kept: a chain of new nodes
below an old one (`GrownDirs`, `GrownTree`), a tree moved to a directory that is
not in it (`Moved`), a tree cut off (`CutOff`).

**Requests (`PlayInvHolds`, `ServedAlways`, `FoundIsAlwaysImported`,
`PlayUsesContentStore`).** What files refer to can be read, and a request that
is about to read has the hash of its file unless that has been cleaned up
(`ContentKept`); so the fetch fails in that case only. `FoundIsImported` rests
on `OnePath`: two walks from one directory to one node go along the same names,
as they agree going up from the node and neither can pass the directory again.
The file that is found is below the artifacts, so it is that of an artifact or a
late node in a version (`OwnerIs`). In the second case the walk passes that node
(`WalkPassesTop`), which is the exception. In the first, the path from the
artifacts over game, version, platform and the path of the import leads to it,
too (`WalkToFile`), and the path of the request is therefore this one, segment
by segment (`PathOf`). That it is a sequence of segments is the one thing the
proof needs to know of posix.normalize. The hypothesis that the version is not
empty is the exception of section 6. The steps of the tree map to those of
`ContentStore`: an import attaches the hash of its file, a cleanup detaches
those of all files it removes. None of this needs that the tables are a tree, so
a late import disturbs neither content nor answers.

**Calls (`RpcInvHolds`, `ResultsAreOwn`).** `OwnResult` needs that an id that
is used again is not on its way any more: every call that is outstanding is in
exactly one of the requests, the executing calls and the results
(`CallsAccounted`, `OneOfEach`), and the entry of the dispatcher knows it
(`CallsKnown`).

**The merge (`MergeInvHolds`, `MergeIsDifference`).** `result` is
what has been passed over of `data` without the values of `exclude`, and what
has been passed over of `exclude` is below the current value of `data`. The
precondition is that both arrays are strictly sorted. For the rows this rests
on SQLite walking the index, as the query of the purge has no ORDER BY.

**The start (`AppInvHolds`, `NothingIsLost`, `NeverMixedUnlessTorn`,
`MigrationsAlwaysApply`, `LatestRunsOnLatest`).** That the database in use keeps
everything is not inductive: the copy that is going to replace it has to hold
everything, too, from the moment its log has been folded into it (`CopyHasRows`).
`LogsFit` says which file each log was written for, unless a start ended between
the rename and the removal (`torn`). `RecordsAgree` says that the migrations
recorded are those executed, in the database in use always, and in the copy at
all steps but the one between the two transactions of a migration; with
`MigrationsFit`, this is why whatever is pending can be executed, whichever
releases have been there before. `StartInv` is their conjunction, kept by every
step of `Migrate`; every step of `Application` does to the files what one of
`Migrate` does, or nothing (`StepsAreMigrate`). `MigratedFirst` needs to know
how far `run()` can be when (`StartOrder`); this also bounds the windows by two.
`RunsOnLatest` is proved under the hypothesis that all migrations together make
the schema the code is written for; that they do is decided by TLC, and is what
the mutant of that property breaks.

### Only model-checked

Every safety property that a passing run checks is stated by a theorem. Liveness
is out of the prover's reach and stays with TLC: `LockIsReleased`, `JobsEnd`,
`OfferedIsSettled`, `QueueIsDrained`, `CallsSettle`, `LoadsEnd`, `CallsAreServed`,
`StartShows`. So does what the recursive definitions of `Schema` compute
(`MigrationsFit` and the hypothesis of `LatestRunsOnLatest` are evaluated), and
which paths `Normalized` gives for which URLs: the run `HtmlPlay` goes through all
of up to three segments.

## 5. Findings

1. **Staged files stay.** `worker/artifacts/NodeArtifactsIoService.mts:101-102`
   says that unused files of an import that fails "will be cleaned up by the
   garbage collection on next startup". `DbfsContentCleanupJob.mts:61` enters
   only directories named by three hex digits; `_imports/stage-*`, with the
   temporary files a killed process leaves, is never looked at.
2. **Deleting two artifacts of one platform.** "Delete the selected artifacts"
   (`renderer/ui/routes/games/game/-components/GameVersionArtifacts.tsx:128`)
   sends one call per artifact. Each moves the node to the cleanup queue under
   its name, the platform; UNIQUE (node_no_parent, name) refuses the second
   while the first is there, and that artifact stays.
3. **Calls after the end of the worker.** The dispatcher rejects what is
   outstanding when the transport closes; a call dispatched later is never
   settled. An import job would keep the only slot of the schedule.

## 6. Limits, and what was seen on the way

* **`hasty`** (`Artifacts`): what happens to a node whose placeholder is deleted
  through a stale view is excepted from its properties. TLC showed a directory
  of no artifact in a version directory, an old import filling the node of
  another artifact after the number was given out again (version 2 then shows
  the files of version 1), and the cleanup of the second being dropped as a
  duplicate of the first. The renderer offers deletion for enabled artifacts
  only, and no document says what should happen, so this is an exception, not a
  finding. `SelectedAreDeleted` is checked without it.
* **`late` and `Strayed`** (`Dbfs`, `HtmlPlay`): the same in the tables. `late`
  has the nodes that an import has filled or moved after its artifact was
  deleted. `FoundIsImported` excepts them: a URL may find a file of a late
  import in the directory of an artifact, or in one that no artifact has.
  `FilesOwned` excepts them from having no file but their own. When the number
  has been given out again not to an artifact but to the directory of a game or
  a version, or to one below an artifact, the import fills that and moves it
  into the directory of its version; a version directory that is moved below
  itself would even be a cycle. From then on (`Strayed`) only the rows are
  claimed to fit, the content to be kept and requests to be answered. TLC shows
  files in the artifact of another import, in a version without artifact and in
  a directory below an artifact; the rest needs more nodes than its instance
  has.
* **`torn`** (`Migrate`): NeverMixed has the exception of a start that ends
  between the rename of the copy and the removal of the old log. Then the next
  start copies the old log with the new database.
* **The empty version** (`HtmlPlay`): a URL with nothing between the first two
  slashes is not refused; its path loses a segment and leads into the version
  that is called "html". `FoundIsImported` excepts it.
* startGame builds `game://<id>/<version>/` without encoding the version
  (`main/games/HtmlGamePlayService.mts:60`): a version with `#`, `?`, `%` or `/` in
  its name cannot be played. `HtmlPlay` starts from the decoded path.
* `down` of neither migration is called by anybody, and neither would work: that
  of the second names `game_user_notes` back without its column and then indexes
  the column, that of the first drops an index under a name it was not created
  with. They are not in `Migrations`.
* The second migration deletes a platform with foreign keys off
  (`2024-11-16_game_metadata_support.mts:11-15`,
  `libs/node-base/utils/kysely.mts:22`): an artifact of that platform would keep
  a reference to nothing. Rows are not in `Schema`.
* The form that adds a game never sets `submitting`, so a second click before
  the answer makes a second game
  (`renderer/ui/routes/games/-components/AddGameModal.tsx`).
* The upsert of metadata keeps the *older* timestamp
  (`main/games/DefaultGameInfoImporter.mts:62-66`); `OldestKept` (in `GamesInv`)
  states what the code does. An import that is ignored still dispatches
  `gameCrawled`, with metadata null: the exception in `LoadedIsCurrent`.
* A rejected load marks games as failed that another load has loaded; the page of a
  game loads again whenever its entity has changed and is not loaded, so
  for a game that is not found it does so without end.
* `libs/node-base/database-fs/Create.mts:140` and `:193` compare a number with a
  bigint. The second branch is never taken; the first picks the right row
  because SQLite returns the parent's first. `Dbfs` models this outcome.
* The index goes back to page 1 whenever nothing is shown, also before its first
  search has been answered: `ResetPage` is possible as soon as the page is
  opened (`renderer/ui/routes/games/GamesPage.tsx:59-70`), so a link to a later
  page never leads there. `gameIndexUpdated`, which would make the index search
  again, is dispatched by nobody.
* The form that edits a game keeps the text it had when the page was first
  shown (`renderer/ui/routes/games/game/GamePage.tsx:260-261`); a later edit
  starts from there.
* A worker that exits before it is online leaves MainApp.run() waiting for ever:
  nobody listens to its exit (`main/pal/worker/Worker.mts:56`). This is the
  exception in `StartShows`.
* On a Mac `onActivate` re-creates no window after the last one was closed, as
  `appWindow` is never unset (`main/app/MainApp.mts:91`); before run() has come
  to its window it makes one, and run() another.
* An error in the check of a source is logged; the promise `void jobs.then(...)`
  in `DefaultJobSchedulingService.mts:66-71` has no handler.
* Production uses the driver of kysely for better-sqlite3, whose mutex is the
  same; the one in the repository (`NodeSqliteDriver.mts`) is used by tests.

Not modelled: the order of the game index (data), the parser of game info (a
pure conversion; the clamping of timestamps is in `Games`), the types and rows
of the tables, `down`, wrappers of Electron, React components, configuration,
logging, build. The statements of SQLite are atomic and transactions are
serialised by its write lock; a power failure that loses what was renamed but
not synced is not considered.

## 7. Plan

The order is that of importance: what keeps the user's files first.

1. Done, with proofs: `ContentStore`, `BlobStore`; `JobQueue`, `JobTracker`;
   `Artifacts`; `Dbfs`, `HtmlPlay`; `SortedDifference`; `ConnectionMutex`; `Schema`,
   `Migrations`, `Migrate`, `Application`; `Rpc`; `Games`.
2. Next, models: answers of version loads under way in `Artifacts`, as `Games`
   has them for games (the hazard at `game-versions.mts:57`); which calls can
   reach a worker that has ended (`Rpc` with `Application`); file rights and
   paths of blobs as operators.
3. Next, proofs: what `Normalized` gives has no empty segment and, after the refusal
   in parsePathname, none that is "..", so that no request leaves its artifact
   whatever directories are called; that a job of `Artifacts` sees of the store
   what `ContentStore` promises, as `HtmlPlay` does.

## 8. Running it

    tlc -config BlobStore.cfg MCBlobStore      # one run; the others likewise
    tlapm StoreProofs.tla                      # one module of proofs

The largest run (`BlobStore`) takes about two minutes on two cores; the proofs
take up to a minute per module, those of `HtmlPlayProofs` two.
