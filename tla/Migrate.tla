------------------------------ MODULE Migrate ------------------------------
(***************************************************************************)
(* The database file and its write-ahead log on disk, over the starts of   *)
(* the application: migrate.mts copies both, migrates the copy and moves   *)
(* it over the database; then the application runs, until it quits or is   *)
(* killed.  A step is one file operation, or what SQLite does with the     *)
(* files of one connection, or one transaction of a migration.  A release  *)
(* is known by the number of its migrations.                               *)
(***************************************************************************)
EXTENDS Migrations

CONSTANTS
  Edit,       \* what the application writes
  MaxCrashes  \* bound: how often the process is killed

ASSUME BoundAssumption == MaxCrashes \in Nat

Migration == 1 .. Latest
Release   == 1 .. Latest

(* What a database file holds, and the log that belongs to it: applied is  *)
(* the last migration whose statements have been committed, recorded the   *)
(* last one the table kysely_migration names.  A log is recognised by its  *)
(* name only: base, the file it was written for, is not looked at by       *)
(* SQLite.                                                                 *)
NoFile   == [applied |-> 0, recorded |-> 0, rows |-> {}, id |-> 0]
NoLog    == [rows |-> {}, base |-> 0]
File     == [applied : 0 .. Latest, recorded : 0 .. Latest, rows : SUBSET Edit, id : Nat]
Log      == [rows : SUBSET Edit, base : Nat]

VARIABLES
  db,        \* the database file: its migrations, rows, and which file it is
  wal,       \* its log, in db-wal
  tmp,       \* the copy in db-migration-attempt-*
  tmpWal,
  pc,        \* where the start of the application is
  release,   \* the installed release
  written,   \* the edits the application has committed
  failing,   \* a migration of this release that fails, if any
  mixed,     \* a log has been read with a file it was not written for
  torn,      \* a start ended between the rename and the removal of the log
  crashes

vars == <<db, wal, tmp, tmpWal, pc, release, written, failing, mixed, torn, crashes>>

disk == <<db, wal, tmp, tmpWal>>

Init ==
  /\ db = NoFile /\ wal = NoLog /\ tmp = NoFile /\ tmpWal = NoLog
  /\ pc = "off"
  /\ release \in Release
  /\ written = {}
  /\ failing \in 0 .. Latest
  /\ mixed = FALSE /\ torn = FALSE
  /\ crashes = 0

(* SQLite opens a file with a log: what the log holds becomes part of it. *)
Recovered(f, log) == [f EXCEPT !.rows = @ \cup log.rows]
Mixes(f, log)     == log # NoLog /\ log.base # f.id

(* mkdtemp: the attempt has a directory of its own. *)
Start ==
  /\ pc = "off"
  /\ pc' = "started"
  /\ tmp' = NoFile /\ tmpWal' = NoLog
  /\ UNCHANGED <<db, wal, release, written, failing, mixed, torn, crashes>>

CopyDatabase ==
  /\ pc = "started"
  /\ tmp' = db
  /\ pc' = "copied"
  /\ UNCHANGED <<db, wal, tmpWal, release, written, failing, mixed, torn, crashes>>

(* Mutant: the log is not copied. *)
CopyLogNot ==
  /\ pc = "copied"
  /\ pc' = "logged"
  /\ UNCHANGED <<disk, release, written, failing, mixed, torn, crashes>>

CopyLog ==
  /\ pc = "copied"
  /\ tmpWal' = wal
  /\ pc' = "logged"
  /\ UNCHANGED <<db, wal, tmp, release, written, failing, mixed, torn, crashes>>

(* forceWalMode opens the copy and closes it: a file is created if there   *)
(* is none, and the log is written back and removed.                       *)
ForceWalMode ==
  /\ pc = "logged"
  /\ mixed' = (mixed \/ Mixes(tmp, tmpWal))
  /\ tmp' = Recovered(tmp, tmpWal)
  /\ tmpWal' = NoLog
  /\ pc' = "open"
  /\ UNCHANGED <<db, wal, release, written, failing, torn, crashes>>

(* Some migration of this release has not been executed; those of a later  *)
(* release are not asked for.                                              *)
Pending == tmp.recorded < release
Upcoming  == tmp.recorded + 1

(* Nothing to do: the copy is removed, the database is opened as it is. *)
NothingPending ==
  /\ pc = "open"
  /\ ~Pending
  /\ tmp' = NoFile
  /\ pc' = "running"
  /\ mixed' = (mixed \/ Mixes(db, wal))
  /\ UNCHANGED <<db, wal, tmpWal, release, written, failing, torn, crashes>>

(* Mutant: the database in use is migrated, not a copy. *)
ApplyMigrationInPlace ==
  /\ pc = "open" /\ Pending
  /\ failing # Upcoming /\ Runs[tmp.applied][Upcoming]
  /\ tmp' = [tmp EXCEPT !.applied = Upcoming]
  /\ db' = tmp'
  /\ pc' = "applied"
  /\ UNCHANGED <<wal, tmpWal, release, written, failing, mixed, torn, crashes>>

(* The up of the next migration: one transaction, without foreign keys.    *)
ApplyMigration ==
  /\ pc = "open" /\ Pending
  /\ failing # Upcoming /\ Runs[tmp.applied][Upcoming]
  /\ tmp' = [tmp EXCEPT !.applied = Upcoming]
  /\ pc' = "applied"
  /\ UNCHANGED <<db, wal, tmpWal, release, written, failing, mixed, torn, crashes>>

(* migrateToLatest names it in a transaction of its own, and goes on with  *)
(* the next; after the last one the copy is closed.                        *)
RecordMigration ==
  /\ pc = "applied"
  /\ tmp' = [tmp EXCEPT !.recorded = Upcoming, !.id = Upcoming]
  /\ pc' = IF Upcoming = release THEN "migrated" ELSE "open"
  /\ UNCHANGED <<db, wal, tmpWal, release, written, failing, mixed, torn, crashes>>

(* The transaction of the migration fails, for a reason of the computer or *)
(* because its statements do not fit the schema: migrateToLatest returns   *)
(* the error, the application shows it and exits; the copy is kept, the    *)
(* next start takes another directory.                                     *)
MigrationFails ==
  /\ pc = "open" /\ Pending
  /\ failing = Upcoming \/ ~Runs[tmp.applied][Upcoming]
  /\ pc' = "off"
  /\ UNCHANGED <<disk, release, written, failing, mixed, torn, crashes>>

RenameOver ==
  /\ pc = "migrated"
  /\ db' = tmp
  /\ tmp' = NoFile
  /\ pc' = "renamed"
  /\ UNCHANGED <<wal, tmpWal, release, written, failing, mixed, torn, crashes>>

(* Mutant: the old log is left beside the new database. *)
RemoveLogNot ==
  /\ pc = "renamed"
  /\ pc' = "running"
  /\ mixed' = (mixed \/ Mixes(db, wal))
  /\ UNCHANGED <<disk, release, written, failing, torn, crashes>>

(* The log of the old database, if there is one, is removed; then the      *)
(* application opens the database.                                         *)
RemoveLog ==
  /\ pc = "renamed"
  /\ wal' = NoLog
  /\ pc' = "running"
  /\ UNCHANGED <<db, tmp, tmpWal, release, written, failing, mixed, torn, crashes>>

(* rmSync throws: the application exits. *)
RemoveLogFails ==
  /\ pc = "renamed"
  /\ wal # NoLog
  /\ pc' = "off"
  /\ torn' = TRUE
  /\ crashes < MaxCrashes /\ crashes' = crashes + 1
  /\ UNCHANGED <<disk, release, written, failing, mixed>>

(* The application commits to the log. *)
Write(e) ==
  /\ pc = "running"
  /\ e \notin written
  /\ written' = written \cup {e}
  /\ wal' = [rows |-> wal.rows \cup {e}, base |-> db.id]
  /\ UNCHANGED <<db, tmp, tmpWal, pc, release, failing, mixed, torn, crashes>>

(* It ends: the log is written back and removed if the last connection is  *)
(* closed before the process is gone.                                      *)
Quit ==
  /\ pc = "running"
  /\ \/ db' = Recovered(db, wal) /\ wal' = NoLog
     \/ UNCHANGED <<db, wal>>
  /\ pc' = "off"
  /\ UNCHANGED <<tmp, tmpWal, release, written, failing, mixed, torn, crashes>>

(* It is killed: the files stay. *)
Crash ==
  /\ pc # "off"
  /\ crashes < MaxCrashes
  /\ crashes' = crashes + 1
  /\ pc' = "off"
  /\ torn' = (torn \/ (pc = "renamed" /\ wal # NoLog))
  /\ UNCHANGED <<disk, release, written, failing, mixed>>

(* Another release is installed, a later or an earlier one, whose          *)
(* migrations may fail.                                                    *)
Install ==
  /\ pc = "off"
  /\ release' \in Release \ {release}
  /\ failing' \in 0 .. Latest
  /\ UNCHANGED <<disk, pc, written, mixed, torn, crashes>>

Attempt ==
  \/ CopyDatabase \/ CopyLog \/ ForceWalMode \/ NothingPending
  \/ ApplyMigration \/ RecordMigration \/ MigrationFails \/ RenameOver \/ RemoveLog \/ RemoveLogFails

Next == Start \/ Attempt \/ Quit \/ Crash \/ Install \/ \E e \in Edit : Write(e)

Spec == Init /\ [][Next]_vars
-----------------------------------------------------------------------------
(* The values the variables take.  When the application runs, the          *)
(* directory of the attempt is empty: rmdirSync does not fail.             *)
TypeOK ==
  /\ db \in File /\ tmp \in File
  /\ wal \in Log /\ tmpWal \in Log
  /\ pc \in {"off", "started", "copied", "logged", "open", "applied",
             "migrated", "renamed", "running"}
  /\ release \in Release /\ failing \in 0 .. Latest
  /\ written \in SUBSET Edit
  /\ pc \in {"open", "applied", "migrated", "renamed", "running"} => tmpWal = NoLog
  /\ pc \in {"renamed", "running"} => tmp = NoFile
  /\ crashes \in 0 .. MaxCrashes

(* What has been committed is where the next step of the start looks for   *)
(* it.                                                                     *)
CopyHasRows ==
  /\ pc = "copied"  => written \subseteq tmp.rows \cup wal.rows
  /\ pc = "logged"  => written \subseteq tmp.rows \cup tmpWal.rows
  /\ pc \in {"open", "applied", "migrated"} => written \subseteq tmp.rows
  /\ pc = "renamed" => written \subseteq db.rows

(* Every log belongs to the file beside it, but between the rename and the *)
(* removal of the old one.                                                 *)
LogsFit ==
  ~torn =>
    /\ pc # "renamed" => ~Mixes(db, wal)
    /\ pc = "copied" => tmp.id = db.id
    /\ pc = "logged" => ~Mixes(tmp, tmpWal)

(* What is recorded is what has been applied, but between the two          *)
(* transactions of a migration; a copy that has nothing pending when it is *)
(* opened is one of the database in use.                                   *)
RecordsAgree ==
  /\ db.applied = db.recorded
  /\ pc \in {"copied", "logged"} => tmp.recorded = db.recorded
  /\ pc = "open" => tmp.recorded = db.recorded \/ Pending
  /\ pc \in {"copied", "logged", "open", "migrated"} => tmp.applied = tmp.recorded
  /\ pc = "applied" => Pending /\ tmp.applied = Upcoming
  /\ pc = "migrated" => ~Pending
  /\ pc \in {"renamed", "running"} => db.recorded >= release

(* The inductive invariant of the start. *)
StartInv == TypeOK /\ (written \subseteq Recovered(db, wal).rows) /\ CopyHasRows
            /\ LogsFit /\ (mixed => torn) /\ RecordsAgree

(* Whatever has been committed is in the database and its log, before,     *)
(* during and after a migration, a failing one or one that was interrupted. *)
NothingLost == ~mixed => written \subseteq Recovered(db, wal).rows

(* No log is read with a database it was not written for, which would put  *)
(* pages of the old schema over the new one; unless a start ended after    *)
(* the rename and before the log was removed.                              *)
NeverMixed == mixed => torn

(* A migration is committed and recorded in two transactions.  A kill or a *)
(* failure in between, or between two migrations, never shows: whatever    *)
(* was installed and interrupted before, a start meets a schema on which   *)
(* its pending migrations can be executed, and the migrations recorded in  *)
(* the database in use are those that have made its schema, unless logs    *)
(* and files have been mixed.                                              *)
MigrationsApply ==
  ~mixed =>
    /\ pc = "open" /\ Pending => Runs[tmp.applied][Upcoming]
    /\ db.applied = db.recorded

(* The application runs on the schema its queries, upserts and references  *)
(* are written for, that of AppDatabase.mts, if it is the latest release;  *)
(* an earlier one runs on a schema that has at least its own migrations.   *)
RunsOnLatest ==
  pc = "running" /\ ~mixed =>
    /\ db.applied >= release
    /\ release = Latest => Serves(After[db.applied])
=============================================================================
