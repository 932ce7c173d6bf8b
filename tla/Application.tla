---------------------------- MODULE Application -----------------------------
(***************************************************************************)
(* A start of the application and its end (main.mts, MainApp.mts): the     *)
(* migration (Migrate), then the worker, the job schedule and the windows, *)
(* until the windows are closed, run() fails or the process is killed.     *)
(* A step is one event of the main process.                                *)
(***************************************************************************)
EXTENDS Migrate

CONSTANT MaxWindows   \* bound: windows of each kind

ASSUME WindowAssumption == MaxWindows \in Nat \ {0}

VARIABLES
  darwin,      \* process.platform === "darwin"
  ready,       \* Electron has emitted ready
  phase,       \* where MainApp.run() is
  worker,      \* the background thread
  appWindow,   \* MainApp.appWindow is set
  appWindows,  \* the open windows of the application
  gameWindows, \* the open windows of games
  quitting     \* app.quit() has been called

lifecycle == <<ready, phase, worker, appWindow, appWindows, gameWindows, quitting>>
appVars   == <<vars, darwin, lifecycle>>

Phases  == {"none", "worker", "ready", "session", "loading", "done"}
Workers == {"none", "starting", "online", "exited"}

(* The process has ended: nothing of it is left. *)
Ended ==
  /\ ready' = FALSE /\ phase' = "none" /\ worker' = "none"
  /\ appWindow' = FALSE /\ appWindows' = 0 /\ gameWindows' = 0
  /\ quitting' = FALSE

AppInit ==
  /\ Init
  /\ darwin \in BOOLEAN
  /\ ready = FALSE /\ phase = "none" /\ worker = "none"
  /\ appWindow = FALSE /\ appWindows = 0 /\ gameWindows = 0
  /\ quitting = FALSE

(* run: the container, the configuration and the directories are made, an  *)
(* error of which or another instance of the application ends the process  *)
(* with nothing changed; then migrate is called.                           *)
Launch == Start /\ UNCHANGED lifecycle

(* The steps of migrate; an error of it ends the application. *)
MigrateStep ==
  /\ Attempt
  /\ IF pc' = "off" THEN Ended ELSE UNCHANGED lifecycle

(* Another release is installed while the application does not run. *)
InstallRelease == Install /\ UNCHANGED lifecycle

(* Electron, at any time after the start of the process. *)
Ready ==
  /\ pc # "off" /\ ~ready
  /\ ready' = TRUE
  /\ UNCHANGED <<vars, phase, worker, appWindow, appWindows, gameWindows, quitting>>

(* Mutant: the application does not wait for the migration. *)
InvokeAppAtOnce ==
  /\ pc \in {"open", "running"} /\ phase = "none"
  /\ phase' = "worker" /\ worker' = "starting"
  /\ UNCHANGED <<vars, ready, appWindow, appWindows, gameWindows, quitting>>

(* migrate() is fulfilled: the services are created, run() listens to the  *)
(* events of the application and starts the worker.                        *)
InvokeApp ==
  /\ pc = "running" /\ phase = "none"
  /\ phase' = "worker" /\ worker' = "starting"
  /\ UNCHANGED <<vars, ready, appWindow, appWindows, gameWindows, quitting>>

(* Mutant: the promise of start() is forgotten. *)
WorkerOnlineQuietly ==
  /\ worker = "starting"
  /\ worker' = "online"
  /\ UNCHANGED <<vars, ready, phase, appWindow, appWindows, gameWindows, quitting>>

(* online: start() is fulfilled. *)
WorkerOnline ==
  /\ worker = "starting"
  /\ worker' = "online" /\ phase' = "ready"
  /\ UNCHANGED <<vars, ready, appWindow, appWindows, gameWindows, quitting>>

(* Nobody listens to exit or error: before it is online, start() is never  *)
(* settled.                                                                *)
WorkerExits ==
  /\ worker \in {"starting", "online"}
  /\ worker' = "exited"
  /\ UNCHANGED <<vars, ready, phase, appWindow, appWindows, gameWindows, quitting>>

(* startRenderer, after whenReady: the first tick of the job schedule. *)
StartTicking ==
  /\ phase = "ready" /\ ready
  /\ phase' = "session"
  /\ UNCHANGED <<vars, ready, worker, appWindow, appWindows, gameWindows, quitting>>

(* The session is configured, the window is created and loads. *)
CreateWindow ==
  /\ phase = "session"
  /\ phase' = "loading"
  /\ appWindow' = TRUE
  /\ appWindows' = appWindows + 1
  /\ UNCHANGED <<vars, ready, worker, gameWindows, quitting>>

WindowLoaded ==
  /\ phase = "loading"
  /\ phase' = "done"
  /\ UNCHANGED <<vars, ready, worker, appWindow, appWindows, gameWindows, quitting>>

(* The proxy is refused, or the window is closed while it loads: run() is  *)
(* rejected, and after the message app.exit ends the process.              *)
RunFails ==
  /\ phase \in {"session", "loading"}
  /\ Quit /\ Ended

(* onActivate, on a Mac: at the start of the application, too.  Before it  *)
(* is ready no window can be created.  appWindow is never unset.           *)
Activate ==
  /\ darwin /\ phase # "none" /\ ready /\ ~quitting
  /\ ~appWindow
  /\ appWindow' = TRUE
  /\ appWindows' = appWindows + 1
  /\ UNCHANGED <<vars, ready, phase, worker, gameWindows, quitting>>

(* HtmlGamePlayService.startGame, called from a window. *)
StartGame ==
  /\ appWindows > 0 /\ ~quitting
  /\ gameWindows < MaxWindows
  /\ gameWindows' = gameWindows + 1
  /\ UNCHANGED <<vars, ready, phase, worker, appWindow, appWindows, quitting>>

(* onWindowAllClosed, as the last window, of a or of b, is closed. *)
AllClosed(a, b) == quitting' = (quitting \/ (a + b = 1 /\ ~darwin))

CloseWindow ==
  /\ \/ /\ appWindows > 0
        /\ appWindows' = appWindows - 1 /\ UNCHANGED gameWindows
     \/ /\ gameWindows > 0
        /\ gameWindows' = gameWindows - 1 /\ UNCHANGED appWindows
  /\ AllClosed(appWindows, gameWindows)
  /\ UNCHANGED <<vars, ready, phase, worker, appWindow>>

(* The user quits the application. *)
QuitByUser ==
  /\ ready /\ phase # "none" /\ ~quitting
  /\ quitting' = TRUE
  /\ UNCHANGED <<vars, ready, phase, worker, appWindow, appWindows, gameWindows>>

(* app.quit closes what is open and ends the process: nothing waits for    *)
(* jobs, the connections are closed with the environment.                  *)
EndProcess ==
  /\ quitting
  /\ Quit /\ Ended

(* What the jobs and the calls of the renderer commit. *)
Commit ==
  /\ phase \in {"session", "loading", "done"} \/ appWindows > 0
  /\ \E e \in Edit : Write(e)
  /\ UNCHANGED lifecycle

Killed == Crash /\ Ended

Begun == InvokeApp \/ StartTicking \/ CreateWindow \/ WindowLoaded \/ RunFails

AppNext ==
  /\ \/ Launch \/ MigrateStep \/ InstallRelease \/ Ready
     \/ InvokeApp \/ WorkerOnline \/ WorkerExits \/ StartTicking \/ CreateWindow
     \/ WindowLoaded \/ RunFails
     \/ Activate \/ StartGame \/ CloseWindow \/ QuitByUser \/ EndProcess
     \/ Commit \/ Killed
  /\ UNCHANGED darwin

AppSpec == AppInit /\ [][AppNext]_appVars

(* What was started goes on: files are copied, promises continued, Electron *)
(* becomes ready, and the worker comes online unless it exits.  Nobody has  *)
(* to close a window, but app.quit ends the process.                        *)
AppFairness ==
  /\ WF_appVars(MigrateStep /\ UNCHANGED darwin)
  /\ WF_appVars(Ready /\ UNCHANGED darwin)
  /\ WF_appVars(Begun /\ UNCHANGED darwin)
  /\ WF_appVars(WorkerOnline /\ UNCHANGED darwin)
  /\ WF_appVars(EndProcess /\ UNCHANGED darwin)

FairAppSpec == AppSpec /\ AppFairness
-----------------------------------------------------------------------------
(* The values the variables take. *)
AppTypeOK ==
  /\ TypeOK
  /\ darwin \in BOOLEAN /\ ready \in BOOLEAN
  /\ phase \in Phases /\ worker \in Workers
  /\ appWindow \in BOOLEAN /\ quitting \in BOOLEAN
  /\ appWindows \in 0 .. 2        \* that of run() and that of onActivate
  /\ gameWindows \in 0 .. MaxWindows

(* main.mts applies the migrations "before starting the app in order to    *)
(* avoid DB access", MainApp.mts starts the worker after them: nothing     *)
(* that may use the database exists before it has been migrated.           *)
MigratedFirst ==
  worker # "none" \/ appWindows > 0 \/ gameWindows > 0 => pc = "running"

(* How far run() is, what it has started, and what onActivate may have     *)
(* done before it.                                                         *)
StartOrder ==
  /\ phase # "none" => pc = "running"
  /\ worker = "none" <=> phase = "none"
  /\ worker = "starting" => phase = "worker"
  /\ phase \in {"loading", "done"} => appWindow
  /\ appWindow => phase # "none"
  /\ ~appWindow => appWindows = 0
  /\ phase \notin {"loading", "done"} => appWindows <= 1

(* The inductive invariant: the values the variables take, the order of    *)
(* the start, and what the migration relies on.                            *)
AppInv == AppTypeOK /\ MigratedFirst /\ StartOrder /\ StartInv

(* A start shows a window or ends the application, with a message or not,  *)
(* unless the worker exits before it is online: then it waits for ever.    *)
StartShows ==
  pc = "started" ~> (appWindows > 0 \/ pc = "off" \/ worker = "exited")
=============================================================================
