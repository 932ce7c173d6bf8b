---------------------------- MODULE ProcessProofs ----------------------------
(***************************************************************************)
(* The processes: how the application starts on its database files, and    *)
(* how a process calls another.  For all sets of edits, any number of      *)
(* kills and windows, and releases in any order: the inductive invariant   *)
(* AppInv and what follows from it.  For any calls, any number of          *)
(* transaction ids and an exit at any time: the calls outstanding are      *)
(* those under way, and each is settled with the result of its own         *)
(* execution.                                                              *)
(***************************************************************************)
EXTENDS Application, Rpc, Integers, TLAPS

LEMMA LatestIsNat == Latest \in Nat /\ Latest >= 1
BY DEF Latest, Up

(* The next migration of a copy fits its schema. *)
LEMMA NextFits ==
  ASSUME TypeOK, Pending, tmp.applied = tmp.recorded
  PROVE  Runs[tmp.applied][Upcoming] /\ Upcoming \in 1 .. release
<1>1. tmp.applied \in 0 .. Latest - 1
  BY LatestIsNat DEF TypeOK, File, Pending, Release
<1> QED
  BY <1>1, LatestIsNat, MigrationsFit DEF TypeOK, File, Pending, Upcoming, Release

-----------------------------------------------------------------------------
(* The initial state satisfies the invariant of the start. *)
LEMMA InitStartInv == Init => StartInv
BY LatestIsNat, BoundAssumption
DEF Init, StartInv, TypeOK, CopyHasRows, LogsFit, RecordsAgree, Mixes, Recovered,
    NoFile, NoLog, File, Log

(* Every step of the migration and of the database in use keeps it. *)
LEMMA NextStartInv == StartInv /\ [Next]_vars => StartInv'
<1> SUFFICES ASSUME StartInv, [Next]_vars PROVE StartInv'
  OBVIOUS
<1> USE LatestIsNat, BoundAssumption
    DEF StartInv, TypeOK, CopyHasRows, LogsFit, RecordsAgree, Mixes, Recovered,
        File, Log, disk, Pending, Upcoming, NoFile, NoLog, Release
<1>a. NoFile \in File /\ NoLog \in Log
  OBVIOUS
<1>1. CASE Start
  BY <1>1 DEF Start
<1>2. CASE CopyDatabase
  BY <1>2 DEF CopyDatabase
<1>3. CASE CopyLog
  BY <1>3 DEF CopyLog
<1>4. CASE ForceWalMode
  BY <1>4 DEF ForceWalMode
<1>5. CASE NothingPending
  <2>1. torn \/ ~Mixes(db, wal)
    BY <1>5 DEF NothingPending
  <2>2. tmp.recorded >= release /\ tmp.recorded = db.recorded
    BY <1>5 DEF NothingPending
  <2>3. mixed' => torn'
    BY <1>5, <2>1 DEF NothingPending
  <2>4. TypeOK'
    BY <1>5, <1>a DEF NothingPending
  <2> QED
    BY <1>5, <2>1, <2>2, <2>3, <2>4 DEF NothingPending
<1>6. CASE ApplyMigration
  BY <1>6 DEF ApplyMigration
<1>7. CASE RecordMigration
  <2>1. tmp.recorded \in 0 .. Latest - 1 /\ tmp.recorded < release
    BY <1>7 DEF RecordMigration
  <2>2. tmp' = [tmp EXCEPT !.recorded = tmp.recorded + 1, !.id = tmp.recorded + 1]
    BY <1>7 DEF RecordMigration
  <2>6. tmp' \in File /\ tmp'.rows = tmp.rows
    <3> HIDE DEF StartInv, TypeOK, CopyHasRows, LogsFit, RecordsAgree, Mixes, Recovered, NoFile, NoLog
    <3>1. tmp \in File /\ tmp.recorded + 1 \in 0 .. Latest /\ tmp.recorded + 1 \in Nat
      BY <2>1 DEF StartInv, TypeOK
    <3> QED
      BY <2>2, <3>1
  <2>3. tmp'.applied = tmp.applied /\ tmp'.recorded = tmp.recorded + 1
    BY <1>7, <2>1 DEF RecordMigration
  <2>4. TypeOK'
    BY <1>7, <2>6 DEF RecordMigration
  <2>5. RecordsAgree'
    BY <1>7, <2>1, <2>3 DEF RecordMigration
  <2> QED
    BY <1>7, <2>6, <2>4, <2>5 DEF RecordMigration
<1>8. CASE MigrationFails
  BY <1>8 DEF MigrationFails
<1>9. CASE RenameOver
  BY <1>9 DEF RenameOver
<1>10. CASE RemoveLog
  BY <1>10 DEF RemoveLog
<1>11. CASE RemoveLogFails
  BY <1>11 DEF RemoveLogFails
<1>12. CASE Quit
  BY <1>12 DEF Quit
<1>13. CASE Crash
  <2>1. ~torn' => ~Mixes(db, wal)
    BY <1>13 DEF Crash
  <2>2. TypeOK'
    BY <1>13 DEF Crash
  <2>3. LogsFit'
    BY <1>13, <2>1 DEF Crash
  <2>4. RecordsAgree' /\ CopyHasRows'
    BY <1>13 DEF Crash
  <2> QED
    BY <1>13, <2>2, <2>3, <2>4 DEF Crash
<1>14. CASE Install
  BY <1>14 DEF Install
<1>15. ASSUME NEW e \in Edit, Write(e) PROVE StartInv'
  BY <1>15 DEF Write
<1>16. CASE UNCHANGED vars
  BY <1>16 DEF vars
<1> QED
  BY <1>1, <1>2, <1>3, <1>4, <1>5, <1>6, <1>7, <1>8, <1>9, <1>10, <1>11,
     <1>12, <1>13, <1>14, <1>15, <1>16 DEF Next, Attempt

-----------------------------------------------------------------------------
(* The initial state satisfies the invariant of the application. *)
LEMMA InitAppInv == AppInit => AppInv
<1> SUFFICES ASSUME AppInit PROVE AppInv
  OBVIOUS
<1>1. StartInv /\ TypeOK
  BY InitStartInv DEF AppInit, StartInv
<1>2. AppTypeOK
  <2>1. appWindows \in 0 .. 2 /\ gameWindows \in 0 .. MaxWindows
    BY WindowAssumption DEF AppInit
  <2> QED
    BY <1>1, <2>1, Zenon DEF AppInit, AppTypeOK, Phases, Workers
<1>3. MigratedFirst
  BY DEF AppInit, MigratedFirst
<1>4. StartOrder
  BY DEF AppInit, StartOrder
<1> QED
  BY <1>1, <1>2, <1>3, <1>4 DEF AppInv

(* What a step of the start or of the application does to the files is a   *)
(* step of Migrate, or leaves them alone.                                  *)
LEMMA StepsAreMigrate == [AppNext]_appVars => [Next]_vars
BY DEF AppNext, appVars, Launch, MigrateStep, InstallRelease, Ready, InvokeApp,
       WorkerOnline, WorkerExits, StartTicking, CreateWindow, WindowLoaded, RunFails,
       Activate, StartGame, CloseWindow, QuitByUser, EndProcess, Commit, Killed, Next

(* The end of the process leaves nothing of it. *)
LEMMA EndedIsOrdered ==
  ASSUME AppInv, StartInv', Ended, UNCHANGED darwin
  PROVE  AppInv'
<1>1. TypeOK'
  BY DEF StartInv
<1>2. AppTypeOK'
  <2>1. appWindows' \in 0 .. 2 /\ gameWindows' \in 0 .. MaxWindows
    BY WindowAssumption DEF Ended
  <2> QED
    BY <1>1, <2>1, Zenon DEF AppInv, Ended, AppTypeOK, Phases, Workers
<1>3. MigratedFirst'
  BY DEF Ended, MigratedFirst
<1>4. StartOrder'
  BY DEF Ended, StartOrder
<1> QED
  BY <1>1, <1>2, <1>3, <1>4 DEF AppInv

(* Every step keeps the invariant. *)
LEMMA NextAppInv == AppInv /\ [AppNext]_appVars => AppInv'
<1> SUFFICES ASSUME AppInv, [AppNext]_appVars PROVE AppInv'
  OBVIOUS
<1>1. StartInv'
  BY StepsAreMigrate, NextStartInv DEF AppInv
<1>2. TypeOK'
  BY <1>1 DEF StartInv
<1>3. CASE UNCHANGED appVars
  BY <1>1, <1>2, <1>3
  DEF appVars, vars, lifecycle, AppInv, AppTypeOK, MigratedFirst, StartOrder
<1>4. ASSUME AppNext, Ended PROVE AppInv'
  BY <1>1, <1>4, EndedIsOrdered DEF AppNext
<1> USE <1>1, <1>2, WindowAssumption
    DEF AppInv, AppTypeOK, MigratedFirst, StartOrder, lifecycle, Phases, Workers
<1>5. CASE Launch /\ UNCHANGED darwin
  BY <1>5 DEF Launch, Start
<1>6. ASSUME MigrateStep, UNCHANGED darwin, pc' # "off" PROVE AppInv'
  <2>1. pc # "running" /\ UNCHANGED lifecycle
    BY <1>6 DEF MigrateStep, Attempt, CopyDatabase, CopyLog, ForceWalMode, NothingPending,
                ApplyMigration, RecordMigration, MigrationFails, RenameOver, RemoveLog,
                RemoveLogFails
  <2> QED
    BY <1>6, <2>1
<1>7. CASE InstallRelease /\ UNCHANGED darwin
  BY <1>7 DEF InstallRelease, Install
<1>8. CASE Ready /\ UNCHANGED darwin
  BY <1>8 DEF Ready, vars
<1>9. CASE InvokeApp /\ UNCHANGED darwin
  BY <1>9 DEF InvokeApp, vars
<1>10. CASE WorkerOnline /\ UNCHANGED darwin
  BY <1>10 DEF WorkerOnline, vars
<1>11. CASE WorkerExits /\ UNCHANGED darwin
  BY <1>11 DEF WorkerExits, vars
<1>12. CASE StartTicking /\ UNCHANGED darwin
  BY <1>12 DEF StartTicking, vars
<1>13. CASE CreateWindow /\ UNCHANGED darwin
  BY <1>13 DEF CreateWindow, vars
<1>14. CASE WindowLoaded /\ UNCHANGED darwin
  BY <1>14 DEF WindowLoaded, vars
<1>15. CASE Activate /\ UNCHANGED darwin
  BY <1>15 DEF Activate, vars
<1>16. CASE StartGame /\ UNCHANGED darwin
  BY <1>16 DEF StartGame, vars
<1>17. CASE CloseWindow /\ UNCHANGED darwin
  BY <1>17 DEF CloseWindow, AllClosed, vars
<1>18. CASE QuitByUser /\ UNCHANGED darwin
  BY <1>18 DEF QuitByUser, vars
<1>19. CASE Commit /\ UNCHANGED darwin
  BY <1>19 DEF Commit, Write
<1> QED
  BY <1>3, <1>4, <1>5, <1>6, <1>7, <1>8, <1>9, <1>10, <1>11, <1>12, <1>13, <1>14,
     <1>15, <1>16, <1>17, <1>18, <1>19
  DEF AppNext, MigrateStep, RunFails, EndProcess, Killed

-----------------------------------------------------------------------------
(* A start of main.mts: nothing that may use the database exists before it *)
(* has been migrated, and there are at most two windows, whatever Electron, *)
(* the worker and the user do when.                                        *)
THEOREM AppInvHolds == AppSpec => []AppInv
BY InitAppInv, NextAppInv, PTL DEF AppSpec

(* Whatever has been committed stays in the database and its log, however  *)
(* often a start is killed or a migration fails (migrate.mts).             *)
THEOREM NothingIsLost == AppSpec => []NothingLost
<1>1. AppInv => NothingLost
  BY DEF AppInv, StartInv, NothingLost
<1> QED
  BY <1>1, AppInvHolds, PTL

(* A log is read with a file it was not written for only after a start     *)
(* ended between the rename and the removal of the log.                    *)
THEOREM NeverMixedUnlessTorn == AppSpec => []NeverMixed
<1>1. AppInv => NeverMixed
  BY DEF AppInv, StartInv, NeverMixed
<1> QED
  BY <1>1, AppInvHolds, PTL

(* Whatever was installed, failed or was killed before, the migrations a   *)
(* start finds pending can be executed, and those recorded in the database *)
(* in use have made its schema.                                            *)
THEOREM MigrationsAlwaysApply == AppSpec => []MigrationsApply
<1>1. AppInv => MigrationsApply
  BY NextFits DEF AppInv, StartInv, RecordsAgree, MigrationsApply
<1> QED
  BY <1>1, AppInvHolds, PTL

(* If all migrations together make the schema of AppDatabase.mts, then the *)
(* latest release never runs on another one.                               *)
THEOREM LatestRunsOnLatest ==
  ASSUME Serves(After[Latest])
  PROVE  AppSpec => []RunsOnLatest
<1>1. AppInv => RunsOnLatest
  <2> SUFFICES ASSUME AppInv, pc = "running" PROVE RunsOnLatest
    BY DEF RunsOnLatest
  <2>1. db.applied >= release /\ db.applied \in 0 .. Latest /\ release \in 1 .. Latest
    BY LatestIsNat DEF AppInv, StartInv, RecordsAgree, TypeOK, File, Release
  <2>2. release = Latest => db.applied = Latest
    BY <2>1, LatestIsNat
  <2> QED
    BY <2>1, <2>2 DEF RunsOnLatest
<1> QED
  BY <1>1, AppInvHolds, PTL

-----------------------------------------------------------------------------
(* What sending a message under an id that is not under way does. *)
LEMMA AppendIds ==
  ASSUME NEW S, NEW s \in Seq(S), NEW m \in S
  PROVE  /\ Append(s, m) \in Seq(S)
         /\ Ids(Append(s, m)) = Ids(s) \cup {<<m.txn, m.call>>}
         /\ OncePerId(s) /\ (\A p \in Ids(s) : p[1] # m.txn) => OncePerId(Append(s, m))
<1> DEFINE t == Append(s, m)
<1>1. /\ t \in Seq(S) /\ DOMAIN s = 1 .. Len(s) /\ Len(s) \in Nat
      /\ DOMAIN t = 1 .. Len(s) + 1
      /\ \A i \in 1 .. Len(s) : t[i] = s[i]
      /\ t[Len(s) + 1] = m
  OBVIOUS
<1> HIDE DEF t
<1>2. \A i \in DOMAIN t : i \in DOMAIN s \/ i = Len(s) + 1
  BY <1>1
<1>3. Ids(t) = Ids(s) \cup {<<m.txn, m.call>>}
  <2>1. Ids(t) \subseteq Ids(s) \cup {<<m.txn, m.call>>}
    BY <1>1, <1>2 DEF Ids
  <2>2. Ids(s) \subseteq Ids(t) /\ <<m.txn, m.call>> \in Ids(t)
    BY <1>1 DEF Ids
  <2> QED
    BY <2>1, <2>2
<1>4. ASSUME OncePerId(s), \A p \in Ids(s) : p[1] # m.txn PROVE OncePerId(t)
  <2>1. \A i \in DOMAIN s : s[i].txn # m.txn
    <3> SUFFICES ASSUME NEW i \in DOMAIN s PROVE s[i].txn # m.txn
      OBVIOUS
    <3>1. <<s[i].txn, s[i].call>> \in Ids(s)
      BY DEF Ids
    <3>2. <<s[i].txn, s[i].call>>[1] # m.txn
      BY <1>4, <3>1, Zenon
    <3> QED
      BY <3>2
  <2> QED
    BY <1>1, <1>2, <1>4, <2>1 DEF OncePerId
<1> QED
  BY <1>1, <1>3, <1>4 DEF t

(* What receiving a message does. *)
LEMMA TailIds ==
  ASSUME NEW S, NEW s \in Seq(S), s # <<>>, OncePerId(s)
  PROVE  /\ Tail(s) \in Seq(S) /\ Head(s) \in S
         /\ <<Head(s).txn, Head(s).call>> \in Ids(s)
         /\ Ids(Tail(s)) = Ids(s) \ {<<Head(s).txn, Head(s).call>>}
         /\ \A p \in Ids(Tail(s)) : p[1] # Head(s).txn
         /\ OncePerId(Tail(s))
<1> DEFINE t == Tail(s)
<1>1. /\ t \in Seq(S) /\ DOMAIN s = 1 .. Len(s) /\ Len(s) \in Nat \ {0}
      /\ DOMAIN t = 1 .. Len(s) - 1
      /\ \A i \in 1 .. Len(s) - 1 : t[i] = s[i + 1]
      /\ Head(s) = s[1] /\ s[1] \in S
  OBVIOUS
<1> HIDE DEF t
<1>2. \A i \in DOMAIN s : i = 1 \/ (i - 1 \in DOMAIN t /\ t[i - 1] = s[i])
  BY <1>1
<1>3. \A i \in DOMAIN t : i + 1 \in DOMAIN s /\ i + 1 # 1 /\ 1 \in DOMAIN s
  BY <1>1
<1>4. \A p \in Ids(t) : p[1] # s[1].txn /\ p \in Ids(s)
  BY <1>1, <1>3 DEF Ids, OncePerId
<1>5. Ids(t) = Ids(s) \ {<<s[1].txn, s[1].call>>}
  <2>1. Ids(t) \subseteq Ids(s) \ {<<s[1].txn, s[1].call>>}
    BY <1>4
  <2>2. Ids(s) \ {<<s[1].txn, s[1].call>>} \subseteq Ids(t)
    BY <1>1, <1>2 DEF Ids
  <2> QED
    BY <2>1, <2>2
<1>6. OncePerId(t)
  <2> SUFFICES ASSUME NEW i \in DOMAIN t, NEW j \in DOMAIN t, t[i].txn = t[j].txn
               PROVE  i = j
    BY DEF OncePerId
  <2>1. i \in Int /\ j \in Int /\ s[i + 1].txn = s[j + 1].txn
    BY <1>1
  <2> QED
    BY <2>1, <1>3 DEF OncePerId
<1>7. <<s[1].txn, s[1].call>> \in Ids(s)
  BY <1>1 DEF Ids
<1> QED
  BY <1>1, <1>4, <1>5, <1>6, <1>7 DEF t

(* The ids wrap. *)
LEMMA NextIsTxn == ASSUME txnGenerator \in Txn PROVE NextTxn \in Txn
BY IdAssumption DEF Txn, NextTxn

-----------------------------------------------------------------------------
(* The initial state satisfies the inductive invariant. *)
LEMMA InitRpcInv == RpcInit => RpcInv
<1> SUFFICES ASSUME RpcInit PROVE RpcInv
  OBVIOUS
<1>1. RpcTypeOK
  BY DEF RpcInit, RpcTypeOK, Outcomes, Transports, Request, Result
<1>2. UnderWay = {}
  BY DEF RpcInit, UnderWay, Ids, Executing
<1>3. CallsAccounted
  BY DEF RpcInit, CallsAccounted
<1>4. OneOfEach
  BY DEF RpcInit, OneOfEach, OncePerId, Ids, Executing
<1>5. CallsKnown
  BY <1>2, CallAssumption DEF RpcInit, CallsKnown
<1> QED
  BY <1>1, <1>3, <1>4, <1>5 DEF RpcInv

(* A call that is under way is known under its id and outstanding. *)
LEMMA PendingIsOutstanding ==
  ASSUME RpcInv, transport = "online", NEW p \in UnderWay
  PROVE  p[1] \in Txn /\ p[2] = executingCalls[p[1]] /\ p[2] \in Outstanding
BY DEF RpcInv, CallsAccounted

(* An answer takes the place of what it answers. *)
LEMMA AnswerIsAccounted ==
  ASSUME RpcInv, transport = "online", UNCHANGED <<txnGenerator, executingCalls, called, settled, transport>>,
         RpcTypeOK', UnderWay' = UnderWay, OneOfEach'
  PROVE  RpcInv'
<1>1. Outstanding' = Outstanding
  BY DEF Outstanding, Outcome
<1>2. CallsAccounted'
  BY <1>1 DEF RpcInv, CallsAccounted
<1>3. CallsKnown'
  BY DEF RpcInv, CallsKnown
<1> QED
  BY <1>2, <1>3 DEF RpcInv

(* A call that throws is not known to the dispatcher. *)
LEMMA TooEarlyKeepsInv ==
  ASSUME RpcInv, NEW c \in Call, CallTooEarly(c)
  PROVE  RpcInv'
<1> USE DEF RpcInv, CallTooEarly
<1>1. RpcTypeOK'
  BY DEF RpcTypeOK, Outcomes
<1>2. CallsAccounted'
  BY DEF CallsAccounted
<1>3. OneOfEach'
  BY DEF OneOfEach, Ids, Executing
<1>4. CallsKnown'
  <2>1. UnderWay' = {}
    BY DEF CallsKnown, UnderWay, Ids, Executing
  <2> QED
    BY <2>1 DEF CallsKnown, RpcTypeOK
<1> QED
  BY <1>1, <1>2, <1>3, <1>4

(* A new call is outstanding, and under way unless the transport is closed. *)
LEMMA DispatchKeepsInv ==
  ASSUME RpcInv, NEW c \in Call, Dispatch(c)
  PROVE  RpcInv'
<1> DEFINE q == [txn |-> txnGenerator, call |-> c]
<1>0. /\ RpcTypeOK /\ CallsAccounted /\ OneOfEach /\ CallsKnown
      /\ txnGenerator \in Txn /\ q \in Request
  BY DEF RpcInv, RpcTypeOK, Request
<1>1. RpcTypeOK'
  <2>1. requests' \in Seq(Request)
    BY <1>0, AppendIds DEF RpcTypeOK, Dispatch
  <2> QED
    BY <1>0, <2>1, NextIsTxn DEF RpcTypeOK, Dispatch
<1>2. /\ \A t \in Txn : executingCalls'[t] = IF t = txnGenerator THEN c ELSE executingCalls[t]
      /\ c \notin called /\ called' = called \cup {c} /\ settled' = settled
      /\ transport' = transport /\ transport # "starting"
      /\ executingCalls[txnGenerator] \notin Outstanding
  BY <1>0 DEF Dispatch, RpcTypeOK
<1>3. Outstanding' = Outstanding \cup {c} /\ c \notin Outstanding
  BY <1>0, <1>2 DEF Outstanding, Outcome, CallsKnown
<1>4. CASE transport = "closed"
  <2>1. UnderWay' = UnderWay
    BY <1>4 DEF Dispatch, UnderWay, Ids, Executing
  <2>2. CallsAccounted'
    BY <1>2, <1>4 DEF CallsAccounted
  <2>3. OneOfEach'
    BY <1>0, <1>4 DEF Dispatch, OneOfEach, OncePerId, Ids, Executing
  <2>4. CallsKnown'
    BY <1>0, <1>2, <1>4, <2>1, CallAssumption DEF CallsKnown, RpcTypeOK
  <2> QED
    BY <1>1, <2>2, <2>3, <2>4 DEF RpcInv
<1>5. CASE transport # "closed"
  <2>1. transport = "online" /\ requests' = Append(requests, q)
    BY <1>0, <1>2, <1>5 DEF RpcTypeOK, Transports, Dispatch
  <2>2. \A p \in UnderWay : p[1] # txnGenerator
    BY <1>2, <2>1, PendingIsOutstanding
  <2>3. /\ Ids(requests') = Ids(requests) \cup {<<txnGenerator, c>>}
        /\ OncePerId(requests')
    BY <1>0, <2>1, <2>2, AppendIds DEF OneOfEach, UnderWay, RpcTypeOK
  <2>4. Executing' = Executing /\ Ids(results)' = Ids(results) /\ OncePerId(results)'
    BY <1>0 DEF Dispatch, Executing, Ids, OneOfEach, OncePerId
  <2>5. UnderWay' = UnderWay \cup {<<txnGenerator, c>>}
    BY <2>3, <2>4 DEF UnderWay
  <2>6. CallsAccounted'
    <3>1. {u \in Txn : executingCalls'[u] \in Outstanding'}
            = {u \in Txn : executingCalls[u] \in Outstanding} \cup {txnGenerator}
      BY <1>0, <1>2, <1>3, CallAssumption DEF CallsKnown
    <3> QED
      BY <1>0, <1>2, <2>1, <2>5, <3>1 DEF CallsAccounted
  <2>7. OneOfEach'
    BY <1>0, <2>2, <2>3, <2>4 DEF OneOfEach, UnderWay, Dispatch
  <2>8. CallsKnown'
    BY <1>0, <1>2, <2>1, CallAssumption DEF CallsKnown, RpcTypeOK
  <2> QED
    BY <1>1, <2>6, <2>7, <2>8 DEF RpcInv
<1> QED
  BY <1>4, <1>5

(* The result is the one of the call known under its id, which is settled. *)
LEMMA ReceiveKeepsInv ==
  ASSUME RpcInv, ReceiveResult
  PROVE  /\ RpcInv'
         /\ \A c \in Call : settled'[c] \in {settled[c], <<Head(results).outcome, c>>}
<1> DEFINE r == Head(results)
<1>0. /\ RpcTypeOK /\ CallsAccounted /\ OneOfEach /\ CallsKnown
      /\ transport = "online" /\ results # <<>> /\ results \in Seq(Result)
      /\ UNCHANGED <<txnGenerator, executingCalls, called, requests, running, transport>>
  BY DEF RpcInv, ReceiveResult, RpcTypeOK
<1>1. /\ r \in Result /\ results' \in Seq(Result)
      /\ <<r.txn, r.call>> \in Ids(results)
      /\ Ids(results)' = Ids(results) \ {<<r.txn, r.call>>}
      /\ OncePerId(results)'
  BY <1>0, TailIds DEF ReceiveResult, OneOfEach
<1>2. /\ r.txn \in Txn /\ r.call \in Call /\ r.outcome \in {"value", "error"}
      /\ r.call = executingCalls[r.txn] /\ r.call \in Outstanding
  BY <1>0, <1>1, PendingIsOutstanding DEF UnderWay, Result
<1>3. /\ settled' \in [Call -> Outcomes \X (Call \cup {NoCall})]
      /\ settled'[r.call] = <<r.outcome, r.call>>
      /\ \A c \in Call \ {r.call} : settled'[c] = settled[c]
  BY <1>0, <1>2 DEF ReceiveResult, Settle, Outcomes, RpcTypeOK, Outstanding
<1>4. Outstanding' = Outstanding \ {r.call}
  BY <1>0, <1>2, <1>3 DEF Outstanding, Outcome, RpcTypeOK
<1>5. Ids(requests)' = Ids(requests) /\ Executing' = Executing /\ OncePerId(requests)'
  BY <1>0 DEF Ids, Executing, OneOfEach, OncePerId
<1>6. UnderWay' = UnderWay \ {<<r.txn, r.call>>}
  BY <1>0, <1>1, <1>5 DEF UnderWay, OneOfEach
<1>7. RpcTypeOK'
  BY <1>0, <1>1, <1>3 DEF RpcTypeOK
<1>8. CallsAccounted'
  <2>1. {u \in Txn : executingCalls'[u] \in Outstanding'}
          = {u \in Txn : executingCalls[u] \in Outstanding} \ {r.txn}
    BY <1>0, <1>2, <1>4, CallAssumption DEF CallsKnown
  <2> QED
    BY <1>0, <1>2, <1>6, <2>1 DEF CallsAccounted
<1>9. OneOfEach'
  BY <1>0, <1>1, <1>5 DEF OneOfEach
<1>10. CallsKnown'
  BY <1>0, <1>2, <1>3 DEF CallsKnown, Outstanding
<1> QED
  BY <1>2, <1>3, <1>7, <1>8, <1>9, <1>10 DEF RpcInv

(* A call becomes its answer, or runs. *)
LEMMA CallProcedureKeepsInv ==
  ASSUME RpcInv, CallProcedure
  PROVE  RpcInv'
<1> DEFINE q == Head(requests)
<1>0. /\ RpcTypeOK /\ OneOfEach /\ requests # <<>> /\ requests \in Seq(Request)
      /\ results \in Seq(Result) /\ transport = "online"
      /\ UNCHANGED <<txnGenerator, executingCalls, called, settled, transport>>
  BY DEF RpcInv, CallProcedure, RpcTypeOK
<1>1. /\ q \in Request /\ requests' \in Seq(Request)
      /\ <<q.txn, q.call>> \in Ids(requests)
      /\ Ids(requests)' = Ids(requests) \ {<<q.txn, q.call>>}
      /\ \A p \in Ids(requests)' : p[1] # q.txn
      /\ OncePerId(requests)'
  BY <1>0, TailIds DEF CallProcedure, OneOfEach
<1>2. /\ q.txn \in Txn /\ q.call \in Call
      /\ \A p \in Executing \cup Ids(results) : p[1] # q.txn
  BY <1>0, <1>1 DEF Request, OneOfEach
<1>3. ASSUME NEW o \in {"value", "error"}, Post(q.txn, q.call, o), UNCHANGED running
      PROVE  RpcInv'
  <2> DEFINE m == [txn |-> q.txn, call |-> q.call, outcome |-> o]
  <2>1. m \in Result /\ m.txn = q.txn /\ m.call = q.call
    BY <1>2 DEF Result
  <2>2. /\ results' \in Seq(Result) /\ OncePerId(results)'
        /\ Ids(results)' = Ids(results) \cup {<<q.txn, q.call>>}
    BY <1>0, <1>2, <1>3, <2>1, AppendIds DEF Post, OneOfEach
  <2>3. Executing' = Executing /\ running' = running
    BY <1>3 DEF Executing
  <2>4. RpcTypeOK'
    BY <1>0, <1>1, <2>2, <2>3 DEF RpcTypeOK
  <2>5. UnderWay' = UnderWay
    BY <1>1, <2>2, <2>3 DEF UnderWay
  <2>6. OneOfEach'
    BY <1>0, <1>1, <1>2, <2>2, <2>3 DEF OneOfEach
  <2> QED
    BY <1>0, <2>4, <2>5, <2>6, AnswerIsAccounted
<1>4. ASSUME running' = running \cup {q}, UNCHANGED results
      PROVE  RpcInv'
  <2>1. Executing' = Executing \cup {<<q.txn, q.call>>}
    BY <1>4 DEF Executing
  <2>2. Ids(results)' = Ids(results) /\ OncePerId(results)'
    BY <1>0, <1>4 DEF Ids, OneOfEach, OncePerId
  <2>3. RpcTypeOK'
    BY <1>0, <1>1, <1>4 DEF RpcTypeOK
  <2>4. UnderWay' = UnderWay
    BY <1>1, <2>1, <2>2 DEF UnderWay
  <2>5. \A p, s \in running' : p.txn = s.txn => p = s
    <3>1. \A p \in running : p.txn # q.txn
      <4> SUFFICES ASSUME NEW p \in running PROVE p.txn # q.txn
        OBVIOUS
      <4>1. <<p.txn, p.call>> \in Executing
        BY DEF Executing
      <4>2. <<p.txn, p.call>>[1] # q.txn
        BY <1>2, <4>1, Zenon
      <4> QED
        BY <4>2
    <3> QED
      BY <1>0, <1>4, <3>1 DEF OneOfEach
  <2>6. OneOfEach'
    BY <1>0, <1>1, <1>2, <2>1, <2>2, <2>5 DEF OneOfEach
  <2> QED
    BY <1>0, <2>3, <2>4, <2>6, AnswerIsAccounted
<1> QED
  BY <1>3, <1>4 DEF CallProcedure

(* What has been running becomes its answer. *)
LEMMA EndProcedureKeepsInv ==
  ASSUME RpcInv, NEW q \in running, EndProcedure(q)
  PROVE  RpcInv'
<1>0. /\ RpcTypeOK /\ OneOfEach /\ results \in Seq(Result) /\ transport = "online"
      /\ UNCHANGED <<txnGenerator, executingCalls, called, settled, requests, transport>>
      /\ running' = running \ {q} /\ q \in Request
  BY DEF RpcInv, EndProcedure, RpcTypeOK
<1>1. /\ q.txn \in Txn /\ q.call \in Call /\ <<q.txn, q.call>> \in Executing
      /\ \A p \in Ids(requests) \cup Ids(results) : p[1] # q.txn
  <2>1. q.txn \in Txn /\ q.call \in Call
    BY <1>0 DEF Request
  <2>2. <<q.txn, q.call>> \in Executing
    BY DEF Executing
  <2>3. \A p \in Ids(requests) \cup Ids(results) : p[1] # <<q.txn, q.call>>[1]
    BY <1>0, <2>2 DEF OneOfEach
  <2> QED
    BY <2>1, <2>2, <2>3
<1>2. PICK o \in {"value", "error"} : Post(q.txn, q.call, o)
  BY DEF EndProcedure
<1> DEFINE m == [txn |-> q.txn, call |-> q.call, outcome |-> o]
<1>3. m \in Result /\ m.txn = q.txn /\ m.call = q.call
  BY <1>1 DEF Result
<1>4. /\ results' \in Seq(Result) /\ OncePerId(results)'
      /\ Ids(results)' = Ids(results) \cup {<<q.txn, q.call>>}
  BY <1>0, <1>1, <1>2, <1>3, AppendIds DEF Post, OneOfEach
<1>5. Executing' = Executing \ {<<q.txn, q.call>>} /\ \A p \in Executing' : p[1] # q.txn
  BY <1>0 DEF Executing, OneOfEach
<1>6. Ids(requests)' = Ids(requests) /\ OncePerId(requests)'
  BY <1>0 DEF Ids, OneOfEach, OncePerId
<1>7. RpcTypeOK'
  BY <1>0, <1>4 DEF RpcTypeOK
<1>8. UnderWay' = UnderWay
  BY <1>1, <1>4, <1>5, <1>6 DEF UnderWay
<1>9. OneOfEach'
  BY <1>0, <1>1, <1>4, <1>5, <1>6 DEF OneOfEach
<1> QED
  BY <1>0, <1>7, <1>8, <1>9, AnswerIsAccounted

(* The worker comes online before anything is under way, and no call that  *)
(* has thrown is known.                                                    *)
LEMMA OnlineKeepsInv ==
  ASSUME RpcInv, Online
  PROVE  RpcInv'
<1> USE DEF RpcInv, Online
<1>1. RpcTypeOK'
  BY DEF RpcTypeOK, Transports
<1>2. UnderWay' = UnderWay /\ UnderWay = {} /\ Outstanding' = Outstanding
  BY DEF UnderWay, Ids, Executing, CallsKnown, Outstanding, Outcome
<1>3. CallsAccounted'
  <2>1. NoCall \notin Outstanding
    BY CallAssumption DEF Outstanding, RpcTypeOK
  <2> QED
    BY <1>2, <2>1 DEF CallsAccounted, CallsKnown
<1>4. OneOfEach'
  BY DEF OneOfEach, OncePerId, Ids, Executing
<1>5. CallsKnown'
  BY <1>2 DEF CallsKnown
<1> QED
  BY <1>1, <1>3, <1>4, <1>5

(* The exit takes everything away that is under way. *)
LEMMA ExitKeepsInv ==
  ASSUME RpcInv, Exit
  PROVE  /\ RpcInv'
         /\ \A c \in Call : settled'[c] \in {settled[c], <<"closed", NoCall>>}
<1>0. /\ RpcTypeOK /\ CallsKnown /\ transport' = "closed"
      /\ requests' = <<>> /\ results' = <<>> /\ running' = {}
      /\ UNCHANGED <<txnGenerator, executingCalls, called>>
  BY DEF RpcInv, Exit
<1>1. /\ settled' \in [Call -> Outcomes \X (Call \cup {NoCall})]
      /\ \A c \in Call : settled'[c] \in {settled[c], <<"closed", NoCall>>}
      /\ \A c \in Call \ called : settled'[c] = settled[c]
  <2>1. \A c \in Call \ called : c \notin {executingCalls[t] : t \in Txn}
    BY <1>0, CallAssumption DEF CallsKnown
  <2> QED
    BY <1>0, <2>1 DEF Exit, Settle, RpcTypeOK, Outcomes
<1>2. RpcTypeOK'
  BY <1>0, <1>1 DEF RpcTypeOK, Transports
<1>3. UnderWay' = {} /\ OneOfEach'
  BY <1>0 DEF UnderWay, Ids, Executing, OneOfEach, OncePerId
<1>4. CallsAccounted'
  BY <1>0 DEF CallsAccounted
<1>5. CallsKnown'
  BY <1>0, <1>1, <1>3 DEF CallsKnown
<1> QED
  BY <1>1, <1>2, <1>3, <1>4, <1>5 DEF RpcInv

(* Every step keeps the invariant. *)
LEMMA NextRpcInv == RpcInv /\ [RpcNext]_rpcVars => RpcInv'
<1> SUFFICES ASSUME RpcInv, [RpcNext]_rpcVars PROVE RpcInv'
  OBVIOUS
<1>1. CASE UNCHANGED rpcVars
  BY <1>1 DEF rpcVars, RpcInv, RpcTypeOK, CallsAccounted, OneOfEach, CallsKnown, OncePerId,
              Ids, Executing, UnderWay, Outstanding, Outcome
<1> QED
  BY <1>1, TooEarlyKeepsInv, DispatchKeepsInv, ReceiveKeepsInv, CallProcedureKeepsInv,
     EndProcedureKeepsInv, OnlineKeepsInv, ExitKeepsInv DEF RpcNext

-----------------------------------------------------------------------------
(* The dispatcher's map, the messages and the running procedures agree on  *)
(* which calls are outstanding, although ids are reused and entries are    *)
(* never removed (RemoteProcedureCallDispatcher.mts).                      *)
THEOREM RpcInvHolds == RpcSpec => []RpcInv
BY InitRpcInv, NextRpcInv, PTL DEF RpcSpec

(* Whatever the order of the results is, each settles the call whose       *)
(* procedure it comes from.                                                *)
THEOREM ResultsAreOwn == RpcSpec => []OwnResult
<1>1. RpcInit => OwnResult
  <2> SUFFICES ASSUME RpcInit, NEW c \in Call PROVE settled[c][2] \in {c, NoCall}
    BY DEF OwnResult
  <2>1. settled[c] = <<"none", NoCall>>
    BY DEF RpcInit
  <2> QED
    BY <2>1
<1>2. RpcInv /\ OwnResult /\ [RpcNext]_rpcVars => OwnResult'
  <2> SUFFICES ASSUME RpcInv, OwnResult, [RpcNext]_rpcVars PROVE OwnResult'
    OBVIOUS
  <2>1. ASSUME NEW c \in Call, CallTooEarly(c) PROVE OwnResult'
    BY <2>1 DEF CallTooEarly, OwnResult, RpcInv, RpcTypeOK
  <2>2. CASE ReceiveResult
    BY <2>2, ReceiveKeepsInv DEF OwnResult
  <2>3. CASE Exit
    BY <2>3, ExitKeepsInv DEF OwnResult
  <2>4. CASE UNCHANGED settled
    BY <2>4 DEF OwnResult
  <2> QED
    BY <2>1, <2>2, <2>3, <2>4
    DEF RpcNext, rpcVars, Dispatch, CallProcedure, EndProcedure, Online
<1> QED
  BY <1>1, <1>2, RpcInvHolds, PTL DEF RpcSpec
=============================================================================
