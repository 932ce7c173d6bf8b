-------------------------------- MODULE Rpc --------------------------------
(***************************************************************************)
(* Remote procedure calls over one message transport: the dispatcher of    *)
(* the caller (RemoteProcedureCallDispatcher.mts), the server of the other *)
(* side (RemoteProcedureServer.mts), and the life of the worker at that    *)
(* side (Worker.mts, WorkerIpcEndpoint.mts), which starts once and whose   *)
(* exit closes the transport.  The ends are threads or processes: messages *)
(* arrive in the order of each direction, procedures end in any order.     *)
(***************************************************************************)
EXTENDS Naturals, Sequences

CONSTANTS
  Call,      \* the calls the caller ever makes
  NoCall,    \* not a call
  IdSpace,   \* 2^31 in the code: transaction ids are 0 .. IdSpace - 1
  Kind       \* whether the procedure of a call returns a value or a promise,
             \* or is not registered

Kinds == {"value", "promise", "unknown"}

ASSUME CallAssumption == NoCall \notin Call
ASSUME KindAssumption == Kind \in [Call -> Kinds]
ASSUME IdAssumption   == IdSpace \in Nat \ {0}

VARIABLES
  txnGenerator,    \* the next transaction id
  executingCalls,  \* the dispatcher's map from transaction ids to calls
  called,          \* the calls made
  settled,         \* what each call was settled with
  requests,        \* rpc:call messages under way
  results,         \* rpc:result messages under way
  running,         \* the calls whose procedure has not ended, with their ids
  transport        \* starting, online (there is a dispatcher), closed

rpcVars == <<txnGenerator, executingCalls, called, settled, requests, results,
          running, transport>>

Txn      == 0 .. IdSpace - 1
Outcomes == {"none", "value", "error", "closed", "threw"}
Transports == {"starting", "online", "closed"}

(* The answers tell of which execution they are, which the code cannot see. *)
Request == [txn : Txn, call : Call]
Result  == [txn : Txn, call : Call, outcome : {"value", "error"}]

RpcInit ==
  /\ txnGenerator \in Txn
  /\ executingCalls = [t \in Txn |-> NoCall]
  /\ called = {}
  /\ settled = [c \in Call |-> <<"none", NoCall>>]
  /\ requests = <<>> /\ results = <<>>
  /\ running = {}
  /\ transport = "starting"

Outcome(c)  == settled[c][1]
Outstanding == {c \in called : Outcome(c) = "none"}

(* A promise can be settled once. *)
Settle(cs, o) ==
  settled' = [c \in Call |-> IF c \in cs /\ Outcome(c) = "none" THEN o ELSE settled[c]]

-----------------------------------------------------------------------------
(* The caller.                                                             *)

(* Before the worker is online there is no dispatcher: the call throws. *)
CallTooEarly(c) ==
  /\ transport = "starting"
  /\ c \notin called
  /\ called' = called \cup {c}
  /\ settled' = [settled EXCEPT ![c] = <<"threw", NoCall>>]
  /\ UNCHANGED <<txnGenerator, executingCalls, requests, results, running, transport>>

NextTxn == (txnGenerator + 1) % IdSpace

(* dispatch.  The entry of an earlier call with the same id, which is never *)
(* removed, is overwritten.  Bound: that call has been settled, that is,    *)
(* nobody makes 2^31 calls while one is outstanding.                        *)
Dispatch(c) ==
  /\ transport # "starting"
  /\ c \notin called
  /\ executingCalls[txnGenerator] \notin Outstanding
  /\ called' = called \cup {c}
  /\ txnGenerator' = NextTxn
  /\ executingCalls' = [executingCalls EXCEPT ![txnGenerator] = c]
  /\ requests' = IF transport = "closed" THEN requests
                 ELSE Append(requests, [txn |-> txnGenerator, call |-> c])
  /\ UNCHANGED <<settled, results, running, transport>>

(* Mutant: a result is for the call that was made last. *)
ReceiveResultForLatest ==
  LET r == Head(results) IN
  /\ transport = "online"
  /\ results # <<>>
  /\ results' = Tail(results)
  /\ Settle({executingCalls[(txnGenerator + IdSpace - 1) % IdSpace]},
            <<r.outcome, r.call>>)
  /\ UNCHANGED <<txnGenerator, executingCalls, called, requests, running, transport>>

(* The dispatcher's ipc-message listener. *)
ReceiveResult ==
  LET r == Head(results) IN
  /\ transport = "online"
  /\ results # <<>>
  /\ results' = Tail(results)
  /\ Settle({executingCalls[r.txn]}, <<r.outcome, r.call>>)
  /\ UNCHANGED <<txnGenerator, executingCalls, called, requests, running, transport>>

-----------------------------------------------------------------------------
(* The server.                                                             *)

Post(t, c, o) == results' = Append(results, [txn |-> t, call |-> c, outcome |-> o])

(* onMessage and callProcedure. *)
CallProcedure ==
  LET q == Head(requests)
      c == q.call IN
  /\ transport = "online"
  /\ requests # <<>>
  /\ requests' = Tail(requests)
  /\ \/ /\ Kind[c] = "unknown"
        /\ Post(q.txn, c, "error")
        /\ UNCHANGED running
     \/ /\ Kind[c] = "value"
        /\ \E o \in {"value", "error"} : Post(q.txn, c, o)
        /\ UNCHANGED running
     \/ /\ Kind[c] = "promise"
        /\ running' = running \cup {q}
        /\ UNCHANGED results
  /\ UNCHANGED <<txnGenerator, executingCalls, called, settled, transport>>

(* Mutant: the error of a rejected promise is not posted. *)
EndProcedureQuietly(q) ==
  /\ transport = "online"
  /\ q \in running
  /\ running' = running \ {q}
  /\ \/ Post(q.txn, q.call, "value")
     \/ UNCHANGED results
  /\ UNCHANGED <<txnGenerator, executingCalls, called, settled, requests, transport>>

(* The promise is settled: postResult or postError. *)
EndProcedure(q) ==
  /\ transport = "online"
  /\ q \in running
  /\ running' = running \ {q}
  /\ \E o \in {"value", "error"} : Post(q.txn, q.call, o)
  /\ UNCHANGED <<txnGenerator, executingCalls, called, settled, requests, transport>>

-----------------------------------------------------------------------------
(* The worker.                                                             *)

(* online: the transport is announced and the dispatcher created. *)
Online ==
  /\ transport = "starting"
  /\ transport' = "online"
  /\ UNCHANGED <<txnGenerator, executingCalls, called, settled, requests, results, running>>

(* Mutant: the calls are not rejected. *)
ExitQuietly ==
  /\ transport = "online"
  /\ results = <<>>
  /\ transport' = "closed"
  /\ requests' = <<>> /\ running' = {}
  /\ UNCHANGED <<txnGenerator, executingCalls, called, settled, results>>

(* exit, which comes after everything the worker had posted: what it was   *)
(* doing and what was under way to it is lost; the ipc-closed listener     *)
(* rejects every call in the map.  The worker is not started again.        *)
Exit ==
  /\ transport = "online"
  /\ results = <<>>
  /\ transport' = "closed"
  /\ requests' = <<>> /\ running' = {}
  /\ Settle({executingCalls[t] : t \in Txn}, <<"closed", NoCall>>)
  /\ UNCHANGED <<txnGenerator, executingCalls, called, results>>

RpcNext ==
  \/ \E c \in Call : CallTooEarly(c) \/ Dispatch(c)
  \/ ReceiveResult
  \/ CallProcedure
  \/ \E q \in running : EndProcedure(q)
  \/ Online
  \/ Exit

RpcSpec == RpcInit /\ [][RpcNext]_rpcVars

(* Both event loops go on; procedures end. *)
Fairness ==
  /\ WF_rpcVars(ReceiveResult)
  /\ WF_rpcVars(CallProcedure)
  /\ \A q \in Request : WF_rpcVars(EndProcedure(q))

FairSpec == RpcSpec /\ Fairness
-----------------------------------------------------------------------------
(* The values the variables take. *)
RpcTypeOK ==
  /\ txnGenerator \in Txn
  /\ executingCalls \in [Txn -> Call \cup {NoCall}]
  /\ called \in SUBSET Call
  /\ settled \in [Call -> Outcomes \X (Call \cup {NoCall})]
  /\ requests \in Seq(Request)
  /\ results \in Seq(Result)
  /\ running \in SUBSET Request
  /\ transport \in Transports

(* The calls of messages, with their ids, and whether each id is there at  *)
(* most once.                                                              *)
Ids(s)       == {<<s[n].txn, s[n].call>> : n \in DOMAIN s}
OncePerId(s) == \A m, n \in DOMAIN s : s[m].txn = s[n].txn => m = n

Executing == {<<q.txn, q.call>> : q \in running}

(* The calls that have not been answered, with the ids they have there. *)
UnderWay == Ids(requests) \cup Executing \cup Ids(results)

(* While the transport is open, every outstanding call is a message or a   *)
(* running procedure under the id the dispatcher knows it by, and nothing  *)
(* else is: no answer is lost or taken for that of another call, although  *)
(* ids are reused and entries never removed.                               *)
CallsAccounted ==
  transport = "online" =>
    UnderWay = {<<t, executingCalls[t]>> :
                 t \in {u \in Txn : executingCalls[u] \in Outstanding}}

(* Nothing is executed or answered twice under one id. *)
OneOfEach ==
  /\ OncePerId(requests) /\ OncePerId(results)
  /\ \A p, q \in running : p.txn = q.txn => p = q
  /\ \A p \in Ids(requests) : \A q \in Executing \cup Ids(results) : p[1] # q[1]
  /\ \A p \in Executing : \A q \in Ids(results) : p[1] # q[1]

(* What the dispatcher knows are calls that were made, each under one id,  *)
(* and no call is settled before; a closed transport carries nothing.      *)
CallsKnown ==
  /\ \A t \in Txn : executingCalls[t] \in called \cup {NoCall}
  /\ \A t, u \in Txn :
       executingCalls[t] = executingCalls[u] /\ executingCalls[t] # NoCall => t = u
  /\ \A c \in Call \ called : settled[c] = <<"none", NoCall>>
  /\ transport = "starting" => \A t \in Txn : executingCalls[t] = NoCall
  /\ transport # "online" => UnderWay = {}

(* The inductive invariant: the values the variables take, and the account *)
(* of the calls.                                                           *)
RpcInv == RpcTypeOK /\ CallsAccounted /\ OneOfEach /\ CallsKnown

(* A call is settled with the result of its own procedure. *)
OwnResult ==
  \A c \in Call : settled[c][2] \in {c, NoCall}

(* A call made while the worker runs is settled, be it by its exit. *)
CallsSettle ==
  \A c \in Call :
    c \in called /\ transport = "online" ~> Outcome(c) # "none"

(* What the TransportClosedError says: no call remains without a result    *)
(* when the transport is closed.                                           *)
NoneOutlivesTransport ==
  \A c \in Call : c \in called ~> Outcome(c) # "none"
=============================================================================
