----------------------------- MODULE TcpServer -----------------------------
(***************************************************************************)
(* The multi-threaded TCP server, TCustomMsgServer (sys/snap_tcpsrvr.cpp): *)
(* a listener thread accepts connections and gives each a worker thread    *)
(* with a place in the Workers table; a worker that ends deletes its       *)
(* socket and clears its place; the application starts, stops and destroys *)
(* the server.  CSList guards the table, CSEvent the event callback.       *)
(* Connections are numbered as they are accepted, and so are the worker    *)
(* threads that serve them.  What a worker does for its client is left     *)
(* out: it serves until the client leaves or it is told to stop.           *)
(***************************************************************************)
EXTENDS Integers, FiniteSets

CONSTANTS
  MaxWorkers, \* places in the Workers table, 1024 in the program
  Limits,     \* the limits on clients considered; 0: no limit but the table
  MaxConns    \* bound: connections accepted in a behaviour

ASSUME ServerAssumption ==
  /\ MaxWorkers \in Nat
  /\ Limits \subseteq Nat
  /\ MaxConns \in Nat

VARIABLES
  status, destroying,       \* Status, Destroying
  MaxClients,               \* the limit in force
  timely,                   \* TRUE: every thread stops within ThTimeout and WkTimeout
  listener, lTerminated,    \* the listener thread, its Terminated flag
  Workers,                  \* the table: the connection of each place, or 0
  ClientsCount,
  worker, index, wTerminated, \* each connection's worker thread, Index, Terminated flag
  CSList, CSEvent,          \* holders of the locks: a connection, or the two below
  app, scan, held,          \* the application thread, TerminateAll's index and pointer
  nConns                    \* connections accepted

setVars == <<MaxClients, timely>>
srvVars == <<status, destroying, setVars>>
lstVars == <<listener, lTerminated>>
tabVars == <<Workers, ClientsCount>>
wrkVars == <<worker, index, wTerminated>>
appVars == <<app, scan, held>>
vars == <<srvVars, lstVars, tabVars, wrkVars, CSList, CSEvent, appVars, nConns>>

Slots == 1..MaxWorkers
Conns == 1..MaxConns
Nobody == 0       \* lock free
Listener == -1    \* lock held by the listener

Init ==
  /\ status = "stopped" /\ destroying = FALSE
  /\ MaxClients \in Limits /\ timely \in BOOLEAN
  /\ listener = "none" /\ lTerminated = FALSE
  /\ Workers = [s \in Slots |-> 0] /\ ClientsCount = 0
  /\ worker = [c \in Conns |-> "none"] /\ index = [c \in Conns |-> 0]
  /\ wTerminated = [c \in Conns |-> FALSE]
  /\ CSList = Nobody /\ CSEvent = Nobody
  /\ app = "idle" /\ scan = 1 /\ held = 0
  /\ nConns = 0

-----------------------------------------------------------------------------
(* The listener thread.                                                    *)

\* while (!Terminated)
ListenerLoop ==
  /\ listener = "loop"
  /\ listener' = IF lTerminated THEN "closed" ELSE "wait"
  /\ UNCHANGED <<srvVars, lTerminated, tabVars, wrkVars, CSList, CSEvent, appVars, nConns>>

\* CanRead(WorkInterval) and SckAccept: "in any case we must accept".
ListenerAccept ==
  /\ listener = "wait"
  /\ \/ nConns < MaxConns /\ nConns' = nConns + 1 /\ listener' = "accepted"
     \/ nConns' = nConns /\ listener' = "loop"
  /\ UNCHANGED <<srvVars, lTerminated, tabVars, wrkVars, CSList, CSEvent, appVars>>

\* Not while the server stops: the socket is closed.
ListenerCheck ==
  /\ listener = "accepted"
  /\ listener' = IF lTerminated \/ destroying THEN "loop" ELSE "incoming"
  /\ UNCHANGED <<srvVars, lTerminated, tabVars, wrkVars, CSList, CSEvent, appVars, nConns>>

\* Seeded fault: one client too many.
CanAcceptOne == MaxClients = 0 \/ ClientsCount <= MaxClients
CanAccept == MaxClients = 0 \/ ClientsCount < MaxClients

FreeSlots == {s \in Slots : Workers[s] = 0}

\* Seeded fault: any place will do.
FirstFreeAny == Slots
FirstFree == {s \in FreeSlots : \A r \in FreeSlots : s <= r}

\* Incoming: a connection over the limit is closed and reported as rejected.
Incoming ==
  /\ listener = "incoming"
  /\ listener' = IF CanAccept THEN "lock" ELSE "reject"
  /\ UNCHANGED <<srvVars, lTerminated, tabVars, wrkVars, CSList, CSEvent, appVars, nConns>>

\* LockList, FirstFree; the worker is entered in the table, counted and its
\* thread created.
IncomingAdd ==
  /\ listener = "lock"
  /\ CSList = Nobody
  /\ CSList' = Listener
  /\ listener' = "report"
  /\ IF FreeSlots = {}
       THEN UNCHANGED <<tabVars, wrkVars>>
       ELSE /\ \E s \in FirstFree :
                 /\ Workers' = [Workers EXCEPT ![s] = nConns]
                 /\ index' = [index EXCEPT ![nConns] = s]
            /\ ClientsCount' = ClientsCount + 1
            /\ worker' = [worker EXCEPT ![nConns] = "start"]
            /\ wTerminated' = [wTerminated EXCEPT ![nConns] = FALSE]
  /\ UNCHANGED <<srvVars, lTerminated, CSEvent, appVars, nConns>>

AfterReport(where) == IF where \in {"report", "callback"} THEN "unlock" ELSE "loop"

\* DoEvent(evcClientAdded), (evcClientNoRoom) or (evcClientRejected): it does
\* nothing while the server is being destroyed ...
ListenerReport ==
  /\ listener \in {"report", "reject"}
  /\ IF destroying
       THEN listener' = AfterReport(listener) /\ UNCHANGED CSEvent
       ELSE /\ CSEvent = Nobody
            /\ CSEvent' = Listener
            /\ listener' = IF listener = "report" THEN "callback" ELSE "rejecting"
  /\ UNCHANGED <<srvVars, lTerminated, tabVars, wrkVars, CSList, appVars, nConns>>

ListenerReported ==
  /\ listener \in {"callback", "rejecting"}
  /\ listener' = AfterReport(listener)
  /\ CSEvent' = Nobody
  /\ UNCHANGED <<srvVars, lTerminated, tabVars, wrkVars, CSList, appVars, nConns>>

\* ... and UnlockList, if Incoming took the lock.
IncomingUnlock ==
  /\ listener = "unlock"
  /\ listener' = "loop"
  /\ CSList' = Nobody
  /\ UNCHANGED <<srvVars, lTerminated, tabVars, wrkVars, CSEvent, appVars, nConns>>

ListenerNext ==
  \/ ListenerLoop \/ ListenerAccept \/ ListenerCheck \/ Incoming \/ IncomingAdd
  \/ ListenerReport \/ ListenerReported \/ IncomingUnlock

-----------------------------------------------------------------------------
(* A worker thread: ThreadProc and TMsgWorkerThread::Execute.              *)

WorkerGoes(c, from, to) ==
  /\ worker[c] = from
  /\ worker' = [worker EXCEPT ![c] = to]

\* ThreadProc: Execute is skipped by a worker told to terminate before it first
\* runs.  Its thread object deletes itself (FreeOnTerminate), and its place in the
\* table and in the count is lost: nobody runs Delete for it.
WorkerBegin(c) ==
  /\ WorkerGoes(c, "start", IF wTerminated[c] THEN "lost" ELSE "run")
  /\ UNCHANGED <<srvVars, lstVars, tabVars, index, wTerminated, CSList, CSEvent, appVars, nConns>>

\* WorkerSocket->Execute returns false or throws: the client has left.
WorkerSelfClose(c) ==
  /\ WorkerGoes(c, "run", "report")
  /\ UNCHANGED <<srvVars, lstVars, tabVars, index, wTerminated, CSList, CSEvent, appVars, nConns>>

\* while (!Terminated && ... && !FServer->Destroying)
WorkerStop(c) ==
  /\ wTerminated[c] \/ destroying
  /\ WorkerGoes(c, "run", "report")
  /\ UNCHANGED <<srvVars, lstVars, tabVars, index, wTerminated, CSList, CSEvent, appVars, nConns>>

\* DoEvent, then delete WorkerSocket.
WorkerReport(c) ==
  /\ \/ ~destroying /\ CSEvent = Nobody /\ WorkerGoes(c, "report", "callback") /\ CSEvent' = c
     \/ destroying /\ WorkerGoes(c, "report", "freed") /\ UNCHANGED CSEvent
  /\ UNCHANGED <<srvVars, lstVars, tabVars, index, wTerminated, CSList, appVars, nConns>>

WorkerReported(c) ==
  /\ WorkerGoes(c, "callback", "freed")
  /\ CSEvent' = Nobody
  /\ UNCHANGED <<srvVars, lstVars, tabVars, index, wTerminated, CSList, appVars, nConns>>

\* Seeded fault: the client is not counted out.
CountedOutNot == ClientsCount
CountedOut == ClientsCount - 1

\* Delete: LockList, the place and the count.
WorkerDelete(c) ==
  /\ CSList = Nobody
  /\ CSList' = c
  /\ WorkerGoes(c, "freed", "unlock")
  /\ Workers' = [Workers EXCEPT ![index[c]] = 0]
  /\ ClientsCount' = CountedOut
  /\ UNCHANGED <<srvVars, lstVars, index, wTerminated, CSEvent, appVars, nConns>>

\* UnlockList; the thread object deletes itself (FreeOnTerminate).
WorkerUnlock(c) ==
  /\ WorkerGoes(c, "unlock", "done")
  /\ CSList' = Nobody
  /\ UNCHANGED <<srvVars, lstVars, tabVars, index, wTerminated, CSEvent, appVars, nConns>>

WorkerFinish(c) ==
  \/ WorkerBegin(c) \/ WorkerStop(c) \/ WorkerReport(c) \/ WorkerReported(c)
  \/ WorkerDelete(c) \/ WorkerUnlock(c)

-----------------------------------------------------------------------------
(* The application: Start, Stop, the destructor.                           *)

\* StartListener binds, listens and starts the thread, or fails.
Start ==
  /\ app = "idle"
  /\ status # "running"
  /\ \/ app' = "started" /\ listener' = "loop" /\ lTerminated' = FALSE
     \/ app' = "failed" /\ UNCHANGED lstVars
  /\ UNCHANGED <<srvVars, tabVars, wrkVars, CSList, CSEvent, scan, held, nConns>>

\* DoEvent(evcServerStarted) or (evcListenerCannotStart), then Status.
ReportStarted ==
  /\ app \in {"started", "failed"}
  /\ CSEvent = Nobody
  /\ status' = IF app = "started" THEN "running" ELSE "error"
  /\ app' = "idle"
  /\ UNCHANGED <<setVars, destroying, lstVars, tabVars, wrkVars, CSList, CSEvent, scan, held, nConns>>

\* Stop: ServerThread->Terminate.
Stop ==
  /\ app = "idle"
  /\ status = "running"
  /\ app' = "join"
  /\ lTerminated' = TRUE
  /\ UNCHANGED <<srvVars, listener, tabVars, wrkVars, CSList, CSEvent, scan, held, nConns>>

\* ~TCustomMsgServer: Destroying, then Stop.
Destroy ==
  /\ app = "idle"
  /\ destroying' = TRUE
  /\ app' = IF status = "running" THEN "join" ELSE "gone"
  /\ lTerminated' = (lTerminated \/ status = "running")
  /\ UNCHANGED <<setVars, status, listener, tabVars, wrkVars, CSList, CSEvent, scan, held, nConns>>

\* WaitFor(ThTimeout), or else Kill; a killed thread keeps its locks.
JoinListener ==
  /\ app = "join"
  /\ listener = "closed" \/ ~timely
  /\ listener' = "none"
  /\ app' = "terminate"
  /\ UNCHANGED <<srvVars, lTerminated, tabVars, wrkVars, CSList, CSEvent, scan, held, nConns>>

\* TerminateAll, if ClientsCount > 0.
TerminateAll ==
  /\ app = "terminate"
  /\ IF ClientsCount > 0 THEN app' = "scan" /\ scan' = 1
                         ELSE app' = "stopped" /\ UNCHANGED scan
  /\ UNCHANGED <<srvVars, lstVars, tabVars, wrkVars, CSList, CSEvent, held, nConns>>

\* It looks at every place, without the lock ...
ScanTest ==
  /\ app = "scan"
  /\ IF scan > MaxWorkers
       THEN app' = "count" /\ UNCHANGED <<scan, held>>
       ELSE /\ scan' = scan + 1
            /\ held' = Workers[scan]
            /\ app' = IF Workers[scan] # 0 THEN "tell" ELSE "scan"
  /\ UNCHANGED <<srvVars, lstVars, tabVars, wrkVars, CSList, CSEvent, nConns>>

\* Seeded fault: the worker is not told.
ToldNot == wTerminated
Told == [wTerminated EXCEPT ![held] = TRUE]

\* ... and tells the worker it has found to terminate.
ScanTell ==
  /\ app = "tell"
  /\ app' = "scan"
  /\ wTerminated' = Told
  /\ UNCHANGED <<srvVars, lstVars, tabVars, worker, index, CSList, CSEvent, scan, held, nConns>>

\* Places whose worker has deleted itself without running Delete.
LostPlaces == {s \in Slots : Workers[s] # 0 /\ worker[Workers[s]] = "lost"}

\* It waits for ClientsCount to drop to 0 until WkTimeout has passed.
WaitCount ==
  /\ app = "count"
  /\ \/ ClientsCount <= 0 /\ app' = "zero"
     \/ ClientsCount > 0 /\ app' = "kill" /\ (timely => ClientsCount <= Cardinality(LostPlaces))
  /\ UNCHANGED <<srvVars, lstVars, tabVars, wrkVars, CSList, CSEvent, scan, held, nConns>>

\* KillAll, inside CSList: Kill, ForceClose and delete for every worker.  Of a
\* lost one the object has gone: the program crashes on it or happens to go on.
KillAll ==
  /\ app = "kill"
  /\ CSList = Nobody
  /\ \/ /\ worker' = [c \in Conns |-> IF \E s \in Slots : Workers[s] = c THEN "killed"
                                      ELSE worker[c]]
        /\ Workers' = [s \in Slots |-> 0]
        /\ app' = "dropped"
     \/ LostPlaces # {} /\ app' = "crashed" /\ UNCHANGED <<worker, Workers>>
  /\ UNCHANGED <<srvVars, lstVars, ClientsCount, index, wTerminated, CSList, CSEvent, scan, held,
                 nConns>>

\* DoEvent(evcClientsDropped)
ReportDropped ==
  /\ app = "dropped"
  /\ CSEvent = Nobody \/ destroying
  /\ app' = "zero"
  /\ UNCHANGED <<srvVars, lstVars, tabVars, wrkVars, CSList, CSEvent, scan, held, nConns>>

\* ClientsCount = 0, the last statement of TerminateAll.
ZeroCount ==
  /\ app = "zero"
  /\ app' = "stopped"
  /\ ClientsCount' = 0
  /\ UNCHANGED <<srvVars, lstVars, Workers, wrkVars, CSList, CSEvent, scan, held, nConns>>

\* The end of Stop: Status, DoEvent(evcServerStopped).
ReportStopped ==
  /\ app = "stopped"
  /\ CSEvent = Nobody \/ destroying
  /\ status' = "stopped"
  /\ app' = IF destroying THEN "gone" ELSE "idle"
  /\ UNCHANGED <<setVars, destroying, lstVars, tabVars, wrkVars, CSList, CSEvent, scan, held, nConns>>

AppFinish ==
  \/ ReportStarted \/ JoinListener \/ TerminateAll \/ ScanTest \/ ScanTell \/ WaitCount \/ KillAll
  \/ ReportDropped \/ ZeroCount \/ ReportStopped

-----------------------------------------------------------------------------
Running == app # "crashed"

Next ==
  /\ Running
  /\ \/ ListenerNext
     \/ \E c \in Conns : WorkerSelfClose(c) \/ WorkerFinish(c)
     \/ Start \/ Stop \/ Destroy \/ AppFinish

\* The scheduler runs every thread; nobody is obliged to connect, to leave or to
\* call the API.
Fairness ==
  /\ WF_vars(Running /\ ListenerNext)
  /\ \A c \in Conns : WF_vars(Running /\ WorkerFinish(c))
  /\ WF_vars(AppFinish)

Spec == Init /\ [][Next]_vars
FairSpec == Spec /\ Fairness
-----------------------------------------------------------------------------
(* Properties.                                                             *)

TypeOK ==
  /\ status \in {"stopped", "running", "error"}
  /\ MaxClients \in Nat /\ timely \in BOOLEAN
  /\ destroying \in BOOLEAN /\ lTerminated \in BOOLEAN
  /\ listener \in {"none", "loop", "wait", "accepted", "incoming", "lock", "report",
                   "callback", "unlock", "reject", "rejecting", "closed"}
  /\ Workers \in [Slots -> 0..MaxConns]
  /\ ClientsCount \in Int
  /\ worker \in [Conns -> {"none", "start", "run", "report", "callback", "freed", "unlock",
                          "done", "lost", "killed"}]
  /\ index \in [Conns -> Slots \cup {0}]
  /\ wTerminated \in [Conns -> BOOLEAN]
  /\ CSList \in Conns \cup {Nobody, Listener}
  /\ CSEvent \in Conns \cup {Nobody, Listener}
  /\ app \in {"idle", "started", "failed", "join", "terminate", "scan", "tell", "count",
              "kill", "dropped", "zero", "stopped", "gone", "crashed"}
  /\ scan \in 1..(MaxWorkers + 1)
  /\ held \in 0..MaxConns
  /\ nConns \in 0..MaxConns

Alive == {c \in Conns : worker[c] \in {"start", "run", "report", "callback", "freed"}}
Lost == {c \in Conns : worker[c] = "lost"}
Placed == Alive \cup Lost
Used == {s \in Slots : Workers[s] # 0}

\* The table holds exactly the workers that have not deleted themselves and the
\* lost ones, each at its own Index, and ClientsCount is their number, except
\* while KillAll has emptied the table and TerminateAll has not yet cleared the
\* count.
TableInv ==
  /\ \A c \in Placed : index[c] \in Slots /\ Workers[index[c]] = c
  /\ \A s \in Used : Workers[s] \in Placed /\ index[Workers[s]] = s
  /\ app \notin {"dropped", "zero"} => ClientsCount = Cardinality(Used)
  /\ app \in {"dropped", "zero"} => Used = {}

\* A worker is lost only to a Stop that told it to terminate before its thread
\* first ran, and that Stop does not return with the lost worker in the table.  If
\* no time-out kills a thread, Stop comes to KillAll for a lost worker only, and the
\* program crashes on no other.
LostInv ==
  /\ \A c \in Conns : (worker[c] = "start" /\ wTerminated[c]) \/ worker[c] = "lost"
       => app \in {"scan", "tell", "count", "kill", "crashed"}
  /\ app = "crashed" \/ (app = "kill" /\ timely) => Lost # {}

\* A connection gets a worker once, and only the latest one is still to get it.
ConnInv ==
  /\ \A c \in Conns : worker[c] # "none" => c <= nConns
  /\ listener \in {"accepted", "incoming", "lock"}
       => nConns \in Conns /\ worker[nConns] = "none"

\* While the listener lives the table is only added to by it and emptied by
\* KillAll after it: room found by CanAccept is still there when it is taken.
PhaseInv ==
  /\ app \in {"terminate", "scan", "tell", "count", "kill", "dropped", "zero", "stopped",
              "crashed"}
       => listener = "none"
  /\ app \in {"idle", "failed", "gone"} /\ status # "running"
       => listener = "none" /\ Used = {}
  /\ app = "stopped" => Used = {}
  /\ app \in {"started", "failed"} => status # "running"
  /\ MaxClients # 0 => Cardinality(Used) <= MaxClients
  /\ MaxClients # 0 /\ listener = "lock" => Cardinality(Used) < MaxClients

ServerInv == TypeOK /\ TableInv /\ LostInv /\ ConnInv /\ PhaseInv

\* The connection limit holds, though CanAccept reads ClientsCount without the
\* lock that guards it.
LimitRespected == MaxClients # 0 => Cardinality(Used) <= MaxClients

\* When Stop has returned neither the listener nor a worker serves anybody, and
\* no worker is still to begin.
StopLeavesNone ==
  (app \in {"idle", "gone"} /\ status = "stopped") => listener = "none" /\ Alive = {}

\* Stop and the destructor return if no thread has to be killed by a time-out, or
\* crash on a worker lost before its thread first ran: whatever lock a worker waits
\* for on its way out, Stop does not hold it, and Stop tells every worker to
\* terminate though it reads the table without the lock.
StopReturns == app = "join" /\ timely ~> app \in {"idle", "gone", "crashed"}

\* CSList guards "Workers list activities": a worker found in the table exists
\* while TerminateAll uses it.
FoundWorkerExists == app = "tell" => held \in Alive
=============================================================================
