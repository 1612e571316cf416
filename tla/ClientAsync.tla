---------------------------- MODULE ClientAsync ----------------------------
(***************************************************************************)
(* The asynchronous client, TSnap7Client (core/s7_client.cpp) on top of    *)
(* the job record and PerformOperation of TSnap7MicroClient.               *)
(*                                                                         *)
(* One application thread calls the API.  The first asynchronous call      *)
(* creates a worker thread (TClientThread) and two auto-reset events:      *)
(* EvtJob wakes the worker, EvtComplete wakes WaitAsCompletion.  Nothing   *)
(* else synchronises the two threads: Job.Pending, Job.Op and Job.Result   *)
(* are plain fields, so every read or write that the other thread could    *)
(* observe is a step of its own here.                                      *)
(*                                                                         *)
(* Jobs are numbered in the order they are accepted.  The number stands    *)
(* for Job.Op and all the parameters of the call; Job.Result is the number *)
(* of the job whose outcome it holds (0: none yet).                        *)
(***************************************************************************)
EXTENDS Naturals

CONSTANTS
  Calls,             \* the API calls this application makes
  MaxJobs,           \* bound: jobs submitted in a behaviour
  MaxResets          \* bound: calls of Reset in a behaviour

CallNames == {"async", "sync", "invalid", "wait", "check",
              "disconnect", "reset", "destroy"}

ASSUME ClientAssumption ==
  /\ Calls \subseteq CallNames
  /\ MaxJobs \in Nat
  /\ MaxResets \in Nat

VARIABLES
  pending, jobOp, jobResult,    \* Job.Pending, Job.Op, Job.Result
  evtJob, evtComplete,          \* State of the two events
  created, terminated,          \* ThreadCreated, FThread->Terminated
  destroying,                   \* Destroying
  worker, wOp,                  \* worker thread: where it is, its local Operation
  app,                          \* application thread: where it is
  paced,                        \* TRUE: it starts a job only after the previous callback
  gaveUp,                       \* history: it has abandoned a job, or been refused one
  nJobs, nResets,               \* jobs accepted, resets done
  runs,                         \* history: how often each job was performed
  ret,                          \* history: what the last completion query returned
  report                        \* history: what the last callback reported

jobVars == <<pending, jobOp, jobResult>>
evtVars == <<evtJob, evtComplete>>
thrVars == <<created, terminated, destroying, worker, wOp>>
cntVars == <<nJobs, nResets>>
hisVars == <<runs, ret, report>>
userVars == <<paced, gaveUp>>
vars == <<jobVars, evtVars, thrVars, app, userVars, cntVars, hisVars>>

Jobs == 1..MaxJobs
AppStates == {"idle", "start", "kick", "perform", "clear", "checking", "wait",
              "waiting", "woken", "close", "join", "reopen", "gone"}
WorkerStates == {"none", "loop", "sleep", "woken", "perform", "clear", "signal",
                 "notify", "closed"}

Init ==
  /\ pending = FALSE /\ jobOp = 0 /\ jobResult = 0
  /\ evtJob = FALSE /\ evtComplete = FALSE
  /\ created = FALSE /\ terminated = FALSE /\ destroying = FALSE
  /\ worker = "none" /\ wOp = 0
  /\ app = "idle" /\ paced \in BOOLEAN /\ gaveUp = FALSE
  /\ nJobs = 0 /\ nResets = 0
  /\ runs = [j \in Jobs |-> 0]
  /\ ret = [kind |-> "none", result |-> 0]
  /\ report = [job |-> 0, op |-> 0, result |-> 0]

-----------------------------------------------------------------------------
(* Starting jobs: the As... functions, the synchronous functions.          *)

\* A caller that paces itself by the callback waits for the pending one.
Paced == paced => worker \notin {"signal", "notify"}

\* Seeded fault: the test of Job.Pending is dropped.
AcceptsAlways == app = "idle" /\ nJobs < MaxJobs /\ Paced
\* The test on entry of every API function that starts a job.
Accepts == app = "idle" /\ nJobs < MaxJobs /\ Paced /\ ~pending

\* Job.Pending=true, Job.Op and the parameters.
FillJob ==
  /\ pending' = TRUE
  /\ nJobs' = nJobs + 1
  /\ jobOp' = nJobs + 1

\* AsReadArea, AsUpload, AsDBGet, ...: fill the job record, then StartAsyncJob.
AsCall ==
  /\ "async" \in Calls
  /\ Accepts
  /\ FillJob
  /\ app' = "start"
  /\ UNCHANGED <<userVars, jobResult, evtVars, thrVars, nResets, hisVars>>

\* AsWriteArea with a bad word length or size, AsCopyRamToRom and AsCompress
\* with Timeout <= 0: the record is taken before the parameters are tested.
AsCallInvalid ==
  /\ "invalid" \in Calls
  /\ Accepts
  /\ FillJob
  /\ ret' = [kind |-> "refused", result |-> 0]
  /\ gaveUp' = TRUE
  /\ UNCHANGED <<paced, jobResult, evtVars, thrVars, app, nResets, runs, report>>

\* Every function that starts a job, while another one is pending.
CallBusy ==
  /\ Calls \cap {"async", "sync"} # {}
  /\ app = "idle"
  /\ pending
  /\ ret' = [kind |-> "busy", result |-> 0]
  /\ UNCHANGED <<userVars, jobVars, evtVars, thrVars, app, cntVars, runs, report>>

\* Seeded fault: the leftover signal of an earlier job is kept.
CompleteKept == evtComplete
\* EvtComplete->Reset.
CompleteReset == FALSE

\* StartAsyncJob up to EvtComplete->Reset: on the first call events and thread.
StartAsyncJob ==
  /\ app = "start"
  /\ app' = "kick"
  /\ created' = TRUE
  /\ worker' = IF created THEN worker ELSE "loop"
  /\ evtComplete' = CompleteReset
  /\ UNCHANGED <<userVars, jobVars, evtJob, terminated, destroying, wOp, cntVars, hisVars>>

\* Seeded fault: the worker is not woken.
KickWorkerNoSet ==
  /\ app = "kick"
  /\ app' = "idle"
  /\ UNCHANGED <<userVars, jobVars, evtVars, thrVars, cntVars, hisVars>>
\* Its last statement, EvtJob->Set.
KickWorker ==
  /\ app = "kick"
  /\ app' = "idle"
  /\ evtJob' = TRUE
  /\ UNCHANGED <<userVars, jobVars, evtComplete, thrVars, cntVars, hisVars>>

\* ReadArea, DBGet, ...: PerformOperation runs in the caller's thread.
SyncCall ==
  /\ "sync" \in Calls
  /\ Accepts
  /\ FillJob
  /\ runs' = [runs EXCEPT ![nJobs + 1] = @ + 1]
  /\ app' = "perform"
  /\ UNCHANGED <<userVars, jobResult, evtVars, thrVars, nResets, ret, report>>

SyncResult ==
  /\ app = "perform"
  /\ app' = "clear"
  /\ jobResult' = nJobs
  /\ UNCHANGED <<userVars, pending, jobOp, evtVars, thrVars, cntVars, hisVars>>

SyncReturn ==
  /\ app = "clear"
  /\ app' = "idle"
  /\ pending' = FALSE
  /\ ret' = [kind |-> "result", result |-> jobResult]
  /\ UNCHANGED <<userVars, jobOp, jobResult, evtVars, thrVars, cntVars, runs, report>>

-----------------------------------------------------------------------------
(* The worker thread: TClientThread::Execute, PerformOperation.            *)

\* while (!Terminated)
WorkerLoop ==
  /\ worker = "loop"
  /\ worker' = IF terminated THEN "closed" ELSE "sleep"
  /\ UNCHANGED <<userVars, jobVars, evtVars, created, terminated, destroying, wOp, app,
                 cntVars, hisVars>>

\* Seeded fault: EvtJob is a manual-reset event.
JobEventKept == evtJob
\* An auto-reset event is consumed by the thread it wakes.
JobEventConsumed == FALSE

\* EvtJob->WaitForever
WorkerWake ==
  /\ worker = "sleep"
  /\ evtJob
  /\ evtJob' = JobEventConsumed
  /\ worker' = "woken"
  /\ UNCHANGED <<userVars, jobVars, evtComplete, created, terminated, destroying, wOp, app,
                 cntVars, hisVars>>

\* if (!Terminated) PerformOperation: Operation=Job.Op
WorkerBegin ==
  /\ worker = "woken"
  /\ IF terminated
       THEN worker' = "closed" /\ UNCHANGED <<wOp, runs>>
       ELSE /\ worker' = "perform"
            /\ wOp' = jobOp
            /\ runs' = [runs EXCEPT ![jobOp] = @ + 1]
  /\ UNCHANGED <<userVars, jobVars, evtVars, created, terminated, destroying, app, cntVars,
                 ret, report>>

\* Job.Result=op...()
WorkerResult ==
  /\ worker = "perform"
  /\ worker' = "clear"
  /\ jobResult' = wOp
  /\ UNCHANGED <<userVars, pending, jobOp, evtVars, created, terminated, destroying, wOp,
                 app, cntVars, hisVars>>

\* Job.Pending=false
WorkerClear ==
  /\ worker = "clear"
  /\ worker' = "signal"
  /\ pending' = FALSE
  /\ UNCHANGED <<userVars, jobOp, jobResult, evtVars, created, terminated, destroying, wOp,
                 app, cntVars, hisVars>>

\* EvtComplete->Set
WorkerSignal ==
  /\ worker = "signal"
  /\ worker' = "notify"
  /\ evtComplete' = TRUE
  /\ UNCHANGED <<userVars, jobVars, evtJob, created, terminated, destroying, wOp, app,
                 cntVars, hisVars>>

\* DoCompletion: CliCompletion(FUsrPtr, Job.Op, Job.Result), unless Destroying.
WorkerNotify ==
  /\ worker = "notify"
  /\ worker' = "loop"
  /\ report' = IF destroying THEN report
               ELSE [job |-> wOp, op |-> jobOp, result |-> jobResult]
  /\ UNCHANGED <<userVars, jobVars, evtVars, created, terminated, destroying, wOp, app,
                 cntVars, runs, ret>>

-----------------------------------------------------------------------------
(* Asking for the end of a job: CheckAsCompletion, WaitAsCompletion.       *)

\* CheckAsCompletion reads Job.Pending a first time: opResult.
CheckCall ==
  /\ "check" \in Calls
  /\ app = "idle"
  /\ nJobs > 0
  /\ IF pending THEN app' = "checking" /\ UNCHANGED ret
                ELSE ret' = [kind |-> "result", result |-> jobResult] /\ UNCHANGED app
  /\ UNCHANGED <<userVars, jobVars, evtVars, thrVars, cntVars, runs, report>>

\* ... and a second time for "return !Job.Pending", opResult=errCliJobPending.
CheckReturn ==
  /\ app = "checking"
  /\ app' = "idle"
  /\ ret' = [kind |-> IF pending THEN "pending" ELSE "completePending", result |-> 0]
  /\ UNCHANGED <<userVars, jobVars, evtVars, thrVars, cntVars, runs, report>>

\* WaitAsCompletion: the test of Job.Pending, then of ThreadCreated.
WaitCall ==
  /\ "wait" \in Calls
  /\ app = "idle"
  /\ nJobs > 0
  /\ IF pending /\ created
       THEN app' = "wait" /\ UNCHANGED ret
       ELSE /\ ret' = IF pending THEN [kind |-> "timeout", result |-> 0]
                      ELSE [kind |-> "result", result |-> jobResult]
            /\ UNCHANGED app
  /\ UNCHANGED <<userVars, jobVars, evtVars, thrVars, cntVars, runs, report>>

\* TSnapEvent::WaitFor: a signal found on entry is consumed ("take the ownership").
WaitEnter ==
  /\ app = "wait"
  /\ app' = IF evtComplete THEN "woken" ELSE "waiting"
  /\ evtComplete' = FALSE
  /\ UNCHANGED <<userVars, jobVars, evtJob, thrVars, cntVars, hisVars>>

\* A signal that ends the timed wait itself is not consumed.
WaitWake ==
  /\ app = "waiting"
  /\ evtComplete
  /\ app' = "woken"
  /\ UNCHANGED <<userVars, jobVars, evtVars, thrVars, cntVars, hisVars>>

WaitTimeout ==
  /\ app = "waiting"
  /\ app' = "idle"
  /\ ret' = [kind |-> "timeout", result |-> 0]
  /\ UNCHANGED <<userVars, jobVars, evtVars, thrVars, cntVars, runs, report>>

\* return Job.Result
WaitReturn ==
  /\ app = "woken"
  /\ app' = "idle"
  /\ ret' = [kind |-> "result", result |-> jobResult]
  /\ UNCHANGED <<userVars, jobVars, evtVars, thrVars, cntVars, runs, report>>

-----------------------------------------------------------------------------
(* Giving up: Disconnect, Reset, the destructor.                           *)

\* Disconnect frees the slot whatever the worker is doing.
Disconnect ==
  /\ "disconnect" \in Calls
  /\ app = "idle"
  /\ pending' = FALSE
  /\ gaveUp' = (gaveUp \/ pending)
  /\ UNCHANGED <<paced, jobOp, jobResult, evtVars, thrVars, app, cntVars, hisVars>>

\* Reset with a worker thread: CloseThread begins with FThread->Terminate.
\* (Without a thread Reset is Disconnect.)
Reset ==
  /\ "reset" \in Calls
  /\ app = "idle"
  /\ created
  /\ nResets < MaxResets
  /\ nResets' = nResets + 1
  /\ terminated' = TRUE
  /\ app' = "close"
  /\ gaveUp' = TRUE
  /\ UNCHANGED <<paced, jobVars, evtVars, created, destroying, worker, wOp, nJobs, hisVars>>

\* ~TSnap7Client: Destroying, Disconnect, and CloseThread if there is a thread.
Destroy ==
  /\ "destroy" \in Calls
  /\ app = "idle"
  /\ destroying' = TRUE
  /\ pending' = FALSE
  /\ terminated' = created
  /\ app' = IF created THEN "close" ELSE "gone"
  /\ gaveUp' = TRUE
  /\ UNCHANGED <<paced, jobOp, jobResult, evtVars, created, worker, wOp, cntVars, hisVars>>

\* CloseThread: EvtJob->Set
CloseSignal ==
  /\ app = "close"
  /\ app' = "join"
  /\ evtJob' = TRUE
  /\ UNCHANGED <<userVars, jobVars, evtComplete, thrVars, cntVars, hisVars>>

\* FThread->WaitFor(Timeout) sees the thread closed, or it times out and the
\* thread is killed where it stands; then delete FThread.
CloseJoin ==
  /\ app = "join"
  /\ app' = IF destroying THEN "gone" ELSE "reopen"
  /\ worker' = "none"
  /\ created' = ~destroying
  /\ UNCHANGED <<userVars, jobVars, evtVars, terminated, destroying, wOp, cntVars, hisVars>>

\* Seeded fault: no new worker thread.
ReopenedWorkerNone == "none"
\* OpenThread
ReopenedWorker == "loop"

\* Reset: Disconnect, then OpenThread.
ResetReopen ==
  /\ app = "reopen"
  /\ app' = "idle"
  /\ pending' = FALSE
  /\ worker' = ReopenedWorker
  /\ terminated' = FALSE
  /\ UNCHANGED <<userVars, jobOp, jobResult, evtVars, created, destroying, wOp, cntVars, hisVars>>

-----------------------------------------------------------------------------
Worker == \/ WorkerLoop \/ WorkerWake \/ WorkerBegin \/ WorkerResult
          \/ WorkerClear \/ WorkerSignal \/ WorkerNotify

\* A call made by the application, and the rest of a call it is inside.
AppCall == \/ AsCall \/ AsCallInvalid \/ CallBusy \/ SyncCall \/ CheckCall
           \/ WaitCall \/ Disconnect \/ Reset \/ Destroy
AppStep == \/ StartAsyncJob \/ KickWorker \/ SyncResult \/ SyncReturn \/ CheckReturn
           \/ WaitEnter \/ WaitWake \/ WaitTimeout \/ WaitReturn
           \/ CloseSignal \/ CloseJoin \/ ResetReopen

Next == Worker \/ AppCall \/ AppStep

\* The scheduler runs both threads; nothing obliges the application to call.
Fairness == WF_vars(Worker) /\ WF_vars(AppStep)

Spec == Init /\ [][Next]_vars
FairSpec == Spec /\ Fairness

-----------------------------------------------------------------------------
(* Properties.                                                             *)

TypeOK ==
  /\ pending \in BOOLEAN
  /\ jobOp \in 0..MaxJobs
  /\ jobResult \in 0..MaxJobs
  /\ evtJob \in BOOLEAN
  /\ evtComplete \in BOOLEAN
  /\ created \in BOOLEAN
  /\ terminated \in BOOLEAN
  /\ destroying \in BOOLEAN
  /\ worker \in WorkerStates
  /\ wOp \in 0..MaxJobs
  /\ app \in AppStates
  /\ paced \in BOOLEAN /\ gaveUp \in BOOLEAN
  /\ nJobs \in 0..MaxJobs
  /\ nResets \in 0..MaxResets
  /\ runs \in [Jobs -> Nat]
  /\ ret \in [kind: {"none", "result", "refused", "busy", "timeout", "pending",
                     "completePending"},
              result: 0..MaxJobs]
  /\ report \in [job: 0..MaxJobs, op: 0..MaxJobs, result: 0..MaxJobs]

WorkerRunning == worker \in {"perform", "clear"}
AppRunning == app \in {"perform", "clear"}

\* The worker and the caller of a synchronous function never perform at the
\* same time: they share the socket, the PDU buffer and the job record, and
\* only Job.Pending, a plain field, keeps them apart.
OneJobAtATime == ~gaveUp => ~(WorkerRunning /\ AppRunning)

\* No job is performed twice, though EvtJob may be set while the worker is
\* still on its way back from the previous job.
JobsRunOnce == ~gaveUp => \A j \in Jobs : runs[j] <= 1

\* A completion query or a synchronous call that returns a job result returns
\* the result of the last job submitted, if the application waits for the
\* callback of one job before it submits the next.
OwnResult ==
  [][ret' # ret /\ ret'.kind = "result" /\ paced /\ ~gaveUp => ret'.result = nJobs]_vars

\* To such an application the callback reports the operation and the result of
\* the job that ended.
CallbackReportsJob ==
  paced /\ ~gaveUp => report.op = report.job /\ report.result = report.job

\* Every asynchronous job started is eventually reported by a callback.
EveryJobReported ==
  \A j \in Jobs : (app = "kick" /\ jobOp = j) ~> (report.job = j \/ gaveUp)

\* An application that disconnects or resets during jobs may overwrite or drop
\* a job not begun, but the last one submitted since the last Reset is performed,
\* if need be by the worker thread that Reset created.
LastJobRuns ==
  \A j \in Jobs, r \in 0..MaxResets :
    (app = "kick" /\ jobOp = j /\ nResets = r)
      ~> (runs[j] > 0 \/ jobOp # j \/ nResets > r \/ destroying)

\* WaitAsCompletion is woken only by the end of the job it waits for: that is
\* why StartAsyncJob resets EvtComplete.
SignalIsOwn == app = "woken" => ~pending

\* The client implements the one-job slot.
Slot == INSTANCE JobSlot WITH
  phase  <- IF gaveUp THEN "abandoned"
            ELSE IF ~pending THEN "free"
            ELSE IF WorkerRunning \/ AppRunning THEN "running" ELSE "queued",
  job    <- IF gaveUp THEN 0 ELSE nJobs,
  result <- IF gaveUp \/ pending THEN 0 ELSE jobResult

SlotSpec == Slot!Spec

\* The inductive invariant: at any time at most one party holds the job (the
\* caller, the event EvtJob, or the worker), exactly one when Job.Pending is set.
CallerHolds == app \in {"start", "kick", "perform", "clear"}
WorkerHolds == worker \in {"woken", "perform", "clear"}

HolderInv ==
  /\ pending <=> CallerHolds \/ evtJob \/ WorkerHolds
  /\ CallerHolds => ~evtJob /\ ~WorkerHolds
  /\ evtJob => ~WorkerHolds
JobInv ==
  /\ jobOp = nJobs
  /\ \A j \in Jobs : runs[j] <= (IF j <= nJobs THEN 1 ELSE 0)
  /\ (app \in {"start", "kick"} \/ evtJob \/ worker = "woken") => runs[nJobs] = 0
  /\ WorkerRunning => wOp = nJobs
  /\ pending => nJobs > 0
  /\ (~pending \/ worker = "clear" \/ app = "clear") => jobResult = nJobs
ThreadInv ==
  /\ ~terminated /\ ~destroying
  /\ worker # "closed"
  /\ app \notin {"close", "join", "reopen", "gone"}
  /\ (app = "kick" \/ evtJob \/ worker # "none") => created
  /\ created => worker # "none"

SlotInv == HolderInv /\ JobInv /\ ThreadInv

ClientInv == TypeOK /\ (gaveUp \/ SlotInv)
=============================================================================
