------------------------- MODULE ClientAsyncProofs -------------------------
(***************************************************************************)
(* What ClientAsync guarantees for any number of jobs and resets.  The     *)
(* hand-over of the job from caller to event to worker (SlotInv) holds as  *)
(* long as no job has been abandoned; the types hold always.               *)
(***************************************************************************)
EXTENDS ClientAsync, TLAPS

-----------------------------------------------------------------------------
(* The initial states.                                                     *)

\* The client starts with a free slot and no thread.
LEMMA InitInv == Init => ClientInv
<1> SUFFICES ASSUME Init PROVE ClientInv
  OBVIOUS
<1>1. MaxJobs \in Nat /\ MaxResets \in Nat
  BY ClientAssumption
<1>2. \A j \in Jobs : runs[j] = 0
  BY DEF Init
<1>3. TypeOK
  <2>1. runs \in [Jobs -> Nat]
    BY DEF Init
  <2>2. ret \in [kind: {"none", "result", "refused", "busy", "timeout", "pending",
                        "completePending"},
                 result: 0..MaxJobs]
    BY <1>1 DEF Init
  <2>3. report \in [job: 0..MaxJobs, op: 0..MaxJobs, result: 0..MaxJobs]
    BY <1>1 DEF Init
  <2>4. /\ pending = FALSE /\ evtJob = FALSE /\ evtComplete = FALSE /\ created = FALSE
        /\ terminated = FALSE /\ destroying = FALSE /\ paced \in BOOLEAN
        /\ gaveUp = FALSE
    BY DEF Init
  <2>5. /\ jobOp \in 0..MaxJobs /\ jobResult \in 0..MaxJobs /\ wOp \in 0..MaxJobs
        /\ nJobs \in 0..MaxJobs /\ nResets \in 0..MaxResets
    BY <1>1 DEF Init
  <2>6. worker \in WorkerStates /\ app \in AppStates
    BY DEF Init, AppStates, WorkerStates
  <2>7. QED
    BY <2>1, <2>2, <2>3, <2>4, <2>5, <2>6 DEF TypeOK
<1>4. HolderInv /\ ThreadInv
  BY DEF Init, HolderInv, ThreadInv, CallerHolds, WorkerHolds
<1>5. JobInv
  BY <1>1, <1>2 DEF Init, JobInv, WorkerRunning, Jobs
<1>6. QED
  BY <1>3, <1>4, <1>5 DEF ClientInv, SlotInv

-----------------------------------------------------------------------------
(* Types.                                                                  *)

\* Counting one more performance keeps the counters numbers.
LEMMA Incremented ==
  ASSUME NEW S, NEW f \in [S -> Nat], NEW k
  PROVE  [f EXCEPT ![k] = f[k] + 1] \in [S -> Nat]
<1>1. \A x \in S : [f EXCEPT ![k] = f[k] + 1][x] \in Nat
  OBVIOUS
<1>2. QED
  BY <1>1

\* The worker keeps the types.
LEMMA WorkerType == ASSUME TypeOK, Worker PROVE TypeOK'
<1> USE DEF TypeOK, WorkerStates, jobVars, evtVars, thrVars, userVars, cntVars, hisVars
<1>1. CASE WorkerLoop
  BY <1>1 DEF WorkerLoop
<1>2. CASE WorkerWake
  BY <1>2 DEF WorkerWake, JobEventConsumed
<1>3. CASE WorkerBegin
  <2>1. runs' \in [Jobs -> Nat]
    <3>1. CASE terminated
      BY <1>3, <3>1 DEF WorkerBegin
    <3>2. CASE ~terminated
      <4>1. runs' = [runs EXCEPT ![jobOp] = runs[jobOp] + 1]
        BY <1>3, <3>2 DEF WorkerBegin
      <4>2. QED
        BY <4>1, Incremented
    <3>3. QED
      BY <3>1, <3>2
  <2>2. QED
    BY <1>3, <2>1 DEF WorkerBegin
<1>4. CASE WorkerResult
  BY <1>4 DEF WorkerResult
<1>5. CASE WorkerClear
  BY <1>5 DEF WorkerClear
<1>6. CASE WorkerSignal
  BY <1>6 DEF WorkerSignal
<1>7. CASE WorkerNotify
  BY <1>7 DEF WorkerNotify
<1>8. QED
  BY <1>1, <1>2, <1>3, <1>4, <1>5, <1>6, <1>7 DEF Worker

LEMMA AppCallType == ASSUME TypeOK, AppCall PROVE TypeOK'
<1> USE ClientAssumption
    DEF TypeOK, AppStates, jobVars, evtVars, thrVars, userVars, cntVars, hisVars
<1>1. CASE AsCall
  BY <1>1 DEF AsCall, Accepts, FillJob
<1>2. CASE AsCallInvalid
  BY <1>2 DEF AsCallInvalid, Accepts, FillJob
<1>3. CASE CallBusy
  BY <1>3 DEF CallBusy
<1>4. CASE SyncCall
  <2>1. runs' \in [Jobs -> Nat]
    BY <1>4, Incremented DEF SyncCall
  <2>2. QED
    BY <1>4, <2>1 DEF SyncCall, Accepts, FillJob
<1>5. CASE CheckCall
  BY <1>5 DEF CheckCall
<1>6. CASE WaitCall
  BY <1>6 DEF WaitCall
<1>7. CASE Disconnect
  BY <1>7 DEF Disconnect
<1>8. CASE Reset
  BY <1>8 DEF Reset
<1>9. CASE Destroy
  BY <1>9 DEF Destroy
<1>10. QED
  BY <1>1, <1>2, <1>3, <1>4, <1>5, <1>6, <1>7, <1>8, <1>9 DEF AppCall

LEMMA AppStepType == ASSUME TypeOK, AppStep PROVE TypeOK'
<1> USE ClientAssumption
    DEF TypeOK, AppStates, jobVars, evtVars, thrVars, userVars, cntVars, hisVars
<1>1. CASE StartAsyncJob
  BY <1>1 DEF StartAsyncJob, CompleteReset, WorkerStates
<1>2. CASE KickWorker
  BY <1>2 DEF KickWorker
<1>3. CASE SyncResult
  BY <1>3 DEF SyncResult
<1>4. CASE SyncReturn
  BY <1>4 DEF SyncReturn
<1>5. CASE CheckReturn
  BY <1>5 DEF CheckReturn
<1>6. CASE WaitEnter
  BY <1>6 DEF WaitEnter
<1>7. CASE WaitWake
  BY <1>7 DEF WaitWake
<1>8. CASE WaitTimeout
  BY <1>8 DEF WaitTimeout
<1>9. CASE WaitReturn
  BY <1>9 DEF WaitReturn
<1>10. CASE CloseSignal
  BY <1>10 DEF CloseSignal
<1>11. CASE CloseJoin
  BY <1>11 DEF CloseJoin, WorkerStates
<1>12. CASE ResetReopen
  BY <1>12 DEF ResetReopen, ReopenedWorker, WorkerStates
<1>13. QED
  BY <1>1, <1>2, <1>3, <1>4, <1>5, <1>6, <1>7, <1>8, <1>9, <1>10, <1>11, <1>12 DEF AppStep

-----------------------------------------------------------------------------
(* The hand-over of the job.                                               *)

\* The calls after which nothing is promised any more.
GivesUp == AsCallInvalid \/ Reset \/ Destroy

\* An abandoned client stays so.
LEMMA GaveUpStays == ASSUME gaveUp, [Next]_vars PROVE gaveUp'
<1> USE DEF userVars
<1>1. CASE Worker
  BY <1>1 DEF Worker, WorkerLoop, WorkerWake, WorkerBegin, WorkerResult, WorkerClear,
              WorkerSignal, WorkerNotify
<1>2. CASE AppCall
  BY <1>2 DEF AppCall, AsCall, AsCallInvalid, CallBusy, SyncCall, CheckCall, WaitCall,
              Disconnect, Reset, Destroy
<1>3. CASE AppStep
  BY <1>3 DEF AppStep, StartAsyncJob, KickWorker, SyncResult, SyncReturn, CheckReturn,
              WaitEnter, WaitWake, WaitTimeout, WaitReturn, CloseSignal, CloseJoin,
              ResetReopen
<1>4. CASE UNCHANGED vars
  BY <1>4 DEF vars
<1>5. QED
  BY <1>1, <1>2, <1>3, <1>4 DEF Next

\* Each step of the worker hands the job on along the chain event, worker, slot.
LEMMA WorkerInv ==
  ASSUME TypeOK, SlotInv, Worker
  PROVE  SlotInv'
<1> USE DEF SlotInv, HolderInv, ThreadInv, CallerHolds, WorkerHolds, WorkerRunning,
            jobVars, evtVars, thrVars, userVars, cntVars, hisVars
<1>1. CASE WorkerLoop
  BY <1>1 DEF WorkerLoop, TypeOK, JobInv, WorkerStates
<1>2. CASE WorkerWake
  BY <1>2 DEF WorkerWake, TypeOK, JobInv, WorkerStates, JobEventConsumed
<1>3. CASE WorkerBegin
  <2>1. /\ worker = "woken" /\ worker' = "perform" /\ wOp' = jobOp
        /\ runs' = [runs EXCEPT ![jobOp] = @ + 1]
        /\ UNCHANGED <<userVars, jobVars, evtVars, created, terminated, destroying, app,
                       cntVars, ret, report>>
    BY <1>3 DEF WorkerBegin
  <2>2. jobOp = nJobs /\ nJobs \in Jobs /\ runs[nJobs] = 0
    BY <2>1, ClientAssumption DEF TypeOK, JobInv, Jobs
  <2>3. runs' \in [Jobs -> Nat] /\ runs'[nJobs] = 1
        /\ \A j \in Jobs : j # nJobs => runs'[j] = runs[j]
    BY <2>1, <2>2 DEF TypeOK
  <2>4. HolderInv' /\ ThreadInv'
    BY <2>1
  <2>5. JobInv'
    BY <2>1, <2>2, <2>3 DEF JobInv, TypeOK
  <2>6. QED
    BY <2>4, <2>5
<1>4. CASE WorkerResult
  BY <1>4 DEF WorkerResult, TypeOK, JobInv, WorkerStates
<1>5. CASE WorkerClear
  BY <1>5 DEF WorkerClear, TypeOK, JobInv, WorkerStates
<1>6. CASE WorkerSignal
  BY <1>6 DEF WorkerSignal, TypeOK, JobInv, WorkerStates
<1>7. CASE WorkerNotify
  BY <1>7 DEF WorkerNotify, TypeOK, JobInv, WorkerStates
<1>8. QED
  BY <1>1, <1>2, <1>3, <1>4, <1>5, <1>6, <1>7 DEF Worker

\* A call takes the slot only when nobody holds a job.
LEMMA AppCallInv ==
  ASSUME TypeOK, SlotInv, AppCall
  PROVE  gaveUp' \/ SlotInv'
<1> USE DEF SlotInv, HolderInv, ThreadInv, CallerHolds, WorkerHolds, WorkerRunning,
            jobVars, evtVars, thrVars, userVars, cntVars, hisVars
<1>1. CASE AsCall
  <2>1. nJobs' = nJobs + 1 /\ nJobs' \in Jobs
    BY <1>1, ClientAssumption DEF AsCall, Accepts, FillJob, TypeOK, Jobs
  <2>3. HolderInv' /\ ThreadInv'
    BY <1>1 DEF AsCall, Accepts, FillJob
  <2>4. JobInv'
    <3>1. runs' = runs /\ runs[nJobs'] = 0
      BY <1>1, <2>1 DEF AsCall, JobInv, TypeOK
    <3>2. \A j \in Jobs : runs'[j] <= (IF j <= nJobs' THEN 1 ELSE 0)
      BY <2>1, <3>1 DEF JobInv, TypeOK, Jobs
    <3>3. QED
      BY <1>1, <2>1, <3>1, <3>2 DEF AsCall, Accepts, FillJob, JobInv, TypeOK, Jobs
  <2>5. QED
    BY <2>3, <2>4
<1>2. CASE CallBusy
  BY <1>2, ClientAssumption DEF CallBusy, TypeOK, JobInv
<1>3. CASE SyncCall
  <2>1. nJobs' = nJobs + 1 /\ nJobs' \in Jobs
    BY <1>3, ClientAssumption DEF SyncCall, Accepts, FillJob, TypeOK, Jobs
  <2>2. runs' = [runs EXCEPT ![nJobs'] = @ + 1]
    BY <1>3, <2>1 DEF SyncCall
  <2>3. runs[nJobs'] = 0
    BY <2>1 DEF JobInv, TypeOK
  <2>4. runs' \in [Jobs -> Nat] /\ runs'[nJobs'] = 1
        /\ \A j \in Jobs : j # nJobs' => runs'[j] = runs[j]
    BY <2>1, <2>2, <2>3 DEF TypeOK
  <2>6. HolderInv' /\ ThreadInv'
    BY <1>3 DEF SyncCall, Accepts, FillJob
  <2>7. JobInv'
    <3>1. \A j \in Jobs : runs'[j] <= (IF j <= nJobs' THEN 1 ELSE 0)
      <4> SUFFICES ASSUME NEW j \in Jobs
                   PROVE  runs'[j] <= (IF j <= nJobs' THEN 1 ELSE 0)
        OBVIOUS
      <4>1. CASE j = nJobs'
        BY <4>1, <2>1, <2>4 DEF Jobs
      <4>2. CASE j # nJobs'
        BY <4>2, <2>1, <2>4 DEF Jobs, JobInv, TypeOK
      <4>3. QED
        BY <4>1, <4>2
    <3>2. QED
      BY <1>3, <2>1, <3>1 DEF SyncCall, Accepts, FillJob, JobInv, TypeOK
  <2>8. QED
    BY <2>6, <2>7
<1>4. CASE CheckCall
  BY <1>4 DEF CheckCall, TypeOK, JobInv, AppStates
<1>5. CASE WaitCall
  BY <1>5 DEF WaitCall, TypeOK, JobInv, AppStates
<1>6. CASE Disconnect /\ ~pending
  BY <1>6 DEF Disconnect, TypeOK, JobInv
<1>7. CASE Disconnect /\ pending
  BY <1>7 DEF Disconnect
<1>8. CASE GivesUp
  BY <1>8 DEF GivesUp, AsCallInvalid, Reset, Destroy
<1>9. QED
  BY <1>1, <1>2, <1>3, <1>4, <1>5, <1>6, <1>7, <1>8 DEF AppCall, GivesUp

\* Inside a call the caller hands the job to the event or keeps it to the end.
LEMMA AppStepInv ==
  ASSUME TypeOK, SlotInv, AppStep
  PROVE  SlotInv'
<1> USE DEF SlotInv, HolderInv, ThreadInv, CallerHolds, WorkerHolds, WorkerRunning,
            jobVars, evtVars, thrVars, userVars, cntVars, hisVars
<1>1. CASE StartAsyncJob
  BY <1>1 DEF StartAsyncJob, CompleteReset, TypeOK, JobInv, AppStates, WorkerStates
<1>2. CASE KickWorker
  BY <1>2 DEF KickWorker, TypeOK, JobInv, AppStates
<1>3. CASE SyncResult
  BY <1>3 DEF SyncResult, TypeOK, JobInv, AppStates
<1>4. CASE SyncReturn
  BY <1>4 DEF SyncReturn, TypeOK, JobInv, AppStates
<1>5. CASE CheckReturn
  BY <1>5, ClientAssumption DEF CheckReturn, TypeOK, JobInv, AppStates
<1>6. CASE WaitEnter
  BY <1>6 DEF WaitEnter, TypeOK, JobInv, AppStates
<1>7. CASE WaitWake
  BY <1>7 DEF WaitWake, TypeOK, JobInv, AppStates
<1>8. CASE WaitTimeout
  BY <1>8, ClientAssumption DEF WaitTimeout, TypeOK, JobInv, AppStates
<1>9. CASE WaitReturn
  BY <1>9 DEF WaitReturn, TypeOK, JobInv, AppStates
<1>10. CASE CloseSignal \/ CloseJoin \/ ResetReopen
  BY <1>10 DEF CloseSignal, CloseJoin, ResetReopen
<1>11. QED
  BY <1>1, <1>2, <1>3, <1>4, <1>5, <1>6, <1>7, <1>8, <1>9, <1>10 DEF AppStep

\* Every step keeps the invariant: the union of the lemmas above.
LEMMA StepInv == ASSUME ClientInv, [Next]_vars PROVE ClientInv'
<1>1. TypeOK'
  <2>1. CASE Next
    BY <2>1, WorkerType, AppCallType, AppStepType DEF Next, ClientInv
  <2>2. CASE UNCHANGED vars
    BY <2>2 DEF vars, jobVars, evtVars, thrVars, userVars, cntVars, hisVars, ClientInv,
                TypeOK
  <2>3. QED
    BY <2>1, <2>2
<1>2. gaveUp' \/ SlotInv'
  <2>1. CASE gaveUp
    BY <2>1, GaveUpStays
  <2>2. CASE SlotInv /\ Next
    BY <2>2, WorkerInv, AppCallInv, AppStepInv DEF Next, ClientInv
  <2>3. CASE SlotInv /\ UNCHANGED vars
    BY <2>3 DEF vars, jobVars, evtVars, thrVars, userVars, cntVars, hisVars, SlotInv,
                HolderInv, JobInv, ThreadInv, CallerHolds, WorkerHolds, WorkerRunning
  <2>4. QED
    BY <2>1, <2>2, <2>3 DEF ClientInv
<1>3. QED
  BY <1>1, <1>2 DEF ClientInv

-----------------------------------------------------------------------------
(* The invariants.                                                         *)

\* The invariant of the hand-over protocol, of which the other results are parts.
THEOREM ClientInvariant == Spec => []ClientInv
<1>1. Init => ClientInv
  BY InitInv
<1>2. ClientInv /\ [Next]_vars => ClientInv'
  BY StepInv
<1>3. QED
  BY <1>1, <1>2, PTL DEF Spec

\* The worker and a synchronous caller never perform at the same time.
THEOREM OneJobAtATimeHolds == Spec => []OneJobAtATime
<1>1. ClientInv => OneJobAtATime
  BY DEF ClientInv, SlotInv, HolderInv, OneJobAtATime, WorkerRunning, AppRunning,
         CallerHolds, WorkerHolds
<1>2. QED
  BY <1>1, ClientInvariant, PTL

\* No job is performed twice.
THEOREM JobsRunOnceHolds == Spec => []JobsRunOnce
<1>1. ClientInv => JobsRunOnce
  BY DEF ClientInv, SlotInv, TypeOK, JobInv, JobsRunOnce, Jobs
<1>2. QED
  BY <1>1, ClientInvariant, PTL

-----------------------------------------------------------------------------
(* An application that paces itself by the callback.                       *)

\* Between Job.Pending=false and the end of the callback no job is submitted, and
\* no signal is left when the next one is waited for.
PacedInv ==
  paced /\ ~gaveUp =>
    /\ worker \in {"signal", "notify"} => ~pending /\ wOp = nJobs
    /\ pending /\ app \notin {"start", "perform", "clear"} => ~evtComplete
    /\ app = "woken" => ~pending
    /\ report.op = report.job /\ report.result = report.job

\* The worker signals and reports a job while the slot is still free.
LEMMA WorkerPaced ==
  ASSUME TypeOK, SlotInv, PacedInv, Worker
  PROVE  PacedInv'
<1> USE DEF PacedInv, jobVars, evtVars, thrVars, userVars, cntVars, hisVars
<1>1. CASE WorkerLoop \/ WorkerWake \/ WorkerBegin
  BY <1>1 DEF WorkerLoop, WorkerWake, WorkerBegin
<1>2. CASE WorkerResult
  BY <1>2 DEF WorkerResult
<1>3. CASE WorkerClear
  BY <1>3 DEF WorkerClear, SlotInv, JobInv, WorkerRunning
<1>4. CASE WorkerSignal
  BY <1>4 DEF WorkerSignal
<1>5. CASE WorkerNotify
  BY <1>5 DEF WorkerNotify, SlotInv, JobInv, ThreadInv
<1>6. QED
  BY <1>1, <1>2, <1>3, <1>4, <1>5 DEF Worker

\* A new job starts with the signal of the last one reset, a wait for it ends
\* by its own.
LEMMA AppPaced ==
  ASSUME TypeOK, SlotInv, PacedInv, ~gaveUp', AppCall \/ AppStep
  PROVE  PacedInv'
<1> USE DEF PacedInv, jobVars, evtVars, thrVars, userVars, cntVars, hisVars
<1>1. CASE AsCall \/ SyncCall
  BY <1>1 DEF AsCall, SyncCall, Accepts, Paced, FillJob
<1>2. CASE CallBusy \/ CheckCall \/ WaitCall
  BY <1>2 DEF CallBusy, CheckCall, WaitCall
<1>3. CASE Disconnect
  BY <1>3 DEF Disconnect
<1>4. CASE GivesUp
  BY <1>4 DEF GivesUp, AsCallInvalid, Reset, Destroy
<1>5. CASE StartAsyncJob
  BY <1>5 DEF StartAsyncJob, CompleteReset, SlotInv, HolderInv, CallerHolds, ThreadInv
<1>6. CASE KickWorker \/ SyncResult
  BY <1>6 DEF KickWorker, SyncResult
<1>7. CASE SyncReturn
  BY <1>7 DEF SyncReturn
<1>8. CASE CheckReturn \/ WaitTimeout \/ WaitReturn
  BY <1>8 DEF CheckReturn, WaitTimeout, WaitReturn
<1>9. CASE WaitEnter \/ WaitWake
  BY <1>9 DEF WaitEnter, WaitWake, TypeOK
<1>10. CASE CloseSignal \/ CloseJoin \/ ResetReopen
  BY <1>10 DEF CloseSignal, CloseJoin, ResetReopen, SlotInv, ThreadInv
<1>11. QED
  BY <1>1, <1>2, <1>3, <1>4, <1>5, <1>6, <1>7, <1>8, <1>9, <1>10 DEF AppCall, AppStep, GivesUp

\* ClientInv and PacedInv are inductive together.
LEMMA PacedInvariant == Spec => [](ClientInv /\ PacedInv)
<1>1. Init => ClientInv /\ PacedInv
  <2> SUFFICES ASSUME Init PROVE PacedInv
    BY InitInv
  <2>1. QED
    BY DEF Init, PacedInv
<1>2. ClientInv /\ PacedInv /\ [Next]_vars => (ClientInv /\ PacedInv)'
  <2> SUFFICES ASSUME ClientInv, PacedInv, [Next]_vars
               PROVE  PacedInv'
    BY StepInv
  <2>1. CASE gaveUp
    BY <2>1, GaveUpStays DEF PacedInv
  <2>2. CASE gaveUp'
    BY <2>2 DEF PacedInv
  <2>3. CASE ~gaveUp /\ ~gaveUp' /\ Next
    BY <2>3, WorkerPaced, AppPaced DEF Next, ClientInv
  <2>4. CASE UNCHANGED vars
    BY <2>4 DEF vars, jobVars, evtVars, thrVars, userVars, cntVars, hisVars, PacedInv
  <2>5. QED
    BY <2>1, <2>2, <2>3, <2>4
<1>3. QED
  BY <1>1, <1>2, PTL DEF Spec

\* The callback reports the operation and the result of the job that ended.
THEOREM CallbackReportsJobHolds == Spec => []CallbackReportsJob
<1>1. PacedInv => CallbackReportsJob
  BY DEF PacedInv, CallbackReportsJob
<1>2. QED
  BY <1>1, PacedInvariant, PTL

\* A query or a synchronous call that returns a result returns that of the last
\* job submitted.
THEOREM OwnResultHolds == Spec => OwnResult
<1>1. ClientInv /\ PacedInv /\ [Next]_vars
        => [ret' # ret /\ ret'.kind = "result" /\ paced /\ ~gaveUp => ret'.result = nJobs]_vars
  <2> SUFFICES ASSUME ClientInv, PacedInv, Next, ret' # ret, ret'.kind = "result", paced, ~gaveUp
               PROVE  ret'.result = nJobs
    OBVIOUS
  <2>1. SlotInv
    BY DEF ClientInv
  <2>2. SyncReturn \/ CheckCall \/ WaitCall \/ WaitReturn
    <3> USE DEF hisVars
    <3>1. ~Worker
      BY DEF Worker, WorkerLoop, WorkerWake, WorkerBegin, WorkerResult, WorkerClear, WorkerSignal, WorkerNotify
    <3>2. CASE AppCall
      <4>1. ~AsCall /\ ~SyncCall /\ ~Disconnect /\ ~Reset /\ ~Destroy
        BY DEF AsCall, SyncCall, Disconnect, Reset, Destroy
      <4>2. ~AsCallInvalid /\ ~CallBusy
        <5>1. AsCallInvalid => ret'.kind = "refused"
          BY DEF AsCallInvalid
        <5>2. CallBusy => ret'.kind = "busy"
          BY DEF CallBusy
        <5>3. QED
          BY <5>1, <5>2
      <4>3. QED
        BY <3>2, <4>1, <4>2 DEF AppCall
    <3>3. CASE AppStep
      <4>1. ~StartAsyncJob /\ ~KickWorker /\ ~SyncResult /\ ~WaitEnter /\ ~WaitWake
        BY DEF StartAsyncJob, KickWorker, SyncResult, WaitEnter, WaitWake
      <4>2. ~CloseSignal /\ ~CloseJoin /\ ~ResetReopen
        BY DEF CloseSignal, CloseJoin, ResetReopen
      <4>3. ~CheckReturn /\ ~WaitTimeout
        <5>1. CheckReturn => ret'.kind \in {"pending", "completePending"}
          BY DEF CheckReturn
        <5>2. WaitTimeout => ret'.kind = "timeout"
          BY DEF WaitTimeout
        <5>3. QED
          BY <5>1, <5>2
      <4>4. QED
        BY <3>3, <4>1, <4>2, <4>3 DEF AppStep
    <3>4. QED
      BY <3>1, <3>2, <3>3 DEF Next
  <2>3. jobResult = nJobs
    <3>1. CASE SyncReturn
      BY <2>1, <3>1 DEF SyncReturn, SlotInv, JobInv
    <3>2. CASE CheckCall \/ WaitCall
      BY <2>1, <3>2 DEF CheckCall, WaitCall, SlotInv, JobInv
    <3>3. CASE WaitReturn
      BY <2>1, <3>3 DEF WaitReturn, PacedInv, SlotInv, JobInv
    <3>4. QED
      BY <2>2, <3>1, <3>2, <3>3
  <2>4. ret'.result = jobResult
    BY <2>2 DEF SyncReturn, CheckCall, WaitCall, WaitReturn
  <2>5. QED
    BY <2>3, <2>4
<1>2. QED
  BY <1>1, PacedInvariant, PTL DEF Spec, OwnResult

-----------------------------------------------------------------------------
(* The client implements JobSlot.  Only five kinds of step are visible in   *)
(* the slot; every other step leaves phase, job and result as they are.     *)

\* A step that leaves the job record alone, and starts or ends no performance,
\* is a stuttering step of the slot.
LEMMA SlotStutter ==
  ASSUME UNCHANGED <<pending, jobResult, nJobs, gaveUp>>,
         WorkerRunning' = WorkerRunning, AppRunning' = AppRunning
  PROVE  UNCHANGED Slot!slotVars
  BY DEF Slot!slotVars

\* The worker begins and finishes the slot's job; its other steps are not seen.
LEMMA SlotWorker ==
  ASSUME SlotInv, ~gaveUp, Worker
  PROVE  [Slot!Next]_(Slot!slotVars)
<1> USE DEF jobVars, evtVars, userVars, cntVars, hisVars
<1>1. CASE WorkerLoop \/ WorkerWake \/ WorkerSignal \/ WorkerNotify
  <2>1. UNCHANGED <<pending, jobResult, nJobs, gaveUp>> /\ UNCHANGED app
        /\ ~WorkerRunning /\ ~WorkerRunning'
    BY <1>1 DEF WorkerLoop, WorkerWake, WorkerSignal, WorkerNotify, WorkerRunning
  <2>2. WorkerRunning' = WorkerRunning /\ AppRunning' = AppRunning
    BY <2>1 DEF WorkerRunning, AppRunning
  <2>3. QED
    BY <2>1, <2>2, SlotStutter
<1>2. CASE WorkerBegin
  <2>1. /\ worker = "woken" /\ worker' = "perform" /\ pending /\ ~CallerHolds
        /\ UNCHANGED <<pending, jobResult, nJobs, app, gaveUp>>
    BY <1>2 DEF WorkerBegin, SlotInv, ThreadInv, HolderInv, WorkerHolds
  <2>2. Slot!Begin
    BY <2>1 DEF Slot!Begin, WorkerRunning, AppRunning, CallerHolds
  <2>3. QED
    BY <2>2 DEF Slot!Next
<1>3. CASE WorkerResult
  <2>1. /\ worker = "perform" /\ worker' = "clear" /\ pending
        /\ UNCHANGED <<pending, nJobs, app, gaveUp>>
    BY <1>3 DEF WorkerResult, SlotInv, HolderInv, WorkerHolds
  <2>2. QED
    BY <2>1 DEF Slot!slotVars, WorkerRunning, AppRunning
<1>4. CASE WorkerClear
  <2>1. /\ worker = "clear" /\ worker' = "signal" /\ pending /\ ~pending'
        /\ jobResult' = nJobs /\ UNCHANGED <<nJobs, app, gaveUp>>
    BY <1>4 DEF WorkerClear, SlotInv, HolderInv, WorkerHolds, JobInv
  <2>2. Slot!Finish
    BY <2>1 DEF Slot!Finish, WorkerRunning
  <2>3. QED
    BY <2>2 DEF Slot!Next
<1>5. QED
  BY <1>1, <1>2, <1>3, <1>4 DEF Worker

\* A call submits, runs, finishes or abandons the slot's job, or is not seen.
LEMMA SlotApp ==
  ASSUME TypeOK, SlotInv, ~gaveUp, AppCall \/ AppStep
  PROVE  [Slot!Next]_(Slot!slotVars)
<1> USE DEF jobVars, evtVars, thrVars, userVars, cntVars, hisVars
<1>1. CASE AsCall
  <2>1. /\ ~pending /\ pending' /\ nJobs < MaxJobs /\ nJobs' = nJobs + 1
        /\ app' = "start" /\ ~WorkerRunning' /\ UNCHANGED gaveUp
    BY <1>1 DEF AsCall, Accepts, FillJob, SlotInv, HolderInv, WorkerHolds, WorkerRunning
  <2>2. Slot!Submit
    BY <2>1 DEF Slot!Submit, AppRunning
  <2>3. QED
    BY <2>2 DEF Slot!Next
<1>2. CASE SyncCall
  <2>1. /\ ~pending /\ pending' /\ nJobs < MaxJobs /\ nJobs' = nJobs + 1
        /\ app' = "perform" /\ UNCHANGED gaveUp
    BY <1>2 DEF SyncCall, Accepts, FillJob
  <2>2. Slot!SubmitAndRun
    BY <2>1 DEF Slot!SubmitAndRun, AppRunning
  <2>3. QED
    BY <2>2 DEF Slot!Next
<1>3. CASE SyncResult
  <2>1. /\ app = "perform" /\ app' = "clear" /\ pending
        /\ UNCHANGED <<pending, nJobs, gaveUp>>
    BY <1>3 DEF SyncResult, SlotInv, HolderInv, CallerHolds
  <2>2. QED
    BY <2>1 DEF Slot!slotVars, AppRunning
<1>4. CASE SyncReturn
  <2>1. /\ app = "clear" /\ pending /\ ~pending' /\ jobResult' = nJobs /\ UNCHANGED <<nJobs, gaveUp>>
    BY <1>4 DEF SyncReturn, SlotInv, HolderInv, CallerHolds, JobInv
  <2>2. Slot!Finish
    BY <2>1 DEF Slot!Finish, AppRunning
  <2>3. QED
    BY <2>2 DEF Slot!Next
<1>5. CASE StartAsyncJob \/ KickWorker \/ CheckReturn \/ WaitEnter \/ WaitWake
           \/ WaitTimeout \/ WaitReturn \/ CallBusy \/ CheckCall \/ WaitCall
  <2>1. UNCHANGED <<pending, jobResult, nJobs, gaveUp>> /\ ~AppRunning /\ ~AppRunning'
    BY <1>5 DEF StartAsyncJob, KickWorker, CheckReturn, WaitEnter, WaitWake, WaitTimeout,
                WaitReturn, CallBusy, CheckCall, WaitCall, AppRunning
  <2>2. WorkerRunning' = WorkerRunning
    BY <1>5 DEF StartAsyncJob, KickWorker, CheckReturn, WaitEnter, WaitWake, WaitTimeout,
                WaitReturn, CallBusy, CheckCall, WaitCall, WorkerRunning,
                SlotInv, ThreadInv
  <2>3. AppRunning' = AppRunning
    BY <2>1 DEF AppRunning
  <2>4. QED
    BY <2>1, <2>2, <2>3, SlotStutter
<1>6. CASE CloseSignal \/ CloseJoin \/ ResetReopen
  BY <1>6 DEF CloseSignal, CloseJoin, ResetReopen, SlotInv, ThreadInv
<1>7. CASE Disconnect /\ ~pending
  <2>1. UNCHANGED <<pending, jobResult, nJobs, gaveUp>>
        /\ WorkerRunning' = WorkerRunning /\ AppRunning' = AppRunning
    BY <1>7 DEF Disconnect, TypeOK, WorkerRunning, AppRunning
  <2>2. QED
    BY <2>1, SlotStutter
<1>8. CASE (Disconnect /\ pending) \/ GivesUp
  <2>1. gaveUp'
    BY <1>8 DEF Disconnect, GivesUp, AsCallInvalid, Reset, Destroy
  <2>2. Slot!Abandon
    BY <2>1 DEF Slot!Abandon
  <2>3. QED
    BY <2>2 DEF Slot!Next
<1>9. QED
  BY <1>1, <1>2, <1>3, <1>4, <1>5, <1>6, <1>7, <1>8 DEF AppCall, AppStep, GivesUp

\* Every behaviour of the client is, seen through its job record, a behaviour of
\* a slot that takes one job at a time, performs it once and keeps its result,
\* until the application abandons a job.
THEOREM ClientImplementsSlot == Spec => SlotSpec
<1>1. Init => Slot!Init
  BY DEF Init, Slot!Init
<1>2. ClientInv /\ [Next]_vars => [Slot!Next]_(Slot!slotVars)
  <2> SUFFICES ASSUME ClientInv, [Next]_vars
               PROVE  [Slot!Next]_(Slot!slotVars)
    OBVIOUS
  <2>1. CASE gaveUp
    <3>1. gaveUp'
      BY <2>1, GaveUpStays
    <3>2. QED
      BY <2>1, <3>1 DEF Slot!slotVars
  <2>2. CASE ~gaveUp /\ Next
    BY <2>2, SlotWorker, SlotApp DEF Next, ClientInv
  <2>3. CASE UNCHANGED vars
    BY <2>3, SlotStutter DEF vars, jobVars, thrVars, userVars, cntVars, WorkerRunning,
                             AppRunning
  <2>4. QED
    BY <2>1, <2>2, <2>3
<1>3. QED
  BY <1>1, <1>2, ClientInvariant, PTL DEF Spec, SlotSpec, Slot!Spec
=============================================================================
