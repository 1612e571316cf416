------------------------------ MODULE JobSlot ------------------------------
(***************************************************************************)
(* What a snap7 client promises about its one job slot, whichever thread   *)
(* performs the job: a job is submitted only to a free slot, it is         *)
(* performed exactly once, and when the slot is free again it holds the    *)
(* result of the last job submitted.  An application that abandons a job   *)
(* is promised nothing more.  ClientAsync implements it.                   *)
(***************************************************************************)
EXTENDS Naturals

CONSTANT MaxJobs

VARIABLES
  phase,    \* "free", "queued" (accepted, not begun), "running" or "abandoned"
  job,      \* number of the last job submitted
  result    \* while the slot is free: the job whose result it holds

slotVars == <<phase, job, result>>

Init ==
  /\ phase = "free"
  /\ job = 0
  /\ result = 0

\* The asynchronous API: accepted now, performed later.
Submit ==
  /\ phase = "free"
  /\ job < MaxJobs
  /\ job' = job + 1
  /\ phase' = "queued"
  /\ result' = 0

\* The synchronous API: the caller starts performing at once.
SubmitAndRun ==
  /\ phase = "free"
  /\ job < MaxJobs
  /\ job' = job + 1
  /\ phase' = "running"
  /\ result' = 0

Begin ==
  /\ phase = "queued"
  /\ phase' = "running"
  /\ UNCHANGED <<job, result>>

Finish ==
  /\ phase = "running"
  /\ phase' = "free"
  /\ result' = job
  /\ UNCHANGED job

Abandon ==
  /\ phase # "abandoned"
  /\ phase' = "abandoned"
  /\ job' = 0
  /\ result' = 0

Next == Submit \/ SubmitAndRun \/ Begin \/ Finish \/ Abandon

Spec == Init /\ [][Next]_slotVars
=============================================================================
