-------------------------- MODULE QueueModeProofs --------------------------
(***************************************************************************)
(* For any mains, workers, executions and numbers of stops and faults: a   *)
(* workflow is started once, recovery only crashes what it could not find  *)
(* in the queue, and a run that a stop has cancelled stays canceled.       *)
(***************************************************************************)
EXTENDS QueueMode, TLAPS

JobStates ==
    {"none", "waiting", "active", "completed", "cancelled", "stalled", "errored", "removed"}
Stages == {"off", "created", "added", "awaiting", "erring", "discard", "dismissed", "over"}
WorkStages == {"idle", "taken", "found", "starting", "running", "saving", "saved"}

\* A job is added once, by the main that created the row.
NotAdded == \A e \in Executions : pc[e] \in {"off", "created"} => job[e] = "none"

\* A job that no worker has taken has started nothing.
Untaken ==
    \A e \in Executions : job[e] \in {"none", "waiting"} =>
        starts[e] = 0 /\ \A w \in Workers : work[w][e] = "idle"

\* One worker at most is at work on an execution.
OneWorker ==
    \A e \in Executions : \A v, w \in Workers :
        work[v][e] # "idle" /\ work[w][e] # "idle" => v = w

\* A worker that is still preparing the run has not started it.
NotStarted ==
    \A e \in Executions : \A w \in Workers :
        work[w][e] \in {"taken", "found", "starting"} => starts[e] = 0

JobInv ==
    /\ job \in [Executions -> JobStates]
    /\ pc \in [Executions -> Stages]
    /\ work \in [Workers -> [Executions -> WorkStages]]
    /\ starts \in [Executions -> Nat]
    /\ NotAdded /\ Untaken /\ OneWorker /\ NotStarted /\ StartedOnce

\* What recovery is about to mark was not in the queue when it looked: a job
\* that is there now came later.
MarkedAreAbsent ==
    \A m \in Mains : recovery[m].stage = "marking" =>
        \A e \in recovery[m].ids : job[e] \in {"waiting", "active"} => e \in late

LookInv ==
    /\ recovery \in [Mains -> [stage : {"off", "timer", "stored", "marking"}, ids : SUBSET Executions]]
    /\ leader \in Mains
    /\ MarkedAreAbsent

\* No run ends as crashed.
RowInv ==
    /\ row \in [Executions -> {"none", "new", "running", "success", "error", "canceled", "crashed", "deleted"}]
    /\ out \in [Workers -> [Executions -> {"none", "success", "error", "canceled"}]]

\* Somebody asked, or may still ask, for the job of e to be cancelled.
Asked(e) == attached[e] = TRUE \/ cancel[e] # "off" \/ e \in abort \/ e \in aborted

\* A job is only cancelled through the promise that awaits it.
AskedAwaits == \A e \in Executions : Asked(e) => pc[e] \notin {"off", "created", "added"}

\* The job of an execution that is about to be written as an error, though it
\* could be cancelled, has failed.
ErrorsFailed == \A e \in Executions : pc[e] = "erring" /\ Asked(e) => job[e] \in {"stalled", "errored"}

\* What may be discarded has completed.
DiscardsCompleted == \A e \in Executions : pc[e] = "discard" => job[e] = "completed"

\* A job that a worker has is not over, unless Bull takes it for stalled.
BusyIsActive ==
    \A e \in Executions : \A w \in Workers : work[w][e] # "idle" => job[e] \in {"active", "stalled"}

\* A run that was cancelled is being saved as canceled, and its job will be.
CancelledIsSaved ==
    \A e \in aborted :
        /\ job[e] \in {"active", "cancelled", "stalled"}
        /\ \A w \in Workers : work[w][e] # "idle" => work[w][e] \in {"saving", "saved"} /\ out[w][e] = "canceled"

CancelInv ==
    /\ attached \in [Executions -> BOOLEAN] /\ entry \in [Executions -> BOOLEAN]
    /\ cancel \in [Executions -> {"off", "asking", "removing"}] /\ abort \subseteq Executions
    /\ aborted \subseteq Executions
    /\ AskedAwaits /\ ErrorsFailed /\ DiscardsCompleted /\ BusyIsActive /\ CancelledIsSaved

-----------------------------------------------------------------------------
(* JobInv is inductive *)

\* Nothing is started yet.
LEMMA JobInvInit == QueueInit => JobInv
BY DEF QueueInit, JobInv, JobStates, Stages, WorkStages, NotAdded, Untaken, OneWorker, NotStarted,
       StartedOnce

\* The main's steps add a job that nobody has taken, and touch no other.
LEMMA MainSteps ==
    ASSUME JobInv, NEW e \in Executions,
           \/ \E m \in Mains : Create(m, e)
           \/ MainStep(e) \/ AddFails(e)
    PROVE  JobInv'
<1> USE DEF JobInv, JobStates, Stages, NotAdded, Untaken, OneWorker, NotStarted, StartedOnce, Goto,
            workVars
<1>1. CASE \E m \in Mains : Create(m, e)
  BY <1>1 DEF Create
<1>2. CASE AddJob(e)
  BY <1>2 DEF AddJob
<1>3. CASE Await(e)
  BY <1>3 DEF Await
<1>4. ASSUME pc[e] # "off", ProcessError(e) PROVE JobInv'
  BY <1>4 DEF ProcessError
<1>5. CASE JobFailed(e)
  BY <1>4, <1>5 DEF JobFailed
<1>6. CASE AddFails(e)
  BY <1>4, <1>6 DEF AddFails
<1>7. CASE WriteError(e)
  BY <1>7 DEF WriteError
<1>8. CASE JobFinished(e)
  BY <1>8 DEF JobFinished
<1>9. CASE Discard(e)
  BY <1>9 DEF Discard
<1> QED BY <1>1, <1>2, <1>3, <1>5, <1>6, <1>7, <1>8, <1>9 DEF MainStep

\* A worker that is done with a job, however the job ended.
LEMMA WorkerLeaves ==
    ASSUME JobInv, NEW e \in Executions, NEW w \in Workers,
           NEW s \in {"completed", "cancelled", "errored"},
           work[w][e] # "idle", At(w, e, "idle"), Ended(e, s), UNCHANGED <<pc, starts>>
    PROVE  JobInv'
<1>1. /\ job' \in [Executions -> JobStates]
      /\ \A x \in Executions : job'[x] \in {"none", "waiting"} => job'[x] = job[x]
      /\ \A x \in Executions : job[x] = "none" => job'[x] = "none"
  BY DEF JobInv, JobStates, Ended
<1>2. /\ work' \in [Workers -> [Executions -> WorkStages]]
      /\ \A v \in Workers : \A x \in Executions : work'[v][x] \in {"idle", work[v][x]}
  BY DEF JobInv, WorkStages, At
<1> QED BY <1>1, <1>2 DEF JobInv, NotAdded, Untaken, OneWorker, NotStarted, StartedOnce

\* A worker takes a job that waits, starts it once, and gives none back.
LEMMA WorkSteps ==
    ASSUME JobInv, NEW e \in Executions, NEW w \in Workers,
           Take(w, e) \/ WorkStep(w, e) \/ StartFails(w, e)
    PROVE  JobInv'
<1> USE DEF JobInv, JobStates, Stages, WorkStages, NotAdded, Untaken, OneWorker, NotStarted,
            StartedOnce, At, Ended, mainVars
<1>1. CASE Take(w, e)
  BY <1>1 DEF Take
<1>2. CASE FindExecution(w, e)
  <2>1. UNCHANGED <<pc, starts>> /\ work[w][e] # "idle"
    BY <1>2 DEF FindExecution
  <2>2. \/ At(w, e, "idle") /\ \E s \in {"completed", "errored"} : Ended(e, s)
        \/ At(w, e, "found") /\ work[w][e] = "taken" /\ job' = job
    BY <1>2 DEF FindExecution
  <2>3. CASE At(w, e, "found") /\ work[w][e] = "taken" /\ job' = job
    BY <2>1, <2>3
  <2>4. ASSUME NEW s \in {"completed", "errored"}, At(w, e, "idle"), Ended(e, s) PROVE JobInv'
    <3> HIDE DEF JobInv, At, Ended
    <3> QED BY <2>1, <2>4, WorkerLeaves
  <2> QED BY <2>2, <2>3, <2>4
<1>3. CASE SetRunning(w, e)
  BY <1>3 DEF SetRunning
<1>4. CASE StartFails(w, e)
  BY <1>4, WorkerLeaves DEF StartFails
<1>5. CASE Start(w, e)
  BY <1>5 DEF Start
<1>6. CASE RunEnds(w, e)
  BY <1>6 DEF RunEnds
<1>7. CASE Save(w, e)
  BY <1>7 DEF Save
<1>8. CASE EndJob(w, e)
  BY <1>8 DEF EndJob
<1> QED BY <1>1, <1>2, <1>3, <1>4, <1>5, <1>6, <1>7, <1>8 DEF WorkStep

\* A job that stalls fails, so that nobody takes it again.
LEMMA StallSteps ==
    ASSUME JobInv, NEW e \in Executions, Stall(e) \/ LockLapses(e)
    PROVE  JobInv'
BY DEF JobInv, JobStates, Stages, WorkStages, NotAdded, Untaken, OneWorker, NotStarted, StartedOnce,
       Stall, LockLapses, Stalled, mainVars, workVars

\* A crashed worker works on nothing.
LEMMA WorkerCrashStep ==
    ASSUME JobInv, NEW w \in Workers, WorkerCrash(w)
    PROVE  JobInv'
BY DEF JobInv, JobStates, Stages, WorkStages, NotAdded, Untaken, OneWorker, NotStarted, StartedOnce,
       WorkerCrash, mainVars

\* A stop removes a job or cancels a run that has started.
LEMMA StopSteps ==
    ASSUME JobInv, NEW e \in Executions, StopStep(e) \/ \E m \in Mains : Stop(m, e)
    PROVE  JobInv'
<1> USE DEF JobInv, JobStates, Stages, WorkStages, NotAdded, Untaken, OneWorker, NotStarted,
            StartedOnce, mainVars, workVars
<1>1. CASE \E m \in Mains : Stop(m, e)
  BY <1>1 DEF Stop
<1>2. CASE StopDuringRun(e)
  BY <1>2 DEF StopDuringRun
<1>3. CASE AskIsActive(e)
  BY <1>3 DEF AskIsActive
<1>4. CASE RemoveJob(e)
  BY <1>4 DEF RemoveJob
<1>5. CASE AbortJob(e)
  <2>1. \A v \in Workers : \A x \in Executions :
          \/ work'[v][x] = work[v][x]
          \/ work[v][x] = "running" /\ work'[v][x] = "saving"
    BY <1>5 DEF AbortJob
  <2>2. work' \in [Workers -> [Executions -> WorkStages]]
    BY <1>5 DEF AbortJob
  <2>3. UNCHANGED <<job, pc, starts>>
    BY <1>5 DEF AbortJob
  <2>4. (NotAdded /\ StartedOnce)'
    BY <2>3
  <2>5. Untaken'
    BY <2>1, <2>3
  <2>6. OneWorker'
    BY <2>1
  <2>7. NotStarted'
    BY <2>1, <2>3
  <2> QED BY <2>2, <2>3, <2>4, <2>5, <2>6, <2>7
<1> QED BY <1>1, <1>2, <1>3, <1>4, <1>5 DEF StopStep

\* Recovery, roles and a main's crash start and add nothing.
LEMMA RecoverySteps ==
    ASSUME JobInv, NEW m \in Mains, RecoveryStep(m) \/ Handover(m) \/ MainCrash(m)
    PROVE  JobInv'
<1> USE DEF JobInv, JobStates, Stages, WorkStages, NotAdded, Untaken, OneWorker, NotStarted,
            StartedOnce, mainVars, workVars
<1>1. CASE RecoveryStep(m)
  BY <1>1 DEF RecoveryStep, FindStored, FindJobs, MarkAsCrashed
<1>2. CASE Handover(m)
  BY <1>2 DEF Handover
<1>3. CASE MainCrash(m)
  <2>1. /\ UNCHANGED <<job, work, starts>>
        /\ pc' = [e \in Executions |-> IF home[e] = m THEN "over" ELSE pc[e]]
    BY <1>3 DEF MainCrash
  <2> QED BY <2>1
<1> QED BY <1>1, <1>2, <1>3

\* Every step keeps the jobs and their workers in order.
LEMMA JobInvNext == JobInv /\ [QueueNext]_vars => JobInv'
<1> SUFFICES ASSUME JobInv, [QueueNext]_vars PROVE JobInv'
  OBVIOUS
<1>1. CASE QueueNext
  BY <1>1, MainSteps, WorkSteps, StallSteps, WorkerCrashStep, StopSteps, RecoverySteps DEF QueueNext
<1>2. CASE UNCHANGED vars
  BY <1>2 DEF vars, mainVars, workVars, JobInv, NotAdded, Untaken, OneWorker, NotStarted, StartedOnce
<1> QED BY <1>1, <1>2

-----------------------------------------------------------------------------
(* LookInv is inductive *)

\* No recovery is under way at first.
LEMMA LookInvInit == QueueInit => LookInv
BY QueueAssumption DEF QueueInit, LookInv, MarkedAreAbsent, Timer, Off

\* A step that starts no check and adds no job keeps LookInv.
LEMMA LookFrame ==
    ASSUME LookInv, UNCHANGED <<recovery, leader>>, late \subseteq late',
           \A e \in Executions :
             job'[e] \in {"waiting", "active"} => job[e] \in {"waiting", "active"} \/ AddJob(e)
    PROVE  LookInv'
<1> SUFFICES ASSUME NEW m \in Mains, recovery[m].stage = "marking", NEW e \in recovery[m].ids,
                    job'[e] \in {"waiting", "active"}
             PROVE  e \in late'
  BY DEF LookInv, MarkedAreAbsent
<1>1. e \in Executions
  BY DEF LookInv
<1>2. CASE job[e] \in {"waiting", "active"}
  BY <1>2 DEF LookInv, MarkedAreAbsent
<1>3. CASE AddJob(e)
  BY <1>3 DEF AddJob
<1> QED BY <1>1, <1>2, <1>3

\* A check is about to mark what it did not find.
LEMMA LookSteps ==
    ASSUME LookInv, NEW m \in Mains, RecoveryStep(m) \/ Handover(m) \/ MainCrash(m)
    PROVE  LookInv'
<1> USE DEF LookInv, MarkedAreAbsent, Timer, Off, Stopped, Scheduled
<1>1. CASE FindStored(m)
  BY <1>1 DEF FindStored, RecoverAt
<1>2. CASE FindJobs(m)
  BY <1>2 DEF FindJobs, Queued
<1>3. CASE MarkAsCrashed(m)
  BY <1>3 DEF MarkAsCrashed
<1>4. CASE Handover(m)
  BY <1>4 DEF Handover
<1>5. CASE MainCrash(m)
  BY <1>5 DEF MainCrash
<1> QED BY <1>1, <1>2, <1>3, <1>4, <1>5 DEF RecoveryStep

\* Whatever happens between a recovery's look and its write, what it
\* marks stays absent or came late.
LEMMA LookInvNext == JobInv /\ LookInv /\ [QueueNext]_vars => LookInv'
<1> SUFFICES ASSUME JobInv, LookInv, [QueueNext]_vars PROVE LookInv'
  OBVIOUS
<1> USE DEF leadVars
<1>1. ASSUME NEW e \in Executions, \E m \in Mains : Create(m, e) \/ Stop(m, e) PROVE LookInv'
  BY <1>1, LookFrame DEF Create, Stop
<1>2. ASSUME NEW e \in Executions, MainStep(e) PROVE LookInv'
  <2>1. CASE AddJob(e)
    <3>1. \A x \in Executions : job'[x] = job[x] \/ x = e
      BY <2>1 DEF AddJob, JobInv
    <3>2. UNCHANGED <<recovery, leader>> /\ late \subseteq late'
      BY <2>1 DEF AddJob
    <3> QED BY <2>1, <3>1, <3>2, LookFrame
  <2>2. CASE ~AddJob(e)
    BY <1>2, <2>2, LookFrame DEF MainStep, Await, JobFailed, ProcessError, WriteError, JobFinished, Discard
  <2> QED BY <2>1, <2>2
<1>3. ASSUME NEW e \in Executions, AddFails(e) PROVE LookInv'
  BY <1>3, LookFrame DEF AddFails, ProcessError
<1>4. ASSUME NEW e \in Executions, StopStep(e) PROVE LookInv'
  BY <1>4, LookFrame DEF StopStep, StopDuringRun, AskIsActive, RemoveJob, AbortJob, JobInv
<1>5. ASSUME NEW e \in Executions, Stall(e) \/ LockLapses(e) PROVE LookInv'
  BY <1>5, LookFrame DEF Stall, LockLapses, Stalled, JobInv
<1>6. ASSUME NEW e \in Executions, NEW w \in Workers, Take(w, e) \/ WorkStep(w, e) \/ StartFails(w, e)
      PROVE  LookInv'
  <2>1. UNCHANGED <<recovery, leader, late>>
    BY <1>6 DEF Take, WorkStep, FindExecution, SetRunning, Start, RunEnds, Save, EndJob, StartFails
  <2>2. \A x \in Executions : job'[x] \in {"waiting", "active"} => job[x] \in {"waiting", "active"}
    BY <1>6 DEF Take, WorkStep, FindExecution, SetRunning, Start, RunEnds, Save, EndJob, StartFails, Ended,
                JobInv
  <2> QED BY <2>1, <2>2, LookFrame
<1>7. ASSUME NEW w \in Workers, WorkerCrash(w) PROVE LookInv'
  BY <1>7, LookFrame DEF WorkerCrash
<1>8. CASE UNCHANGED vars
  BY <1>8, LookFrame DEF vars
<1> QED BY <1>1, <1>2, <1>3, <1>4, <1>5, <1>6, <1>7, <1>8, LookSteps DEF QueueNext

-----------------------------------------------------------------------------
(* RowInv is inductive, and only recovery crashes a row *)

\* No row exists yet.
LEMMA RowInvInit == QueueInit => RowInv
BY DEF QueueInit, RowInv

\* A step keeps the types, and marks no row as crashed unless a check did.
Harmless ==
    /\ RowInv'
    /\ \A e \in Executions : row[e] # "crashed" /\ row'[e] = "crashed" =>
         \E m \in Mains : recovery[m].stage = "marking" /\ e \in recovery[m].ids

\* Only MarkAsCrashed writes crashed.
LEMMA RowNext == RowInv /\ [QueueNext]_vars => Harmless
<1> SUFFICES ASSUME RowInv, [QueueNext]_vars PROVE Harmless
  OBVIOUS
<1> USE DEF Harmless, RowInv, workVars
<1>1. ASSUME NEW e \in Executions, \E m \in Mains : Create(m, e) \/ Stop(m, e) PROVE Harmless
  BY <1>1 DEF Create, Stop
<1>2. ASSUME NEW e \in Executions, MainStep(e) PROVE Harmless
  BY <1>2 DEF MainStep, AddJob, Await, JobFailed, ProcessError, WriteError, JobFinished, Discard, Write
<1>3. ASSUME NEW e \in Executions, AddFails(e) PROVE Harmless
  BY <1>3 DEF AddFails, ProcessError
<1>4. ASSUME NEW e \in Executions, StopStep(e) PROVE Harmless
  <2>1. CASE AbortJob(e)
    BY <2>1 DEF AbortJob
  <2>2. CASE ~AbortJob(e)
    BY <1>4, <2>2 DEF StopStep, StopDuringRun, AskIsActive, RemoveJob, Write
  <2> QED BY <2>1, <2>2
<1>5. ASSUME NEW e \in Executions, Stall(e) \/ LockLapses(e) PROVE Harmless
  BY <1>5 DEF Stall, LockLapses
<1>6. ASSUME NEW e \in Executions, NEW w \in Workers, Take(w, e) \/ WorkStep(w, e) \/ StartFails(w, e)
      PROVE  Harmless
  <2>1. CASE Save(w, e)
    BY <2>1 DEF Save, Write
  <2>2. CASE RunEnds(w, e)
    BY <2>2 DEF RunEnds
  <2>3. CASE SetRunning(w, e) \/ StartFails(w, e)
    BY <2>3 DEF SetRunning, StartFails, Write
  <2>4. CASE Take(w, e) \/ FindExecution(w, e) \/ Start(w, e) \/ EndJob(w, e)
    BY <2>4 DEF Take, FindExecution, Start, EndJob
  <2> QED BY <1>6, <2>1, <2>2, <2>3, <2>4 DEF WorkStep
<1>7. ASSUME NEW m \in Mains, RecoveryStep(m) PROVE Harmless
  BY <1>7 DEF RecoveryStep, FindStored, FindJobs, MarkAsCrashed
<1>8. ASSUME NEW m \in Mains, Handover(m) \/ MainCrash(m) PROVE Harmless
  BY <1>8 DEF Handover, MainCrash
<1>9. ASSUME NEW w \in Workers, WorkerCrash(w) PROVE Harmless
  BY <1>9 DEF WorkerCrash
<1>10. CASE UNCHANGED vars
  BY <1>10 DEF vars
<1> QED BY <1>1, <1>2, <1>3, <1>4, <1>5, <1>6, <1>7, <1>8, <1>9, <1>10 DEF QueueNext

-----------------------------------------------------------------------------
(* CancelInv is inductive *)

\* Nobody has asked for anything.
LEMMA CancelInvInit == QueueInit => CancelInv
BY DEF QueueInit, CancelInv, Asked, AskedAwaits, ErrorsFailed, DiscardsCompleted, BusyIsActive, CancelledIsSaved

\* The main's steps: who awaits can be cancelled, and errs only when the job has failed.
LEMMA CancelMain ==
    ASSUME JobInv, CancelInv, NEW e \in Executions,
           \/ \E m \in Mains : Create(m, e)
           \/ MainStep(e) \/ AddFails(e)
    PROVE  CancelInv'
<1> USE DEF CancelInv, Asked, AskedAwaits, ErrorsFailed, DiscardsCompleted, BusyIsActive, CancelledIsSaved,
            Goto, workVars, stopVars, JobInv
<1>1. CASE \E m \in Mains : Create(m, e)
  BY <1>1 DEF Create
<1>2. CASE AddJob(e)
  BY <1>2 DEF AddJob, NotAdded, Untaken
<1>3. CASE Await(e)
  BY <1>3 DEF Await
<1>4. ASSUME Asked(e) => job[e] \in {"cancelled", "stalled", "errored"}, ProcessError(e) PROVE CancelInv'
  <2>1. UNCHANGED <<job, attached, work, out, cancel, abort, aborted>> /\ entry' \in [Executions -> BOOLEAN]
    BY <1>4 DEF ProcessError, Finalized
  <2>2. \/ pc' = [pc EXCEPT ![e] = "dismissed"]
        \/ pc' = [pc EXCEPT ![e] = "erring"] /\ job[e] # "cancelled"
    BY <1>4 DEF ProcessError, Dismissed
  <2>3. \A x \in Executions : Asked(x)' <=> Asked(x)
    BY <2>1
  <2>4. /\ \A x \in Executions \ {e} : pc'[x] = pc[x]
        /\ pc'[e] \in {"dismissed", "erring"} /\ (pc'[e] = "erring" => job[e] # "cancelled")
    BY <2>2
  <2> HIDE DEF Asked
  <2> QED BY <1>4, <2>1, <2>3, <2>4
<1>5. CASE JobFailed(e)
  BY <1>4, <1>5 DEF JobFailed
<1>6. CASE AddFails(e)
  BY <1>4, <1>6 DEF AddFails
<1>7. CASE WriteError(e)
  BY <1>7 DEF WriteError
<1>8. CASE JobFinished(e)
  BY <1>8 DEF JobFinished, Finalized
<1>9. CASE Discard(e)
  BY <1>9 DEF Discard
<1> QED BY <1>1, <1>2, <1>3, <1>5, <1>6, <1>7, <1>8, <1>9 DEF MainStep

\* A worker that leaves a job it has not started.
LEMMA CancelLeaves ==
    ASSUME JobInv, CancelInv, NEW e \in Executions, NEW w \in Workers, NEW s \in {"completed", "errored"},
           work[w][e] \in {"taken", "starting"}, At(w, e, "idle"), Ended(e, s),
           UNCHANGED <<attached, entry, cancel, abort, aborted, pc, out>>
    PROVE  CancelInv'
<1>1. e \notin aborted
  BY DEF CancelInv, CancelledIsSaved
<1>2. /\ \A x \in Executions : x # e => job'[x] = job[x]
      /\ job'[e] = job[e] \/ (job[e] = "active" /\ job'[e] = s)
  BY DEF JobInv, Ended
<1>3. /\ \A v \in Workers, x \in Executions : v # w \/ x # e => work'[v][x] = work[v][x]
      /\ work'[w][e] = "idle"
  BY DEF JobInv, At
<1>4. \A x \in Executions : Asked(x)' <=> Asked(x)
  BY DEF Asked
<1>5. (AskedAwaits /\ ErrorsFailed /\ DiscardsCompleted)'
  BY <1>2, <1>4 DEF CancelInv, AskedAwaits, ErrorsFailed, DiscardsCompleted
<1>6. BusyIsActive'
  BY <1>2, <1>3 DEF CancelInv, BusyIsActive, JobInv, OneWorker
<1>7. CancelledIsSaved'
  BY <1>1, <1>2, <1>3 DEF CancelInv, CancelledIsSaved
<1> QED BY <1>5, <1>6, <1>7 DEF CancelInv

\* A worker that has not started its run, or is done with it, was not cancelled.
LEMMA CancelWork ==
    ASSUME JobInv, RowInv, CancelInv, NEW e \in Executions, NEW w \in Workers,
           Take(w, e) \/ WorkStep(w, e) \/ StartFails(w, e)
    PROVE  CancelInv'
<1> USE DEF CancelInv, Asked, AskedAwaits, ErrorsFailed, DiscardsCompleted, BusyIsActive, CancelledIsSaved,
            At, Ended, mainVars, stopVars, JobInv, RowInv, OneWorker
<1>1. CASE Take(w, e)
  BY <1>1 DEF Take, Untaken
<1>2. CASE FindExecution(w, e)
  <2>1. UNCHANGED <<attached, entry, cancel, abort, aborted, pc, out>> /\ e \notin aborted
    BY <1>2 DEF FindExecution
  <2>2. \/ At(w, e, "idle") /\ \E s \in {"completed", "errored"} : Ended(e, s)
        \/ At(w, e, "found") /\ job' = job
    BY <1>2 DEF FindExecution
  <2>3. CASE At(w, e, "found") /\ job' = job
    BY <1>2, <2>1, <2>3 DEF FindExecution
  <2>4. ASSUME NEW s \in {"completed", "errored"}, At(w, e, "idle"), Ended(e, s) PROVE CancelInv'
    <3>1. work[w][e] = "taken"
      BY <1>2 DEF FindExecution
    <3> HIDE DEF CancelInv, At, Ended, JobInv
    <3> QED BY <2>1, <2>4, <3>1, CancelLeaves
  <2> QED BY <2>2, <2>3, <2>4
<1>3. CASE SetRunning(w, e)
  BY <1>3 DEF SetRunning
<1>4. CASE StartFails(w, e)
  <2>1. UNCHANGED <<attached, entry, cancel, abort, aborted, pc, out>> /\ work[w][e] = "starting" /\ At(w, e, "idle")
        /\ \E s \in {"completed", "errored"} : Ended(e, s)
    BY <1>4 DEF StartFails
  <2> HIDE DEF CancelInv, At, Ended, JobInv
  <2> QED BY <2>1, CancelLeaves
<1>5. CASE Start(w, e)
  BY <1>5 DEF Start
<1>6. CASE RunEnds(w, e)
  BY <1>6 DEF RunEnds
<1>7. CASE Save(w, e)
  BY <1>7 DEF Save
<1>8. CASE EndJob(w, e)
  BY <1>8 DEF EndJob
<1> QED BY <1>1, <1>2, <1>3, <1>4, <1>5, <1>6, <1>7, <1>8 DEF WorkStep

\* A stalled job, and a worker that crashes.
LEMMA CancelStalls ==
    ASSUME JobInv, CancelInv,
           \/ \E e \in Executions : Stall(e) \/ LockLapses(e)
           \/ \E w \in Workers : WorkerCrash(w)
    PROVE  CancelInv'
<1> USE DEF CancelInv, Asked, AskedAwaits, ErrorsFailed, DiscardsCompleted, BusyIsActive, CancelledIsSaved,
            mainVars, workVars, stopVars, JobInv
<1>1. ASSUME NEW e \in Executions, Stall(e) \/ LockLapses(e) PROVE CancelInv'
  BY <1>1 DEF Stall, LockLapses, Stalled
<1>2. ASSUME NEW w \in Workers, WorkerCrash(w) PROVE CancelInv'
  BY <1>2 DEF WorkerCrash
<1> QED BY <1>1, <1>2

\* A stop asks where the promise is attached, and cancels the one run there is.
LEMMA CancelStops ==
    ASSUME JobInv, RowInv, CancelInv, NEW e \in Executions, StopStep(e) \/ \E m \in Mains : Stop(m, e)
    PROVE  CancelInv'
<1> USE DEF CancelInv, Asked, AskedAwaits, ErrorsFailed, DiscardsCompleted, BusyIsActive, CancelledIsSaved,
            mainVars, workVars, JobInv, RowInv
<1>1. CASE \E m \in Mains : Stop(m, e)
  <2>1. UNCHANGED <<job, pc, attached, work, out, abort, aborted>>
    BY <1>1 DEF Stop
  <2>2. /\ entry' \in [Executions -> BOOLEAN]
        /\ cancel' = cancel \/ (attached[e] = TRUE /\ cancel' = [cancel EXCEPT ![e] = "asking"])
    BY <1>1 DEF Stop
  <2>3. \A x \in Executions : Asked(x)' => Asked(x)
    BY <2>1, <2>2
  <2>4. cancel' \in [Executions -> {"off", "asking", "removing"}]
    BY <2>2
  <2> QED BY <2>1, <2>2, <2>3, <2>4
<1>2. CASE StopDuringRun(e)
  BY <1>2 DEF StopDuringRun
<1>3. CASE AskIsActive(e)
  BY <1>3 DEF AskIsActive
<1>4. CASE RemoveJob(e)
  BY <1>4 DEF RemoveJob, Untaken
<1>5. CASE AbortJob(e)
  <2> DEFINE runs == {w \in Workers : work[w][e] = "running"}
  <2>1. /\ UNCHANGED <<job, attached, entry, pc, cancel>> /\ e \in abort /\ abort' = abort \ {e}
        /\ aborted' = aborted \cup {x \in {e} : runs # {}}
        /\ aborted' \subseteq aborted \cup {e} /\ (e \in aborted' => e \in aborted \/ \E w \in Workers : w \in runs)
    BY <1>5 DEF AbortJob
  <2>2. \A w \in Workers : \A x \in Executions :
          /\ x # e \/ w \notin runs => work'[w][x] = work[w][x] /\ out'[w][x] = out[w][x]
          /\ w \in runs => work'[w][e] = "saving" /\ out'[w][e] = "canceled" /\ work[w][e] = "running"
    BY <1>5 DEF AbortJob
  <2>3. attached' \in [Executions -> BOOLEAN] /\ entry' \in [Executions -> BOOLEAN]
        /\ cancel' \in [Executions -> {"off", "asking", "removing"}] /\ abort' \subseteq Executions
        /\ aborted' \subseteq Executions
    BY <2>1
  <2>4. \A x \in Executions : Asked(x)' => Asked(x)
    BY <2>1
  <2>5. (AskedAwaits /\ ErrorsFailed /\ DiscardsCompleted)'
    BY <2>1, <2>4
  <2>6. BusyIsActive'
    BY <2>1, <2>2
  <2>7. CancelledIsSaved'
    <3> HIDE DEF runs
    <3> SUFFICES ASSUME NEW x \in aborted'
                 PROVE  /\ job[x] \in {"active", "cancelled", "stalled"}
                        /\ \A w \in Workers : work'[w][x] # "idle" =>
                             work'[w][x] \in {"saving", "saved"} /\ out'[w][x] = "canceled"
      BY <2>1
    <3>1. x \in Executions
      BY <2>3
    <3>2. CASE x \in aborted
      BY <2>2, <3>1, <3>2
    <3>3. CASE x = e /\ \E w \in Workers : w \in runs
      <4>1. PICK w \in Workers : w \in runs
        BY <3>3
      <4>2. job[e] \in {"active", "stalled"}
        BY <2>2, <4>1
      <4>3. \A v \in Workers \ {w} : work[v][e] = "idle" /\ v \notin runs
        BY <2>2, <4>1 DEF OneWorker
      <4> QED BY <2>2, <3>3, <4>1, <4>2, <4>3
    <3> QED BY <2>1, <3>2, <3>3
  <2> QED BY <2>3, <2>5, <2>6, <2>7
<1> QED BY <1>1, <1>2, <1>3, <1>4, <1>5 DEF StopStep

\* Recovery and roles cancel nothing; a main that crashes cannot be asked.
LEMMA CancelRecovers ==
    ASSUME JobInv, CancelInv, NEW m \in Mains, RecoveryStep(m) \/ Handover(m) \/ MainCrash(m)
    PROVE  CancelInv'
<1> USE DEF CancelInv, Asked, AskedAwaits, ErrorsFailed, DiscardsCompleted, BusyIsActive, CancelledIsSaved,
            mainVars, workVars, stopVars, JobInv
<1>1. CASE RecoveryStep(m)
  BY <1>1 DEF RecoveryStep, FindStored, FindJobs, MarkAsCrashed
<1>2. CASE Handover(m)
  BY <1>2 DEF Handover
<1>3. CASE MainCrash(m)
  <2>1. /\ UNCHANGED <<job, work, out, abort, aborted>>
        /\ pc' = [e \in Executions |-> IF home[e] = m THEN "over" ELSE pc[e]]
        /\ entry' = [e \in Executions |-> home[e] # m /\ entry[e]]
        /\ attached' = [e \in Executions |-> home[e] # m /\ attached[e]]
        /\ cancel' = [e \in Executions |-> IF home[e] = m THEN "off" ELSE cancel[e]]
    BY <1>3 DEF MainCrash
  <2>2. /\ attached' \in [Executions -> BOOLEAN] /\ entry' \in [Executions -> BOOLEAN]
        /\ cancel' \in [Executions -> {"off", "asking", "removing"}]
    BY <2>1
  <2>3. \A e \in Executions : /\ Asked(e)' => Asked(e)
                              /\ pc'[e] \in {"over", pc[e]}
    BY <2>1
  <2> QED BY <2>1, <2>2, <2>3
<1> QED BY <1>1, <1>2, <1>3

\* Every step of the specification.
LEMMA CancelInvNext == JobInv /\ RowInv /\ CancelInv /\ [QueueNext]_vars => CancelInv'
<1> SUFFICES ASSUME JobInv, RowInv, CancelInv, [QueueNext]_vars PROVE CancelInv'
  OBVIOUS
<1>1. CASE QueueNext
  BY <1>1, CancelMain, CancelWork, CancelStalls, CancelStops, CancelRecovers DEF QueueNext
<1>2. CASE UNCHANGED vars
  BY <1>2 DEF vars, mainVars, workVars, stopVars, CancelInv, Asked, AskedAwaits, ErrorsFailed, DiscardsCompleted,
              BusyIsActive, CancelledIsSaved
<1> QED BY <1>1, <1>2

-----------------------------------------------------------------------------
(* The theorems *)

\* The invariants hold throughout: who works on a job, what recovery has seen
\* and who may be cancelled.
THEOREM QueueInvariant == Spec => [](JobInv /\ LookInv /\ RowInv /\ CancelInv)
<1>1. QueueInit => JobInv /\ LookInv /\ RowInv /\ CancelInv
  BY JobInvInit, LookInvInit, RowInvInit, CancelInvInit
<1>2. JobInv /\ LookInv /\ RowInv /\ CancelInv /\ [QueueNext]_vars => (JobInv /\ LookInv /\ RowInv /\ CancelInv)'
  BY JobInvNext, LookInvNext, RowNext, CancelInvNext DEF Harmless
<1> QED BY <1>1, <1>2, PTL DEF Spec

\* With maxStalledCount 0 no crash, stall or retry makes a worker start a
\* workflow again.
THEOREM WorkflowStartsOnce == Spec => []StartedOnce
<1>1. JobInv => StartedOnce
  BY DEF JobInv
<1> QED BY <1>1, QueueInvariant, PTL

\* markAsCrashed() never marks an execution whose job was in the queue when
\* recoverFromQueue() looked and still is.
THEOREM RecoverySparesQueued == Spec => CrashedMeansAbsent
<1>1. LookInv /\ RowInv /\ [QueueNext]_vars =>
        [\A e \in Executions :
           row[e] # "crashed" /\ row'[e] = "crashed" =>
               job[e] \notin {"waiting", "active"} \/ e \in late]_vars
  BY RowNext DEF Harmless, LookInv, MarkedAreAbsent
<1> QED BY <1>1, QueueInvariant, PTL DEF Spec, CrashedMeansAbsent

\* What a run that 'abort-job' has cancelled leaves in its row stays, through
\* saves, discards, recoveries and crashes, unless Bull takes the job for
\* stalled.
THEOREM CancelledStaysCanceled == Spec => CancelledRunStaysCanceled
<1> DEFINE Stays == \A e \in aborted :
                      row[e] = "canceled" /\ row'[e] # "canceled" => job[e] = "stalled"
<1>1. JobInv /\ RowInv /\ CancelInv /\ [QueueNext]_vars => [Stays]_vars
  <2> SUFFICES ASSUME JobInv, RowInv, CancelInv, QueueNext, NEW e \in aborted,
                      row[e] = "canceled", row'[e] # "canceled"
               PROVE  job[e] = "stalled"
    OBVIOUS
  <2>1. /\ e \in Executions /\ pc[e] \notin {"off", "created", "added"}
        /\ job[e] \in {"active", "cancelled", "stalled"}
        /\ \A w \in Workers : work[w][e] # "idle" => work[w][e] \in {"saving", "saved"} /\ out[w][e] = "canceled"
    BY DEF CancelInv, AskedAwaits, Asked, CancelledIsSaved
  <2>2. ASSUME NEW x \in Executions, NEW s, Write(x, s) PROVE x = e /\ s # "canceled"
    BY <2>1, <2>2 DEF Write, RowInv
  <2>3. ASSUME NEW x \in Executions, \E m \in Mains : Create(m, x) \/ Stop(m, x) PROVE FALSE
    BY <2>1, <2>3 DEF Create, Stop, RowInv
  <2>4. ASSUME NEW x \in Executions, MainStep(x) \/ AddFails(x) PROVE job[e] = "stalled"
    <3>1. CASE WriteError(x)
      BY <2>1, <2>2, <3>1 DEF WriteError, CancelInv, ErrorsFailed, Asked
    <3>2. CASE Discard(x)
      BY <2>1, <2>2, <3>2 DEF Discard, CancelInv, DiscardsCompleted
    <3> QED BY <2>4, <3>1, <3>2 DEF MainStep, AddJob, Await, JobFailed, AddFails, ProcessError, JobFinished
  <2>5. ASSUME NEW x \in Executions, StopStep(x) PROVE FALSE
    BY <2>2, <2>5 DEF StopStep, StopDuringRun, AskIsActive, RemoveJob, AbortJob
  <2>6. ASSUME NEW x \in Executions, Stall(x) \/ LockLapses(x) PROVE FALSE
    BY <2>6 DEF Stall, LockLapses
  <2>7. ASSUME NEW x \in Executions, NEW w \in Workers, Take(w, x) \/ WorkStep(w, x) \/ StartFails(w, x)
        PROVE  FALSE
    <3>1. CASE SetRunning(w, x) \/ StartFails(w, x)
      BY <2>1, <2>2, <3>1 DEF SetRunning, StartFails
    <3>2. CASE Save(w, x)
      BY <2>1, <2>2, <3>2 DEF Save
    <3> QED BY <2>7, <3>1, <3>2 DEF WorkStep, Take, FindExecution, Start, RunEnds, EndJob
  <2>8. ASSUME NEW m \in Mains, RecoveryStep(m) \/ Handover(m) \/ MainCrash(m) PROVE FALSE
    BY <2>1, <2>8 DEF RecoveryStep, FindStored, FindJobs, MarkAsCrashed, Crashable, InProgress, Handover, MainCrash
  <2>9. ASSUME NEW w \in Workers, WorkerCrash(w) PROVE FALSE
    BY <2>9 DEF WorkerCrash
  <2> QED BY <2>3, <2>4, <2>5, <2>6, <2>7, <2>8, <2>9 DEF QueueNext
<1>2. Spec => [][Stays]_vars
  BY <1>1, QueueInvariant, PTL DEF Spec
<1> QED BY <1>2 DEF CancelledRunStaysCanceled
=============================================================================
