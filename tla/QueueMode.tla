----------------------------- MODULE QueueMode -----------------------------
(***************************************************************************)
(* An execution in queue mode: the main that creates the row, adds the job *)
(* and awaits its end; the workers that take jobs; the stop a user asks    *)
(* any main for; and the recovery that the leader runs over rows and jobs. *)
(*                                                                         *)
(* Bull and Redis are external: a job waits, is active on a worker that    *)
(* renews its lock, and ends once.  A job whose lock has lapsed is failed  *)
(* as stalled.  The batch of recovery holds every row of the model, and an *)
(* execution that waits is WaitTracker's.                                  *)
(***************************************************************************)
EXTENDS Naturals, FiniteSets

CONSTANTS
    Mains,
    Leader,       \* the main that leads at first
    Workers,
    Executions,
    NoMain,
    MaxStops,
    MaxFaults,    \* everything below, except "discard"
    Ops           \* what may happen besides a normal run

QueueOps == {"addfail", "fail", "workercrash", "maincrash", "lapse", "handover", "discard"}

ASSUME QueueAssumption ==
    /\ Ops \subseteq QueueOps /\ NoMain \notin Mains /\ Leader \in Mains
    /\ {MaxStops, MaxFaults} \subseteq Nat

VARIABLES
    row,         \* the execution's status in the database
    job,         \* the state of its Bull job
    home,        \* the main that created it
    pc,          \* where enqueueExecution() is on that main
    entry,       \* it is in the activeExecutions of that main
    attached,    \* its entry has the promise that can be cancelled
    work,        \* per worker: where processJob() is
    out,         \* per worker: the status the run ended with
    stopper,     \* the main that is about to write it as canceled
    cancel,      \* where stopJob() is on its home
    abort,       \* an 'abort-job' message is on its way
    leader,
    recovery,    \* per main: where recoverFromQueue() is, and its ids
    starts,      \* history: how often its workflow was started
    aborted,     \* history: executions whose run was cancelled by 'abort-job'
    late,        \* history: executions whose job came after a recovery looked for it
    stops, faults

mainVars == <<home, pc, entry, attached>>
workVars == <<work, out, starts>>
stopVars == <<stopper, cancel, abort, aborted, stops>>
leadVars == <<leader, recovery>>
vars == <<row, job, mainVars, workVars, stopVars, leadVars, late, faults>>

InProgress == {"new", "running"}
Off == [stage |-> "off", ids |-> {}]
Timer == [stage |-> "timer", ids |-> {}]

\* A running system with a leader, and executions nobody has started yet.
QueueInit ==
    /\ row = [e \in Executions |-> "none"]
    /\ job = [e \in Executions |-> "none"]
    /\ home = [e \in Executions |-> NoMain]
    /\ pc = [e \in Executions |-> "off"]
    /\ entry = [e \in Executions |-> FALSE]
    /\ attached = [e \in Executions |-> FALSE]
    /\ work = [w \in Workers |-> [e \in Executions |-> "idle"]]
    /\ out = [w \in Workers |-> [e \in Executions |-> "none"]]
    /\ stopper = [e \in Executions |-> NoMain]
    /\ cancel = [e \in Executions |-> "off"]
    /\ abort = {} /\ aborted = {} /\ late = {}
    /\ leader = Leader
    /\ recovery = [m \in Mains |-> IF m = leader THEN Timer ELSE Off]
    /\ starts = [e \in Executions |-> 0]
    /\ stops = 0 /\ faults = 0

Fault(op) == op \in Ops /\ faults < MaxFaults /\ faults' = faults + 1

\* UPDATE ... WHERE id = e: a row that is gone stays gone.
Write(e, s) == row' = IF row[e] = "deleted" THEN row ELSE [row EXCEPT ![e] = s]

Goto(e, stage) == pc' = [pc EXCEPT ![e] = stage]

-----------------------------------------------------------------------------
(* The main: ActiveExecutions.add(), then enqueueExecution() *)

\* In queue mode the row stays 'new' until a worker has it.
Create(m, e) ==
    /\ pc[e] = "off"
    /\ row' = [row EXCEPT ![e] = "new"]
    /\ home' = [home EXCEPT ![e] = m]
    /\ entry' = [entry EXCEPT ![e] = TRUE]
    /\ Goto(e, "created")
    /\ UNCHANGED <<job, attached, workVars, stopVars, leadVars, late, faults>>

AddJob(e) ==
    /\ pc[e] = "created"
    /\ job' = [job EXCEPT ![e] = "waiting"]
    /\ late' = late \cup {x \in {e} : \E m \in Mains : recovery[m].stage = "marking" /\ e \in recovery[m].ids}
    /\ Goto(e, "added")
    /\ UNCHANGED <<row, home, entry, attached, workVars, stopVars, leadVars, faults>>

\* The workflowExecuteBefore hook is done; an entry that is gone gets no promise.
Await(e) ==
    /\ pc[e] = "added"
    /\ attached' = [attached EXCEPT ![e] = entry[e]]
    /\ Goto(e, "awaiting")
    /\ UNCHANGED <<row, job, home, entry, workVars, stopVars, leadVars, late, faults>>

\* Mutant of Dismissed: a cancelled job is an error like any other
DismissedIfSuccess(e) == row[e] = "success"

\* processError() returns at once for a cancelled job, and in queue mode when
\* the row turns out to be a success.
Dismissed(e) == job[e] = "cancelled" \/ row[e] = "success"

\* Mutant of Finalized: the entry is kept, as if the execution waited
FinalizedAsWaiting(e) == entry

\* finalizeExecution() settles the promise, whose .finally drops the entry.
Finalized(e) == [entry EXCEPT ![e] = FALSE]

\* processError(): the entry is finalized, then the row is written.
ProcessError(e) ==
    /\ IF Dismissed(e)
         THEN Goto(e, "dismissed") /\ UNCHANGED entry
         ELSE Goto(e, "erring") /\ entry' = Finalized(e)
    /\ UNCHANGED <<row, job, home, attached, workVars, stopVars, leadVars, late>>

\* The job is not added, or it is and the hook throws.
AddFails(e) == Fault("addfail") /\ pc[e] \in {"created", "added"} /\ ProcessError(e)

\* job.finished() rejects.
JobFailed(e) ==
    /\ pc[e] = "awaiting" /\ job[e] \in {"cancelled", "stalled", "errored"}
    /\ ProcessError(e)
    /\ UNCHANGED faults

\* The worker's workflowExecuteAfter hook, run on the main: it asks for nothing.
WriteError(e) ==
    /\ pc[e] = "erring"
    /\ Write(e, "error")
    /\ Goto(e, "over")
    /\ UNCHANGED <<job, home, entry, attached, workVars, stopVars, leadVars, late, faults>>

\* job.finished() resolves.
JobFinished(e) ==
    /\ pc[e] = "awaiting" /\ job[e] = "completed"
    /\ entry' = Finalized(e)
    /\ Goto(e, "discard")
    /\ UNCHANGED <<row, job, home, attached, workVars, stopVars, leadVars, late, faults>>

\* The workflowExecuteAfter hook of the main deletes what is not to be kept.
Discard(e) ==
    /\ pc[e] = "discard"
    /\ \/ UNCHANGED row
       \/ "discard" \in Ops /\ Write(e, "deleted")
    /\ Goto(e, "over")
    /\ UNCHANGED <<job, home, entry, attached, workVars, stopVars, leadVars, late, faults>>

-----------------------------------------------------------------------------
(* Workers: JobProcessor.processJob() *)

At(w, e, stage) == work' = [work EXCEPT ![w][e] = stage]

\* Bull gives a waiting job to one worker.
Take(w, e) ==
    /\ job[e] = "waiting" /\ work[w][e] = "idle"
    /\ job' = [job EXCEPT ![e] = "active"]
    /\ At(w, e, "taken")
    /\ UNCHANGED <<row, mainVars, out, starts, stopVars, leadVars, late, faults>>

\* The end of a job that is still this worker's; without the lock nothing happens.
Ended(e, state) == job' = IF job[e] = "active" THEN [job EXCEPT ![e] = state] ELSE job

\* A crashed execution is left alone; one that is gone is an error.
FindExecution(w, e) ==
    /\ work[w][e] = "taken"
    /\ CASE row[e] = "crashed" -> At(w, e, "idle") /\ Ended(e, "completed")
         [] row[e] = "deleted" -> At(w, e, "idle") /\ Ended(e, "errored")
         [] OTHER -> At(w, e, "found") /\ UNCHANGED job
    /\ UNCHANGED <<row, mainVars, out, starts, stopVars, leadVars, late, faults>>

\* setRunning(), whatever the row says by now.
SetRunning(w, e) ==
    /\ work[w][e] = "found"
    /\ Write(e, "running")
    /\ At(w, e, "starting")
    /\ UNCHANGED <<job, mainVars, out, starts, stopVars, leadVars, late, faults>>

\* The workflow is gone and processJob() throws, or a WorkflowHasIssuesError
\* is saved as an error and the job completes.
StartFails(w, e) ==
    /\ Fault("fail") /\ work[w][e] = "starting"
    /\ At(w, e, "idle")
    /\ \/ Ended(e, "errored") /\ UNCHANGED row
       \/ Ended(e, "completed") /\ Write(e, "error")
    /\ UNCHANGED <<mainVars, out, starts, stopVars, leadVars, late>>

\* The engine runs, and from the same moment the job is in runningJobs.
Start(w, e) ==
    /\ work[w][e] = "starting"
    /\ At(w, e, "running")
    /\ starts' = [starts EXCEPT ![e] = @ + 1]
    /\ UNCHANGED <<row, job, mainVars, out, stopVars, leadVars, late, faults>>

RunEnds(w, e) ==
    /\ work[w][e] = "running"
    /\ \E s \in {"success", "error"} : out' = [out EXCEPT ![w][e] = s]
    /\ At(w, e, "saving")
    /\ UNCHANGED <<row, job, mainVars, starts, stopVars, leadVars, late, faults>>

\* hookFunctionsSaveWorker(): the row is written whatever it says.
Save(w, e) ==
    /\ work[w][e] = "saving"
    /\ Write(e, out[w][e])
    /\ At(w, e, "saved")
    /\ UNCHANGED <<job, mainVars, out, starts, stopVars, leadVars, late, faults>>

\* processJob() returns, or throws for a run that was cancelled.
EndJob(w, e) ==
    /\ work[w][e] = "saved"
    /\ Ended(e, IF out[w][e] = "canceled" THEN "cancelled" ELSE "completed")
    /\ At(w, e, "idle")
    /\ UNCHANGED <<row, mainVars, out, starts, stopVars, leadVars, late, faults>>

\* Mutant of Stalled: maxStalledCount is Bull's default, 1
StalledOnce(e) == "waiting"

\* maxStalledCount: 0
Stalled(e) == "stalled"

\* A worker's check finds an active job without a lock.
Stall(e) ==
    /\ job[e] = "active"
    /\ \A w \in Workers : work[w][e] = "idle"
    /\ job' = [job EXCEPT ![e] = Stalled(e)]
    /\ UNCHANGED <<row, mainVars, workVars, stopVars, leadVars, late, faults>>

\* The same, while its worker was only too busy to renew the lock.
LockLapses(e) ==
    /\ Fault("lapse")
    /\ job[e] = "active" /\ \E w \in Workers : work[w][e] # "idle"
    /\ job' = [job EXCEPT ![e] = Stalled(e)]
    /\ UNCHANGED <<row, mainVars, workVars, stopVars, leadVars, late>>

\* The worker is gone, and back with nothing to do.
WorkerCrash(w) ==
    /\ Fault("workercrash")
    /\ work' = [work EXCEPT ![w] = [e \in Executions |-> "idle"]]
    /\ work' # work
    /\ UNCHANGED <<row, job, mainVars, out, starts, stopVars, leadVars, late>>

-----------------------------------------------------------------------------
(* Stopping: stopInScalingMode() on any main *)

\* ActiveExecutions.stopExecution() where the execution is; a promise that is
\* attached is cancelled.  The broadcast finds no top-level execution.
Stop(m, e) ==
    /\ stops < MaxStops /\ row[e] \in InProgress /\ stopper[e] = NoMain
    /\ stops' = stops + 1
    /\ stopper' = [stopper EXCEPT ![e] = m]
    /\ IF m = home[e] /\ entry[e]
         THEN /\ entry' = [entry EXCEPT ![e] = FALSE]
              /\ cancel' = IF attached[e] THEN [cancel EXCEPT ![e] = "asking"] ELSE cancel
         ELSE UNCHANGED <<entry, cancel>>
    /\ UNCHANGED <<row, job, home, pc, attached, workVars, abort, aborted, leadVars, late, faults>>

\* stopDuringRun()
StopDuringRun(e) ==
    /\ stopper[e] # NoMain
    /\ Write(e, "canceled")
    /\ stopper' = [stopper EXCEPT ![e] = NoMain]
    /\ UNCHANGED <<job, mainVars, workVars, cancel, abort, aborted, stops, leadVars, late, faults>>

\* stopJob(): isActive(), and the message to whoever processes the job.
AskIsActive(e) ==
    /\ cancel[e] = "asking"
    /\ IF job[e] = "active"
         THEN cancel' = [cancel EXCEPT ![e] = "off"] /\ abort' = abort \cup {e}
         ELSE cancel' = [cancel EXCEPT ![e] = "removing"] /\ UNCHANGED abort
    /\ UNCHANGED <<row, job, mainVars, workVars, stopper, aborted, stops, leadVars, late, faults>>

\* stopJob(): remove(), which fails for a job that is active by now; one that
\* has ended has told its main already.
RemoveJob(e) ==
    /\ cancel[e] = "removing"
    /\ cancel' = [cancel EXCEPT ![e] = "off"]
    /\ job' = IF job[e] = "waiting" THEN [job EXCEPT ![e] = "removed"] ELSE job
    /\ UNCHANGED <<row, mainVars, workVars, stopper, abort, aborted, stops, leadVars, late, faults>>

\* 'abort-job' cancels the run of a job in runningJobs; before, it is ignored.
AbortJob(e) ==
    /\ e \in abort
    /\ abort' = abort \ {e}
    /\ LET runs == {w \in Workers : work[w][e] = "running"} IN
       /\ work' = [w \in Workers |-> IF w \in runs THEN [work[w] EXCEPT ![e] = "saving"] ELSE work[w]]
       /\ out' = [w \in Workers |-> IF w \in runs THEN [out[w] EXCEPT ![e] = "canceled"] ELSE out[w]]
       /\ aborted' = aborted \cup {x \in {e} : runs # {}}
    /\ UNCHANGED <<row, job, mainVars, starts, stopper, cancel, stops, leadVars, late, faults>>

-----------------------------------------------------------------------------
(* Recovery, leadership and the mains' crashes *)

RecoverAt(m, stage, ids) == recovery' = [recovery EXCEPT ![m] = [stage |-> stage, ids |-> ids]]

\* getInProgressExecutionIds()
FindStored(m) ==
    /\ recovery[m].stage = "timer"
    /\ \E ids \in {{e \in Executions : row[e] \in InProgress}} :
         ids # {} /\ RecoverAt(m, "stored", ids)
    /\ UNCHANGED <<row, job, mainVars, workVars, stopVars, leader, late, faults>>

\* Mutant of Queued: only active jobs are looked for
QueuedActive(e) == job[e] = "active"

\* findJobsByStatus(['active', 'waiting'])
Queued(e) == job[e] \in {"active", "waiting"}

FindJobs(m) ==
    /\ recovery[m].stage = "stored"
    /\ \E ids \in {{e \in recovery[m].ids : ~Queued(e)}} :
         recovery' = [recovery EXCEPT ![m] = IF ids = {} THEN Timer ELSE [stage |-> "marking", ids |-> ids]]
    /\ UNCHANGED <<row, job, mainVars, workVars, stopVars, leader, late, faults>>

\* Mutant of Crashable: a row that no worker ever had is not crashed
CrashableRunning(s) == s = "running"

\* CRASHABLE_EXECUTION_STATUSES
Crashable(s) == s \in InProgress

\* markAsCrashed(), and the next check is scheduled, whoever leads.
MarkAsCrashed(m) ==
    /\ recovery[m].stage = "marking"
    /\ row' = [e \in Executions |-> IF e \in recovery[m].ids /\ Crashable(row[e]) THEN "crashed" ELSE row[e]]
    /\ recovery' = [recovery EXCEPT ![m] = Timer]
    /\ UNCHANGED <<job, mainVars, workVars, stopVars, leader, late, faults>>

\* stopQueueRecovery() clears a timer; a check under way goes on.
Stopped(r) == IF r.stage = "timer" THEN Off ELSE r
Scheduled(r) == IF r.stage = "off" THEN Timer ELSE r

Handover(m) ==
    /\ Fault("handover")
    /\ m # leader
    /\ leader' = m
    /\ recovery' = [recovery EXCEPT ![leader] = Stopped(@), ![m] = Scheduled(@)]
    /\ UNCHANGED <<row, job, mainVars, workVars, stopVars, late>>

\* A main is gone with all it awaited; somebody, itself once it is back
\* included, leads and recovers.
MainCrash(m) ==
    /\ Fault("maincrash")
    /\ LET mine == {e \in Executions : home[e] = m} IN
       /\ pc' = [e \in Executions |-> IF e \in mine THEN "over" ELSE pc[e]]
       /\ entry' = [e \in Executions |-> e \notin mine /\ entry[e]]
       /\ attached' = [e \in Executions |-> e \notin mine /\ attached[e]]
       /\ cancel' = [e \in Executions |-> IF e \in mine THEN "off" ELSE cancel[e]]
    /\ stopper' = [e \in Executions |-> IF stopper[e] = m THEN NoMain ELSE stopper[e]]
    /\ \E x \in IF m = leader THEN Mains ELSE {leader} :
         /\ leader' = x
         /\ recovery' = [[recovery EXCEPT ![m] = Off] EXCEPT ![x] = Scheduled(@)]
    /\ UNCHANGED <<row, job, home, workVars, abort, aborted, stops, late>>

-----------------------------------------------------------------------------

MainStep(e) ==
    AddJob(e) \/ Await(e) \/ JobFailed(e) \/ WriteError(e) \/ JobFinished(e) \/ Discard(e)

WorkStep(w, e) ==
    FindExecution(w, e) \/ SetRunning(w, e) \/ Start(w, e) \/ RunEnds(w, e) \/ Save(w, e) \/ EndJob(w, e)

StopStep(e) == StopDuringRun(e) \/ AskIsActive(e) \/ RemoveJob(e) \/ AbortJob(e)

RecoveryStep(m) == FindStored(m) \/ FindJobs(m) \/ MarkAsCrashed(m)

QueueNext ==
    \/ \E e \in Executions :
         \/ MainStep(e) \/ StopStep(e) \/ AddFails(e) \/ Stall(e) \/ LockLapses(e)
         \/ \E m \in Mains : Create(m, e) \/ Stop(m, e)
         \/ \E w \in Workers : Take(w, e) \/ WorkStep(w, e) \/ StartFails(w, e)
    \/ \E m \in Mains : RecoveryStep(m) \/ Handover(m) \/ MainCrash(m)
    \/ \E w \in Workers : WorkerCrash(w)

Spec == QueueInit /\ [][QueueNext]_vars

\* Awaits come back, workflows end, a free worker takes a job, Bull's stalled
\* check and the recovery's timer run.  Users and faults owe nothing.
FairSpec ==
    /\ Spec
    /\ \A e \in Executions :
         /\ WF_vars(MainStep(e)) /\ WF_vars(StopStep(e)) /\ WF_vars(Stall(e))
         /\ WF_vars(\E w \in Workers : Take(w, e))
         /\ \A w \in Workers : WF_vars(WorkStep(w, e))
    /\ \A m \in Mains : WF_vars(RecoveryStep(m))

-----------------------------------------------------------------------------
(* Properties *)

\* Whatever crashes, stalls or is retried, a workflow is started once: a stalled
\* job fails and is not taken again.
StartedOnce == \A e \in Executions : starts[e] <= 1

\* Recovery marks an execution as crashed only when it is "absent from the queue":
\* its job is over or was never added, or came after recovery had looked.
CrashedMeansAbsent ==
    [][\A e \in Executions :
         row[e] # "crashed" /\ row'[e] = "crashed" =>
             job[e] \notin {"waiting", "active"} \/ e \in late]_vars

\* A run that a stop has cancelled on its worker stays canceled, unless Bull takes
\* its job for stalled: then the main writes an error over it.
CancelledRunStaysCanceled ==
    [][\A e \in aborted :
         row[e] = "canceled" /\ row'[e] # "canceled" => job[e] = "stalled"]_vars

\* No row stays in progress: the worker ends it, the main that awaits the job
\* does when the worker is lost, and recovery when nobody does.
InProgressRowEnds ==
    \A e \in Executions : row[e] \in InProgress ~> row[e] \notin InProgress

\* A main lets go of every execution it registered, except one that failed for
\* it, say as stalled, and turned out to be a success: processError() returns
\* before it finalizes.
EntryIsReleased ==
    \A e \in Executions :
        entry[e] ~> ~entry[e] \/ pc[e] = "dismissed"
=============================================================================
