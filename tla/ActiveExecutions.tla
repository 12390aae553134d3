-------------------------- MODULE ActiveExecutions --------------------------
(***************************************************************************)
(* Running executions in n8n's regular mode: the ActiveExecutions registry,*)
(* WorkflowRunner.run()/runMainProcess(), ExecutionService.stop(), and the *)
(* status column of the execution rows they share, on top of the           *)
(* concurrency gate.                                                       *)
(*                                                                         *)
(* A caller of the gate is here a run: one WorkflowRunner.run() call, that *)
(* creates an execution or resumes one.  A step is what happens between    *)
(* two awaits of database or node work.  Evaluation runs reserve nothing   *)
(* here (their slot belongs to the test runner), so no run has that mode.  *)
(***************************************************************************)
EXTENDS ConcurrencyControl

CONSTANTS
    Execs,        \* execution ids
    ExecOf,       \* [Callers -> Execs]: the execution a run creates or resumes
    Fresh,        \* the runs without a restartExecutionId
    NoRun,
    Ops,          \* what workflows, users and the process may do in this model
    MaxRestarts

OpNames == {"wait", "stop", "timeout", "reject", "dbfail", "discard", "shutdown", "crash"}

ASSUME RegistryAssumption ==
    /\ ExecOf \in [Callers -> Execs]
    /\ Fresh \subseteq Callers
    /\ \A r, s \in Fresh : ExecOf[r] = ExecOf[s] => r = s
    /\ NoRun \notin Callers
    /\ \A r \in Callers : ModeOf[r] # "evaluation"
    /\ Ops \subseteq OpNames
    /\ MaxRestarts \in Nat

VARIABLES
    status,     \* the status column of each execution row
    active,     \* activeExecutions: the run whose entry is registered
    objStatus,  \* IExecutingWorkflowData.status of each run's entry
    attached,   \* the run whose workflowExecution an entry holds
    pc,         \* where each run() call is
    result,     \* the status a run is about to save
    tracked,    \* how the run's end reaches finalizeExecution(), if it does
    stop,       \* the progress of a user's stop request, per execution
    phase,      \* the process: up, draining, down
    enqueued,   \* the rows runEnqueuedExecutions() found at startup
    restarts

procVars == <<phase, enqueued, restarts>>
vars == <<gateVars, status, active, objStatus, attached, pc, result, tracked, stop,
          procVars>>

Statuses == {"none", "new", "running", "waiting", "success", "error", "canceled",
             "crashed", "deleted"}
Stages == {"off", "created", "update", "register", "registered", "start", "launch",
           "run", "save", "finalize", "done", "failed", "aborted", "lost"}

\* From the update of the row to the save of the result.
Executing == {"register", "registered", "start", "launch", "run", "save"}

RegistryInit ==
    /\ GateInit
    /\ status = [e \in Execs |-> IF \E r \in Fresh : ExecOf[r] = e THEN "none" ELSE "waiting"]
    /\ active = [e \in Execs |-> NoRun]
    /\ objStatus = [r \in Callers |-> "running"]
    /\ attached = [r \in Callers |-> NoRun]
    /\ pc = [r \in Callers |-> "off"]
    /\ result = [r \in Callers |-> "running"]
    /\ tracked = [r \in Callers |-> "no"]
    /\ stop = [e \in Execs |-> "none"]
    /\ phase = "up" /\ enqueued = {} /\ restarts = 0

-----------------------------------------------------------------------------
(* Helpers *)

Goto(r, stage) == pc' = [pc EXCEPT ![r] = stage]

\* UPDATE ... WHERE id = e: a row that is gone stays gone.
Write(e, s) ==
    status' = IF status[e] \in {"none", "deleted"} THEN status ELSE [status EXCEPT ![e] = s]

\* Mutant of Settle: the entry stays registered.
SettleKeepsEntry(q) ==
    /\ IF promise[q] = "done" THEN UNCHANGED gateVars ELSE Release(q)
    /\ UNCHANGED <<active, attached>>

\* The .finally of run q's postExecutePromise, which settles once.
Settle(q) ==
    IF promise[q] = "done" THEN UNCHANGED <<gateVars, active, attached>>
    ELSE /\ Release(q)
         /\ IF objStatus[q] = "waiting"
            THEN attached' = [attached EXCEPT ![q] = NoRun] /\ UNCHANGED active
            ELSE active' = [active EXCEPT ![ExecOf[q]] = NoRun] /\ UNCHANGED attached

\* workflowExecution.cancel(): the engine stops and saves 'canceled' instead.
CancelWorkflow(w) ==
    IF w # NoRun /\ pc[w] \in {"run", "save", "finalize"}
    THEN Goto(w, "save") /\ result' = [result EXCEPT ![w] = "canceled"]
    ELSE UNCHANGED <<pc, result>>

\* Mutant of StopExecution: the entry is deleted and nothing settled.
StopForgets(e) ==
    /\ active' = [active EXCEPT ![e] = NoRun]
    /\ UNCHANGED <<gateVars, attached, pc, result>>

StopExecution(e) ==
    IF active[e] = NoRun THEN UNCHANGED <<gateVars, active, attached, pc, result>>
    ELSE \E q \in {active[e]} :
         IF objStatus[q] = "waiting"
         THEN /\ active' = [active EXCEPT ![e] = NoRun]
              /\ UNCHANGED <<gateVars, attached, pc, result>>
         ELSE CancelWorkflow(attached[q]) /\ Settle(q)

-----------------------------------------------------------------------------
(* ActiveExecutions.add() *)

\* A new execution is persisted with status 'new'.
Create(r) ==
    /\ phase = "up" /\ r \in Fresh /\ pc[r] = "off"
    /\ status' = [status EXCEPT ![ExecOf[r]] = "new"]
    /\ Goto(r, "created")
    /\ UNCHANGED <<gateVars, active, objStatus, attached, result, tracked,
                   stop, procVars>>

\* reserve().  A resume starts from a row that was seen waiting, or that
\* startup found enqueued.
Reserve(r) ==
    /\ phase # "down"
    /\ IF r \in Fresh THEN pc[r] = "created"
       ELSE /\ pc[r] = "off" /\ phase = "up"
            /\ status[ExecOf[r]] = "waiting" \/ ExecOf[r] \in enqueued
    /\ Throttle(r)
    /\ Goto(r, "update")
    /\ UNCHANGED <<status, active, objStatus, attached, result, tracked, stop,
                   procVars>>

Reserved(r) == pc[r] = "update" /\ promise[r] \in {"granted", "free"} /\ phase # "down"

\* Mutant of Resumable: a running row may be taken over.
ResumeRunning(e) == status[e] \in {"waiting", "running"}

\* requireStatus: a resume only takes a row that still waits.
Resumable(e) == status[e] = "waiting"

\* setRunning() of a new row, or the conditional update of a resumed one.
UpdateRow(r) ==
    /\ Reserved(r)
    /\ r \in Fresh \/ Resumable(ExecOf[r])
    /\ Write(ExecOf[r], "running")
    /\ Goto(r, "register")
    /\ UNCHANGED <<gateVars, active, objStatus, attached, result, tracked,
                   stop, procVars>>

\* ExecutionAlreadyResumingError, or the update throws: the slot goes back.
UpdateRefused(r) ==
    /\ Reserved(r)
    /\ (r \notin Fresh /\ ~Resumable(ExecOf[r])) \/ "dbfail" \in Ops
    /\ Release(r)
    /\ Goto(r, "failed")
    /\ UNCHANGED <<status, active, objStatus, attached, result, tracked, stop,
                   procVars>>

\* The entry replaces that of a waiting run of the same execution.
Register(r) ==
    /\ pc[r] = "register" /\ phase # "down"
    /\ active' = [active EXCEPT ![ExecOf[r]] = r]
    /\ objStatus' = [objStatus EXCEPT ![r] = "running"]
    /\ attached' = [attached EXCEPT ![r] = NoRun]
    /\ Goto(r, "registered")
    /\ UNCHANGED <<gateVars, status, result, tracked, stop, procVars>>

-----------------------------------------------------------------------------
(* WorkflowRunner.run() and runMainProcess() *)

\* generateFailedExecutionFromError()
FailedRunStatus == "error"

\* establishExecutionContext() or the credentials check failed: failExecution()
\* saves an error and finalizes.
FailExecution(r) ==
    /\ "reject" \in Ops /\ pc[r] = "registered" /\ phase # "down"
    /\ result' = [result EXCEPT ![r] = FailedRunStatus]
    /\ tracked' = [tracked EXCEPT ![r] = "rejected"]
    /\ Goto(r, "save")
    /\ UNCHANGED <<gateVars, status, active, objStatus, attached, stop, procVars>>

\* attachResponsePromise() throws when the entry is gone; a run without a
\* response promise does not call it.
Preflight(r) ==
    /\ pc[r] = "registered" /\ phase # "down"
    /\ \/ Goto(r, "start")
       \/ active[ExecOf[r]] = NoRun /\ Goto(r, "aborted")
    /\ UNCHANGED <<gateVars, status, active, objStatus, attached, result,
                   tracked, stop, procVars>>

\* The second setRunning(), whatever the row says.
StartMain(r) ==
    /\ pc[r] = "start" /\ phase # "down"
    /\ Write(ExecOf[r], "running")
    /\ Goto(r, "launch")
    /\ UNCHANGED <<gateVars, active, objStatus, attached, result, tracked,
                   stop, procVars>>

\* The engine starts; attachWorkflowExecution() throws when the entry is gone,
\* and the engine then runs on with nobody to finalize it.
Launch(r) ==
    /\ pc[r] = "launch" /\ phase # "down"
    /\ LET q == active[ExecOf[r]] IN
       /\ attached' = IF q = NoRun THEN attached ELSE [attached EXCEPT ![q] = r]
       /\ tracked' = [tracked EXCEPT ![r] = IF q = NoRun THEN "no" ELSE "launched"]
    /\ Goto(r, "run")
    /\ UNCHANGED <<gateVars, status, active, objStatus, result, stop, procVars>>

Finish(r) ==
    /\ pc[r] = "run" /\ phase # "down"
    /\ \E s \in {"success", "error"} : result' = [result EXCEPT ![r] = s]
    /\ Goto(r, "save")
    /\ UNCHANGED <<gateVars, status, active, objStatus, attached, tracked,
                   stop, procVars>>

\* putExecutionToWait(): setStatus() throws when the entry is gone, which
\* fails the node.
PutToWait(r) ==
    /\ "wait" \in Ops /\ pc[r] = "run" /\ phase # "down"
    /\ LET q == active[ExecOf[r]] IN
       /\ objStatus' = IF q = NoRun THEN objStatus ELSE [objStatus EXCEPT ![q] = "waiting"]
       /\ result' = [result EXCEPT ![r] = IF q = NoRun THEN "error" ELSE "waiting"]
    /\ Goto(r, "save")
    /\ UNCHANGED <<gateVars, status, active, attached, tracked, stop, procVars>>

\* Mutant of Saveable: the condition is dropped.
SaveAlways(e) == status[e] \in Statuses

\* requireNotCanceled: the condition of the update that saves a result.
Saveable(e) == status[e] # "canceled"

\* The workflowExecuteAfter hook: update unless canceled, or delete what the
\* workflow's settings say not to keep.
Save(r) ==
    /\ pc[r] = "save" /\ phase # "down"
    /\ LET e == ExecOf[r] IN
       \/ IF Saveable(e) THEN Write(e, result[r]) ELSE UNCHANGED status
       \/ "discard" \in Ops /\ result[r] # "waiting" /\ Write(e, "deleted")
    /\ Goto(r, IF tracked[r] = "no" THEN "done" ELSE "finalize")
    /\ UNCHANGED <<gateVars, active, objStatus, attached, result, tracked,
                   stop, procVars>>

\* finalizeExecution() resolves the promise of the entry it finds.
Finalize(r) ==
    /\ pc[r] = "finalize" /\ phase # "down"
    /\ IF active[ExecOf[r]] = NoRun THEN UNCHANGED <<gateVars, active, attached>>
       ELSE \E q \in {active[ExecOf[r]]} : Settle(q)
    /\ Goto(r, "done")
    /\ UNCHANGED <<status, objStatus, result, tracked, stop, procVars>>

\* The executionTimeout timer, set at Launch and cleared when the engine ends.
Timeout(r) ==
    /\ "timeout" \in Ops /\ tracked[r] = "launched" /\ phase # "down"
    /\ pc[r] \in {"run", "save", "finalize"}
    /\ tracked' = [tracked EXCEPT ![r] = "expired"]
    /\ StopExecution(ExecOf[r])
    /\ UNCHANGED <<status, objStatus, stop, procVars>>

-----------------------------------------------------------------------------
(* ExecutionService.stop() in regular mode *)

StopRead(e) ==
    /\ "stop" \in Ops /\ phase # "down" /\ stop[e] = "none"
    /\ status[e] \in {"new", "waiting", "running"}
    /\ stop' = [stop EXCEPT ![e] = "read"]
    /\ UNCHANGED <<gateVars, status, active, objStatus, attached, pc, result,
                   tracked, procVars>>

\* The run of e that the gate would splice out: the first in its queue.
QueuedRuns(e) == {r \in Callers : ExecOf[r] = e /\ promise[r] = "waiting"}
FirstQueued(r) ==
    \A s \in QueuedRuns(ExecOf[r]) \ {r} :
        LET q == queue[QueueOf(r)] IN
        \E i, j \in DOMAIN q : i < j /\ q[i] = r /\ q[j] = s

StopInRegularMode(e) ==
    /\ stop[e] = "read" /\ phase # "down"
    /\ \/ /\ isEnabled
          /\ \E r \in QueuedRuns(e) : FirstQueued(r) /\ Evict(r)
          /\ UNCHANGED <<active, attached, pc, result>>
       \/ /\ ~isEnabled \/ QueuedRuns(e) = {}
          /\ StopExecution(e)
    /\ stop' = [stop EXCEPT ![e] = "write"]
    /\ UNCHANGED <<status, objStatus, tracked, procVars>>

\* stopBeforeRun() or stopDuringRun().
StopWrite(e) ==
    /\ stop[e] = "write" /\ phase # "down"
    /\ Write(e, "canceled")
    /\ stop' = [stop EXCEPT ![e] = "done"]
    /\ UNCHANGED <<gateVars, active, objStatus, attached, pc, result, tracked,
                   procVars>>

-----------------------------------------------------------------------------
(* The process *)

\* shutdown() of n8n start: cancelAll is false, so removeAll() gets no ids
\* and, the gate being disabled, returns at once.
Shutdown ==
    /\ "shutdown" \in Ops /\ phase = "up"
    /\ Disable
    /\ active' = [e \in Execs |->
                    IF active[e] # NoRun /\ objStatus[active[e]] \in {"waiting", "new"}
                    THEN NoRun ELSE active[e]]
    /\ phase' = "draining"
    /\ UNCHANGED <<status, objStatus, attached, pc, result, tracked, stop,
                   enqueued, restarts>>

\* The polling loop sees no active execution.
ShutdownDone ==
    /\ phase = "draining" /\ \A e \in Execs : active[e] = NoRun
    /\ phase' = "down"
    /\ UNCHANGED <<gateVars, status, active, objStatus, attached, pc, result,
                   tracked, stop, enqueued, restarts>>

\* A new ConcurrencyControlService.
GateReset ==
    /\ limits' = [production |-> NormaliseLimit(ProductionLimit),
                  evaluation |-> NormaliseLimit(EvaluationLimit)]
    /\ evalQueueResolved' = (EvaluationLimit > 0)
    /\ isEnabled' = (ProductionLimit > 0 \/ EvaluationLimit > 0)
    /\ capacity' = [t \in QueueTypes |-> BaseCapacity(t)]
    /\ queue' = [t \in QueueTypes |-> <<>>]
    /\ promise' = [r \in Callers |-> "idle"]
    /\ disabled' = FALSE

\* Mutant of Recovered: recovery is skipped.
NotRecovered(s) == s

\* recoverExecutionFromLogs() in its default, simple mode: markAsCrashed().
Recovered(s) == IF s = "running" THEN "crashed" ELSE s

\* findAllEnqueuedExecutions(), which runEnqueuedExecutions() runs at startup.
EnqueuedExecutions == {e \in Execs : status[e] = "new"}

\* A new process: memory is gone, rows left running are marked crashed, and
\* the rows still 'new' are to be run.
Restart ==
    /\ restarts < MaxRestarts
    /\ "crash" \in Ops \/ phase = "down"
    /\ GateReset
    /\ status' = [e \in Execs |-> Recovered(status[e])]
    /\ active' = [e \in Execs |-> NoRun]
    /\ pc' = [r \in Callers |-> IF pc[r] \in {"off", "done", "failed", "aborted"}
                                THEN pc[r] ELSE "lost"]
    /\ stop' = [e \in Execs |-> IF stop[e] = "none" THEN "none" ELSE "done"]
    /\ phase' = "up"
    /\ enqueued' = EnqueuedExecutions
    /\ restarts' = restarts + 1
    /\ UNCHANGED <<objStatus, attached, result, tracked>>

-----------------------------------------------------------------------------
RunStep(r) ==
    \/ Reserve(r) \/ UpdateRow(r) \/ UpdateRefused(r) \/ Register(r)
    \/ FailExecution(r) \/ Preflight(r) \/ StartMain(r) \/ Launch(r)
    \/ Finish(r) \/ PutToWait(r) \/ Save(r) \/ Finalize(r)

Next ==
    \/ \E r \in Callers : Create(r) \/ RunStep(r) \/ Timeout(r)
    \/ \E e \in Execs : StopRead(e) \/ StopInRegularMode(e) \/ StopWrite(e)
    \/ Shutdown \/ ShutdownDone \/ Restart

Spec == RegistryInit /\ [][Next]_vars

\* A started run and a started stop go on: their awaits come back, and nodes
\* end.  Nothing makes an execution start, a user stop it or n8n shut down.
Fairness ==
    /\ \A r \in Callers : WF_vars(pc[r] # "off" /\ RunStep(r))
    /\ \A e \in Execs : WF_vars(StopInRegularMode(e)) /\ WF_vars(StopWrite(e))
    /\ WF_vars(ShutdownDone)

FairSpec == Spec /\ Fairness

-----------------------------------------------------------------------------
(* Properties *)

\* However many timers and webhooks resume it, an execution is run by one run
\* at a time: add() only takes a row that still waits.
ExclusiveExecution ==
    \A r, s \in Callers :
        pc[r] \in Executing /\ pc[s] \in Executing /\ ExecOf[r] = ExecOf[s] => r = s

\* A row that says 'running' is being run by this process, or a stop is about
\* to cancel it: stops, refusals, crashes and restarts leave no row behind.
RunningRowIsOwned ==
    \A e \in Execs : status[e] = "running" =>
        \/ \E r \in Callers : ExecOf[r] = e /\ pc[r] \in Executing
        \/ stop[e] = "write"
        \/ phase = "down"

\* "A completed run must never overwrite a status the user already canceled":
\* the code keeps it once every run of the execution is past the setRunning()
\* calls of add() and runMainProcess(), which ask nothing of the row.
CanceledIsFinalOnceLaunched ==
    [][\A e \in Execs :
         (/\ status[e] = "canceled"
          /\ \A r \in Callers : ExecOf[r] = e =>
               pc[r] \notin {"created", "update", "register", "registered", "start"})
         => status'[e] \in {"canceled", "deleted"}]_vars

\* A throttled run gets its slot, unless it is stopped, while n8n is up.
ThrottledRunProceeds ==
    \A r \in Callers : promise[r] = "waiting" ~> (promise[r] # "waiting" \/ phase # "up")

\* Every slot that is taken comes back.
SlotComesBack ==
    \A r \in Callers : promise[r] = "granted" ~> (promise[r] # "granted" \/ phase = "down")

\* "Remove waiting and new executions to not block shutdown": a shutdown ends
\* once the executions in progress have.
ShutdownCompletes == phase = "draining" ~> phase = "down"

-----------------------------------------------------------------------------
(* The inductive invariant *)

\* The columns and the registry's fields keep their types, and an entry and
\* what is attached to it belong to the execution it is registered for.
RegistryTypeOK ==
    /\ status \in [Execs -> Statuses]
    /\ active \in [Execs -> Callers \cup {NoRun}]
    /\ attached \in [Callers -> Callers \cup {NoRun}]
    /\ objStatus \in [Callers -> {"running", "waiting"}]
    /\ pc \in [Callers -> Stages]
    /\ result \in [Callers -> Statuses]
    /\ \A e \in Execs : active[e] # NoRun => ExecOf[active[e]] = e
    /\ \A q \in Callers : attached[q] # NoRun => ExecOf[attached[q]] = ExecOf[q]

\* A stop finds run w through the registered entry, and would cancel it.
Cancelable(w) ==
    LET q == active[ExecOf[w]] IN
    q # NoRun /\ attached[q] = w /\ objStatus[q] # "waiting"

\* Run w executes, or a stop may send it back from finalizing to saving.
InUse(w) == pc[w] \in Executing \/ (pc[w] = "finalize" /\ Cancelable(w))

OneInUse ==
    \A v, w \in Callers : InUse(v) /\ InUse(w) /\ ExecOf[v] = ExecOf[w] => v = w

\* The row of a run in use does not wait, so no resume takes it.
InUseNotWaiting == \A w \in Callers : InUse(w) => status[ExecOf[w]] # "waiting"

\* A run about to save 'waiting' is out of reach of stops.
WaitIsFinal ==
    \A w \in Callers : pc[w] = "save" /\ result[w] = "waiting" => ~Cancelable(w)

\* Until the run that creates an execution has updated the row, nobody resumes.
CreatorIsFirst ==
    \A r \in Fresh :
        /\ pc[r] = "off" => status[ExecOf[r]] = "none"
        /\ pc[r] \in {"created", "update"} => status[ExecOf[r]] \in {"new", "canceled"}
        /\ pc[r] \in {"off", "created", "update"} =>
             \A w \in Callers : ExecOf[w] = ExecOf[r] => ~InUse(w)

\* The strengthening of ExclusiveExecution that every step preserves.
RegistryInv ==
    /\ RegistryTypeOK /\ OneInUse /\ InUseNotWaiting /\ WaitIsFinal /\ CreatorIsFirst

\* A registered run has its entry, unless a stop has taken it.
EntryUntilStopped ==
    \A r \in Callers : pc[r] = "registered" =>
        /\ objStatus[r] = "running"
        /\ \/ active[ExecOf[r]] = r
           \/ stop[ExecOf[r]] = "write"
           \/ status[ExecOf[r]] # "running"

\* What a run saves is not 'running'.
SavesAnEnd == \A r \in Callers : pc[r] = "save" => result[r] # "running"

\* The strengthening of RunningRowIsOwned, next to RegistryInv, where no run
\* resumes another's row.
Owned ==
    /\ EntryUntilStopped /\ SavesAnEnd /\ RunningRowIsOwned
    /\ stop \in [Execs -> {"none", "read", "write", "done"}]
=============================================================================
