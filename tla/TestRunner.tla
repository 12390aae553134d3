----------------------------- MODULE TestRunner -----------------------------
(***************************************************************************)
(* TestRunnerService: the fan-out of an evaluation run over its cases.     *)
(* Runs share the evaluation queue of the concurrency gate; a per-run      *)
(* pLimit bounds the cases in flight; a run is canceled by its abort       *)
(* signal, by a database flag polled per case, or by a foreign main that   *)
(* writes the row.  A caller of the gate is here one case.                 *)
(***************************************************************************)
EXTENDS ConcurrencyControl

CONSTANTS
    Runs,         \* test runs
    RunOf,        \* [Callers -> Runs]
    Concurrency,  \* effectiveConcurrency of every run
    MultiMain,    \* instanceSettings.isMultiMain
    MaxCancels,   \* cancel requests per run in this model
    Faults        \* may the database fail a case

ASSUME TestRunnerAssumption ==
    /\ RunOf \in [Callers -> Runs]
    /\ \A c \in Callers : ModeOf[c] = "evaluation"
    /\ Concurrency \in Nat \ {0} /\ MaxCancels \in Nat
    /\ MultiMain \in BOOLEAN /\ Faults \in BOOLEAN

VARIABLES
    runStatus,  \* TestRun.status
    runStage,   \* where executeTestRun() is
    aborted,    \* abortSignal.aborted
    control,    \* abortControllers.has(run)
    flag,       \* TestRun.cancelRequested
    message,    \* a cancel-test-run broadcast is on its way
    cancels,    \* cancel requests so far
    caseRow,    \* TestCaseExecution.status
    stage,      \* where the callback of a case is
    listening   \* the case's abort listener will fire

runVars == <<runStatus, runStage, aborted, control, flag, message, cancels>>
caseVars == <<caseRow, stage, listening>>
vars == <<gateVars, runVars, caseVars>>

Cases(u) == {c \in Callers : RunOf[c] = u}
InFlight == {"claiming", "claimed", "acquiring", "running"}
Pending == {"new", "running"}  \* rows markAllPendingAsCancelled() sweeps

TestRunnerInit ==
    /\ GateInit
    /\ runStatus = [u \in Runs |-> "new"]
    /\ runStage = [u \in Runs |-> "off"]
    /\ aborted = [u \in Runs |-> FALSE]
    /\ control = [u \in Runs |-> FALSE]
    /\ flag = [u \in Runs |-> FALSE]
    /\ message = [u \in Runs |-> FALSE]
    /\ cancels = [u \in Runs |-> 0]
    /\ caseRow = [c \in Callers |-> "none"]
    /\ stage = [c \in Callers |-> "off"]
    /\ listening = [c \in Callers |-> FALSE]

-----------------------------------------------------------------------------
(* executeTestRun() *)

\* Mutant of Swept: only the cases that have not begun are swept.
SweptNew(u) ==
    [c \in Callers |-> IF RunOf[c] = u /\ caseRow[c] = "new" THEN "cancelled" ELSE caseRow[c]]

\* markAllPendingAsCancelled()
Swept(u) ==
    [c \in Callers |-> IF RunOf[c] = u /\ caseRow[c] \in Pending THEN "cancelled"
                       ELSE caseRow[c]]

\* The row's last write, and the finally of executeTestRun().
Close(u, s) ==
    /\ runStatus' = [runStatus EXCEPT ![u] = s]
    /\ runStage' = [runStage EXCEPT ![u] = "ended"]
    /\ control' = [control EXCEPT ![u] = FALSE]
    /\ flag' = [flag EXCEPT ![u] = FALSE]

\* The abort controller is registered before the first await.
StartRun(u) ==
    /\ runStage[u] = "off" /\ runStatus[u] = "new"
    /\ runStage' = [runStage EXCEPT ![u] = "marking"]
    /\ control' = [control EXCEPT ![u] = TRUE]
    /\ UNCHANGED <<gateVars, runStatus, aborted, flag, message, cancels, caseVars>>

MarkAsRunning(u) ==
    /\ runStage[u] = "marking"
    /\ runStatus' = [runStatus EXCEPT ![u] = "running"]
    /\ runStage' = [runStage EXCEPT ![u] = "fetching"]
    /\ UNCHANGED <<gateVars, aborted, control, flag, message, cancels, caseVars>>

\* The dataset is fetched and one row per case is seeded.
SeedCases(u) ==
    /\ runStage[u] = "fetching"
    /\ runStage' = [runStage EXCEPT ![u] = "fanout"]
    /\ caseRow' = [c \in Callers |-> IF RunOf[c] = u THEN "new" ELSE caseRow[c]]
    /\ stage' = [c \in Callers |-> IF RunOf[c] = u THEN "queued" ELSE stage[c]]
    /\ UNCHANGED <<gateVars, runStatus, aborted, control, flag, message, cancels, listening>>

\* The workflow is not ready for evaluation, its dataset cannot be fetched, or
\* the execution that fetches it is stopped.
FetchFails(u) ==
    /\ runStage[u] = "fetching"
    /\ \E s \in {"error", "cancelled"} : Close(u, s)
    /\ UNCHANGED <<gateVars, aborted, message, cancels, caseVars>>

\* Mutant of LimitAllows: an off-by-one in the bound.
LimitOffByOne(u) == Cardinality({d \in Cases(u) : stage[d] \in InFlight}) + 1 < Concurrency

\* pLimit(effectiveConcurrency) has room.
LimitAllows(u) == Cardinality({d \in Cases(u) : stage[d] \in InFlight}) < Concurrency

\* pLimit lets the next case in.
StartCase(c) ==
    /\ stage[c] = "queued"
    /\ LimitAllows(RunOf[c])
    /\ stage' = [stage EXCEPT ![c] = IF aborted[RunOf[c]] THEN "finished" ELSE "claiming"]
    /\ UNCHANGED <<gateVars, runVars, caseRow, listening>>

\* tryMarkCaseAsRunning()
ClaimCase(c) ==
    /\ stage[c] = "claiming"
    /\ IF caseRow[c] = "new"
       THEN /\ caseRow' = [caseRow EXCEPT ![c] = "running"]
            /\ stage' = [stage EXCEPT ![c] = "claimed"]
       ELSE stage' = [stage EXCEPT ![c] = "finished"] /\ UNCHANGED caseRow
    /\ UNCHANGED <<gateVars, runVars, listening>>

\* One case throws, because the database did: Promise.all() rejects, the run is
\* marked as failed and forgets its abort controller while the other cases go
\* on.  Once it runs, its finally still releases the slot.
CaseThrows(c) ==
    /\ Faults
    /\ \/ stage[c] = "claiming" \/ (MultiMain /\ stage[c] = "claimed")
       \/ stage[c] = "running"
    /\ IF stage[c] = "running" THEN Release(c) ELSE UNCHANGED gateVars
    /\ stage' = [stage EXCEPT ![c] = "finished"]
    /\ IF runStage[RunOf[c]] = "fanout"
       THEN Close(RunOf[c], "error")
       ELSE UNCHANGED <<runStatus, runStage, control, flag>>
    /\ UNCHANGED <<aborted, message, cancels, caseRow, listening>>

-----------------------------------------------------------------------------
(* Cancellation *)

\* remove() of one case in the middle of an abort; g is the evaluation queue.
EvictFrom(g, c) ==
    IF ~isEnabled \/ ~Contains(g.queue, c) THEN g
    ELSE LET q == RemoveAt(g.queue, CHOOSE i \in DOMAIN g.queue : g.queue[i] = c)
             pr == [g.promise EXCEPT ![c] = "evicted"]
         IN  [queue |-> IF q = <<>> THEN q ELSE Tail(q),
              capacity |-> g.capacity + 1,
              promise |-> IF q = <<>> THEN pr ELSE [pr EXCEPT ![Head(q)] = "granted"]]

\* The abort of run u wins the race that c's callback awaits.
Loses(u, c) == RunOf[c] = u /\ listening[c]

\* The listening cases of u evict themselves, in the order they queued.
Evicted(u) ==
    LET q == queue["evaluation"]
        after[i \in 0..Len(q)] ==
            IF i = 0 THEN [queue |-> q, capacity |-> capacity["evaluation"],
                           promise |-> promise]
            ELSE IF Loses(u, q[i]) THEN EvictFrom(after[i - 1], q[i]) ELSE after[i - 1]
    IN  after[Len(q)]

\* The abort signal fires: the listening cases see 'aborted' win their race and
\* evict themselves.  All of that happens before a slot handed to one of them
\* can be noticed.  except returns at once.
Abort(u, except) ==
    LET gate == Evicted(u)
    IN  /\ aborted' = [aborted EXCEPT ![u] = TRUE]
        /\ queue' = [queue EXCEPT !["evaluation"] = gate.queue]
        /\ capacity' = [capacity EXCEPT !["evaluation"] = gate.capacity]
        /\ promise' = gate.promise
        /\ stage' = [c \in Callers |->
                       IF \/ Loses(u, c) /\ Contains(queue["evaluation"], c)
                          \/ c \in except
                       THEN "finished" ELSE stage[c]]
        /\ listening' = [c \in Callers |-> listening[c] /\ RunOf[c] # u]
        /\ UNCHANGED <<isEnabled, evalQueueResolved, limits, disabled>>

\* Mutant of Cancellable: the status is not looked at.
CancelAny(u) == u \in Runs

\* canBeCancelled(), and the status filter of the fallback update.
Cancellable(u) == runStatus[u] \in Pending

\* requestCancellation(), then cancelTestRunLocally().  Without a controller
\* the row is canceled directly, if the run is still active, with its cases.
CancelTestRun(u) ==
    /\ cancels[u] < MaxCancels /\ Cancellable(u)
    /\ cancels' = [cancels EXCEPT ![u] = @ + 1]
    /\ flag' = [flag EXCEPT ![u] = TRUE]
    /\ IF control[u]
       THEN /\ Abort(u, {})
            /\ control' = [control EXCEPT ![u] = FALSE]
            /\ UNCHANGED <<runStatus, caseRow>>
       ELSE /\ runStatus' = [runStatus EXCEPT ![u] = "cancelled"]
            /\ caseRow' = Swept(u)
            /\ UNCHANGED <<gateVars, aborted, control, stage, listening>>
    /\ UNCHANGED <<runStage, message>>

\* The same on a main that does not run u: flag, broadcast, fallback.
CancelOnForeignMain(u) ==
    /\ MultiMain /\ cancels[u] < MaxCancels /\ Cancellable(u)
    /\ cancels' = [cancels EXCEPT ![u] = @ + 1]
    /\ flag' = [flag EXCEPT ![u] = TRUE]
    /\ message' = [message EXCEPT ![u] = TRUE]
    /\ runStatus' = [runStatus EXCEPT ![u] = "cancelled"]
    /\ caseRow' = Swept(u)
    /\ UNCHANGED <<gateVars, runStage, aborted, control, stage, listening>>

\* handleCancelTestRunCommand(); a broadcast may also never arrive.
DeliverCancel(u) ==
    /\ message[u]
    /\ message' = [message EXCEPT ![u] = FALSE]
    /\ IF control[u] THEN Abort(u, {}) /\ control' = [control EXCEPT ![u] = FALSE]
       ELSE UNCHANGED <<gateVars, aborted, control, stage, listening>>
    /\ UNCHANGED <<runStatus, runStage, flag, cancels, caseRow>>

\* isCancellationRequested(), polled by a claimed case.
PollCancellation(c) ==
    /\ MultiMain /\ stage[c] = "claimed" /\ flag[RunOf[c]]
    /\ Abort(RunOf[c], {c})
    /\ UNCHANGED <<runStatus, runStage, control, flag, message, cancels, caseRow>>

\* cancelIfNew(): a user cancels one case that has not begun.
CancelCase(c) ==
    /\ caseRow[c] = "new"
    /\ caseRow' = [caseRow EXCEPT ![c] = "cancelled"]
    /\ UNCHANGED <<gateVars, runVars, stage, listening>>

-----------------------------------------------------------------------------
(* The gate *)

\* A listener added to a signal that has already fired never fires.
Acquire(c) ==
    /\ stage[c] = "claimed" /\ ~(MultiMain /\ flag[RunOf[c]])
    /\ Throttle(c)
    /\ stage' = [stage EXCEPT ![c] = "acquiring"]
    /\ listening' = [listening EXCEPT ![c] = ~aborted[RunOf[c]]]
    /\ UNCHANGED <<runVars, caseRow>>

Proceed(c) ==
    /\ stage[c] = "acquiring" /\ promise[c] \in {"granted", "free"}
    /\ listening' = [listening EXCEPT ![c] = FALSE]
    /\ IF aborted[RunOf[c]]
       THEN Release(c) /\ stage' = [stage EXCEPT ![c] = "finished"]
       ELSE stage' = [stage EXCEPT ![c] = "running"] /\ UNCHANGED gateVars
    /\ UNCHANGED <<runVars, caseRow>>

\* Mutant of FinishCase: the slot is not released.
FinishWithoutRelease(c) ==
    /\ stage[c] = "running"
    /\ caseRow' = [caseRow EXCEPT ![c] = "success"]
    /\ stage' = [stage EXCEPT ![c] = "finished"]
    /\ UNCHANGED <<gateVars, runVars, listening>>

\* runTestCase() ends; the row is written, unless the abort was seen at entry,
\* and the slot is released in the finally.
FinishCase(c) ==
    /\ stage[c] = "running"
    /\ \/ \E s \in {"success", "error"} : caseRow' = [caseRow EXCEPT ![c] = s]
       \/ aborted[RunOf[c]] /\ UNCHANGED caseRow
    /\ Release(c)
    /\ stage' = [stage EXCEPT ![c] = "finished"]
    /\ UNCHANGED <<runVars, listening>>

\* All callbacks returned: markAsCancelled() and the sweep, or markAsCompleted().
EndRun(u) ==
    /\ runStage[u] = "fanout" /\ \A c \in Cases(u) : stage[c] = "finished"
    /\ IF aborted[u] THEN Close(u, "cancelled") /\ caseRow' = Swept(u)
       ELSE Close(u, "completed") /\ UNCHANGED caseRow
    /\ UNCHANGED <<gateVars, aborted, message, cancels, stage, listening>>

-----------------------------------------------------------------------------
RunStep(u) == MarkAsRunning(u) \/ SeedCases(u) \/ FetchFails(u) \/ EndRun(u)
CaseStep(c) == StartCase(c) \/ ClaimCase(c) \/ CaseThrows(c) \/ PollCancellation(c)
               \/ Acquire(c) \/ Proceed(c) \/ FinishCase(c)

Next ==
    \/ \E u \in Runs : StartRun(u) \/ RunStep(u) \/ CancelTestRun(u)
                       \/ CancelOnForeignMain(u) \/ DeliverCancel(u)
    \/ \E c \in Callers : CaseStep(c) \/ CancelCase(c)

Spec == TestRunnerInit /\ [][Next]_vars

\* What is awaited comes back and evaluated workflows end; nobody has to start
\* or cancel anything, and a broadcast may be lost.
FairSpec ==
    /\ Spec
    /\ \A u \in Runs : WF_vars(RunStep(u))
    /\ \A c \in Callers : WF_vars(CaseStep(c))

-----------------------------------------------------------------------------
(* Properties *)

\* "we evict ourselves from the queue so the slot returns to circulation": a
\* case that is over holds no slot of the shared evaluation queue.
FinishedCaseHoldsNoSlot ==
    \A c \in Callers : stage[c] = "finished" => promise[c] # "granted"

\* When executeTestRun() ends without a fault, every case row has ended too:
\* no card of the run stays pending for ever.
EndedRunHasNoPendingCase ==
    \A u \in Runs : runStage[u] = "ended" /\ runStatus[u] # "error" =>
        \A c \in Cases(u) : caseRow[c] \notin Pending

\* "scope by status so the terminal state wins": once executeTestRun() is over,
\* no cancel, late broadcast or case that is still running changes the status.
EndedRunIsFinal ==
    [][\A u \in Runs : runStage[u] = "ended" => runStatus'[u] = runStatus[u]]_vars

\* A run that was started ends, whatever other runs hold and whoever cancels.
RunEnds == \A u \in Runs : runStage[u] = "marking" ~> runStage[u] = "ended"

-----------------------------------------------------------------------------
(* The inductive invariant of EndedRunHasNoPendingCase and EndedRunIsFinal *)

Terminal == {"cancelled", "error", "completed"}

EvalTypeOK ==
    /\ runStatus \in [Runs -> Pending \cup Terminal]
    /\ runStage \in [Runs -> {"off", "marking", "fetching", "fanout", "ended"}]
    /\ aborted \in [Runs -> BOOLEAN]
    /\ caseRow \in [Callers -> Pending \cup {"none", "success", "error", "cancelled"}]
    /\ stage \in [Callers -> InFlight \cup {"off", "queued", "finished"}]
    /\ listening \in [Callers -> BOOLEAN]

\* What the row and the callback of one case may be, by the stage at, the status
\* and the abort signal ab of its run: no row before the seeding; a case that
\* has not been claimed is new or canceled; one that returned without an abort
\* has written its row; nothing is under way once the run ended without a fault.
CaseOK(at, status, ab, row, st) ==
    /\ at \in {"off", "marking", "fetching"} => st = "off" /\ row = "none"
    /\ at = "fanout" => /\ st \in {"queued", "claiming"} => row \in {"new", "cancelled"}
                        /\ st = "finished" /\ ~ab => row \notin Pending
    /\ at = "ended" /\ status # "error" => st \in {"off", "finished"} /\ row \notin Pending

CasesOK ==
    \A c \in Callers : LET u == RunOf[c] IN
        CaseOK(runStage[u], runStatus[u], aborted[u], caseRow[c], stage[c])

\* Only a case that waits for its slot listens for the abort.
ListensWhileAcquiring == \A c \in Callers : listening[c] => stage[c] = "acquiring"

EndedIsTerminal == \A u \in Runs : runStage[u] = "ended" => runStatus[u] \in Terminal

EvalInv == EvalTypeOK /\ CasesOK /\ ListensWhileAcquiring /\ EndedIsTerminal

-----------------------------------------------------------------------------
(* The inductive invariant of FinishedCaseHoldsNoSlot, besides the gate's *)

\* A case asks for its slot once it has been claimed, and the callback of a
\* case that waits for one still awaits it.
AsksOnceClaimed ==
    \A c \in Callers :
        /\ stage[c] \in {"off", "queued", "claiming", "claimed"} => promise[c] = "idle"
        /\ promise[c] = "waiting" => stage[c] = "acquiring"

\* With an effective concurrency of 1 a run has one case in flight, so one
\* abort evicts at most one case.
OneInFlight ==
    \A c, d \in Callers :
        RunOf[c] = RunOf[d] /\ stage[c] \in InFlight /\ stage[d] \in InFlight => c = d

SlotInv == ~disabled /\ AsksOnceClaimed /\ OneInFlight /\ FinishedCaseHoldsNoSlot
=============================================================================
