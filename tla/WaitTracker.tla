---------------------------- MODULE WaitTracker ----------------------------
(***************************************************************************)
(* Executions that wait: the tracker that every leader runs over the       *)
(* waiting rows, the timers it sets, the resumes that timers, webhooks and *)
(* finished sub-executions start, and the compare-and-set on the row that  *)
(* lets one of them through.                                               *)
(*                                                                         *)
(* Time is a state of each wait: "far", "soon" (the next 70 seconds, which *)
(* the query looks for), "due", or "never" for a parent that waits for its *)
(* sub-execution.  How an execution runs is not modelled: it waits or ends *)
(* by saving its row, and later its main settles the promise that goes by  *)
(* the execution's id, which a resume may have replaced between the two.   *)
(* A run survives its main, as it does on a worker.                        *)
(***************************************************************************)
EXTENDS Naturals, FiniteSets

CONSTANTS
    Mains,
    Leader,        \* the main that leads at first
    Executions,
    Parent,        \* the execution that waits for a sub-execution, or NoParent
    NoParent,
    MaxWaits,      \* waits of each execution
    Stoppable,     \* executions a user may stop
    Scenarios,     \* what a behaviour starts from: the executions that run, and bounds
    Ops            \* what this model adds to timers

\* The bounds of a scenario: leader takeovers, requests to a waiting webhook, and
\* faults, which are split leaderships, stops, failed resumes and restarts.
Scenario == [executions : SUBSET Executions, takeovers : Nat, webhooks : Nat, faults : Nat]

WaitOps == {"retake", "webhook", "fail", "restart"}

ASSUME WaitAssumption ==
    /\ Leader \in Mains /\ Ops \subseteq WaitOps /\ Stoppable \subseteq Executions
    /\ NoParent \notin Executions /\ Parent \in [Executions -> Executions \cup {NoParent}]
    /\ {"timer", "webhook"} \cap Executions = {}   \* both are sources of a resume
    /\ MaxWaits \in [Executions -> Nat \ {0}]
    /\ Scenarios \subseteq Scenario

VARIABLES
    status,      \* the row's status
    wait,        \* the number of the wait the row is in, or was in last
    time,        \* of each wait
    tracking,    \* mains whose mainTimer runs: the leader, or two for a moment
    fetched,     \* what a query found that its handler has yet to see: [exec, wait]
    entry,       \* waitingExecutions: [timer, wait]
    resumes,     \* startExecution() or a webhook's resume under way
    running,     \* sub-executions whose run will come back to this main
    finalizing,  \* runs that have saved their row and are to finalizeExecution()
    attached,    \* promises that a resumeParentExecution() awaits, by id and wait
    stopping,    \* executions a stop() is about to write as canceled
    resumed,     \* history: how often each wait was resumed
    missed,      \* history: sub-executions that do not resume their parent, and why
    led,         \* history: mains that have led
    takeovers, webhooks, faults  \* that may still come

rowVars == <<status, wait, time>>
trackVars == <<tracking, fetched, entry, led, takeovers>>
runVars == <<running, finalizing, attached>>
vars == <<rowVars, trackVars, resumes, runVars, stopping, resumed, missed, webhooks, faults>>

Waits == UNION {1 .. MaxWaits[e] : e \in Executions}
Children == {e \in Executions : Parent[e] # NoParent}
NoEntry == [timer |-> "none", wait |-> 0]

\* A resume of `exec`; `wait` is the wait its timer was set for.
Resume(exec, source, n) == [exec |-> exec, source |-> source, wait |-> n]

\* The first wait of a parent is for its sub-execution, every other for a time.
IsParent(e) == \E c \in Executions : Parent[c] = e

\* The executions of a scenario run on some main, before they wait for the first
\* time; of the others there is no row.  A main has started to track.
StartOf(s) ==
    /\ status = [e \in Executions |-> IF e \in s.executions THEN "running" ELSE "none"]
    /\ \E first \in Mains :
         running = [m \in Mains |-> IF m = first THEN Children \cap s.executions ELSE {}]
    /\ takeovers = s.takeovers /\ webhooks = s.webhooks /\ faults = s.faults

WaitInit ==
    /\ \E s \in Scenarios : StartOf(s)
    /\ wait = [e \in Executions |-> 0]
    /\ time = [e \in Executions |-> [n \in Waits |-> IF n = 1 /\ IsParent(e) THEN "never" ELSE "far"]]
    /\ tracking = {Leader} /\ led = {Leader}
    /\ fetched = [m \in Mains |-> {}]
    /\ entry = [m \in Mains |-> [e \in Executions |-> NoEntry]]
    /\ resumes = [m \in Mains |-> {}]
    /\ finalizing = [m \in Mains |-> {}]
    /\ attached = [m \in Mains |-> {}]
    /\ stopping = {} /\ missed = {}
    /\ resumed = [e \in Executions |-> [n \in Waits |-> 0]]

\* Time passes, for a wait that is over too while a timer counts it.
Tick(e, n) ==
    /\ n = wait[e] \/ \E m \in Mains : entry[m][e] = [timer |-> "set", wait |-> n]
    /\ status[e] = "waiting" \/ n < wait[e]
    /\ \/ time[e][n] = "far" /\ time' = [time EXCEPT ![e][n] = "soon"]
       \/ time[e][n] = "soon" /\ time' = [time EXCEPT ![e][n] = "due"]
    /\ UNCHANGED <<webhooks, status, wait, trackVars, resumes, runVars, stopping, resumed, missed, faults>>

-----------------------------------------------------------------------------
(* Tracking *)

Fault == faults > 0 /\ faults' = faults - 1

\* 'leader-takeover'; that another main still tracks is a fault.
StartTracking(m) ==
    /\ m \notin tracking /\ takeovers > 0
    /\ IF tracking = {} THEN UNCHANGED faults ELSE Fault
    /\ "retake" \notin Ops => m \notin led
    /\ tracking' = tracking \cup {m}
    /\ led' = led \cup {m}
    /\ takeovers' = takeovers - 1
    /\ UNCHANGED <<webhooks, rowVars, fetched, entry, resumes, runVars, stopping, resumed, missed>>

\* The query of getWaitingExecutions()
Query(m) ==
    /\ m \in tracking /\ fetched[m] = {}
    /\ fetched' = [fetched EXCEPT ![m] =
                     {[exec |-> e, wait |-> wait[e]] :
                        e \in {x \in Executions : status[x] = "waiting" /\ time[x][wait[x]] \in {"soon", "due"}}}]
    /\ \E x \in fetched'[m] : entry[m][x.exec] = NoEntry
    /\ UNCHANGED <<webhooks, rowVars, tracking, entry, led, takeovers, resumes, runVars, stopping, resumed,
                   missed, faults>>

\* Its handler sets a timer for every execution that has no entry, whether
\* or not this main still leads.
SetTimers(m) ==
    /\ fetched[m] # {}
    /\ entry' = [entry EXCEPT ![m] =
                   [e \in Executions |->
                      IF @[e] = NoEntry /\ \E x \in fetched[m] : x.exec = e
                        THEN [timer |-> "set", wait |-> (CHOOSE x \in fetched[m] : x.exec = e).wait]
                        ELSE @[e]]]
    /\ fetched' = [fetched EXCEPT ![m] = {}]
    /\ UNCHANGED <<webhooks, rowVars, tracking, led, takeovers, resumes, runVars, stopping, resumed,
                   missed, faults>>

\* 'leader-stepdown': timers are cleared, entries stay.
StopTracking(m) ==
    /\ m \in tracking
    /\ tracking' = tracking \ {m}
    /\ entry' = [entry EXCEPT ![m] =
                   [e \in Executions |-> IF @[e] = NoEntry THEN NoEntry ELSE [@[e] EXCEPT !.timer = "cleared"]]]
    /\ UNCHANGED <<webhooks, rowVars, fetched, led, takeovers, resumes, runVars, stopping, resumed, missed,
                   faults>>

\* Mutant of WithoutEntry: the entry stays, with a timer that has fired
WithKeptEntry(m, e) ==
    IF entry[m][e] = NoEntry THEN entry ELSE [entry EXCEPT ![m][e].timer = "fired"]

WithoutEntry(m, e) == [entry EXCEPT ![m][e] = NoEntry]

\* Mutant of Fires: a timer that is set for a wait in the next 70 seconds fires
FiresSoon(m, e) == entry[m][e].timer = "set" /\ time[e][entry[m][e].wait] # "far"

Fires(m, e) == entry[m][e].timer = "set" /\ time[e][entry[m][e].wait] = "due"

\* A timer fires: startExecution(), which drops the entry first.
Fire(m, e) ==
    /\ Fires(m, e)
    /\ entry' = WithoutEntry(m, e)
    /\ resumes' = [resumes EXCEPT ![m] = @ \cup {Resume(e, "timer", entry[m][e].wait)}]
    /\ UNCHANGED <<webhooks, rowVars, tracking, fetched, led, takeovers, runVars, stopping, resumed, missed,
                   faults>>

-----------------------------------------------------------------------------
(* Resuming *)

\* A request to the waiting webhook, which loads the row.
Webhook(m, e) ==
    /\ "webhook" \in Ops /\ webhooks > 0
    /\ status[e] = "waiting" /\ time[e][wait[e]] # "never"
    /\ resumes' = [resumes EXCEPT ![m] = @ \cup {Resume(e, "webhook", wait[e])}]
    /\ webhooks' = webhooks - 1
    /\ UNCHANGED <<rowVars, trackVars, runVars, stopping, resumed, missed, faults>>

Because(why, children) == {[exec |-> c, why |-> why] : c \in children}
Lost(r) == {r.source} \cap Children

\* A resume fails before it reaches the row; a parent's, in all its attempts.
ResumeFails(m) ==
    /\ "fail" \in Ops /\ Fault
    /\ \E r \in resumes[m] :
         /\ resumes' = [resumes EXCEPT ![m] = @ \ {r}]
         /\ missed' = missed \cup Because("attempts", Lost(r))
    /\ UNCHANGED <<webhooks, rowVars, trackVars, runVars, stopping, resumed>>

\* Mutant of Resumable: the update does not ask for the status
ResumableAlways(e) == status[e] # "success"

\* requireStatus: 'waiting' of ActiveExecutions.add()
Resumable(e) == status[e] = "waiting"

\* What goes by the id of e on main m.
Promises(m, e) == {p \in attached[m] : p.exec = e}

\* Mutant of Attached: only timers look at the parent
AttachedByTimer(m, r) ==
    [attached EXCEPT ![m] = (@ \ Promises(m, r.exec)) \cup
        (IF r.source = "timer"
           THEN {[exec |-> c, wait |-> wait[c]] : c \in {r.exec} \cap Children} ELSE {})]

\* Whoever resumes a sub-execution awaits its end: the new entry's promise
\* takes the place of one that is not settled yet.
Attached(m, r) ==
    [attached EXCEPT ![m] = (@ \ Promises(m, r.exec)) \cup
        {[exec |-> c, wait |-> wait[c]] : c \in {r.exec} \cap Children}]

\* startExecution() from the row's read on, and a webhook's resume: one gets the
\* row, the others end quietly, whatever they read before; so does a resume of a
\* parent that has not come to wait.  A parent's data is patched first, which
\* leaves its status alone.  startExecution() deletes the entry and leaves its
\* timer running; a parent's has none to leave, as a first wait that is for a
\* sub-execution is beyond every query, so the entry goes with its timer here.
Run(m) ==
    \E r \in resumes[m] :
        /\ resumes' = [resumes EXCEPT ![m] = @ \ {r}]
        /\ entry' = IF r.source \in Children THEN WithoutEntry(m, r.exec) ELSE entry
        /\ IF Resumable(r.exec)
             THEN /\ status' = [status EXCEPT ![r.exec] = "running"]
                  /\ resumed' = [resumed EXCEPT ![r.exec][wait[r.exec]] = @ + 1]
                  /\ running' = [running EXCEPT ![m] = @ \cup ({r.exec} \cap Children)]
                  /\ attached' = Attached(m, r)
                  /\ missed' = {x \in missed : x.exec # r.exec}
             ELSE /\ UNCHANGED <<status, resumed, running, attached>>
                  /\ missed' = missed \cup (IF wait[r.exec] = 0 THEN Because("early", Lost(r)) ELSE {})
        /\ UNCHANGED <<webhooks, wait, time, tracking, fetched, led, takeovers, finalizing, stopping, faults>>

\* The run of e has saved its row: finalizeExecution() is still to come.
Saved(e, ended) ==
    /\ running' = [m \in Mains |-> running[m] \ {e}]
    /\ finalizing' = [m \in Mains |->
                        finalizing[m] \cup
                            {[exec |-> x, wait |-> wait[x], ended |-> ended] : x \in {e} \cap running[m]}]

\* A run is under way, if only for a main whose user has stopped it.
IsRunning(e) == status[e] = "running" \/ \E m \in Mains : e \in running[m]

\* requireNotCanceled of the save
WithStatus(e, s) == [status EXCEPT ![e] = IF @ = "canceled" THEN @ ELSE s]

\* executeWorkflow() has returned with the waitTill of a sub-execution: its
\* first run has come back.
ChildWaits(e) ==
    \A c \in Children : Parent[c] = e =>
        wait[c] > 0 /\ \A m \in Mains : \A x \in finalizing[m] : x.exec # c \/ x.wait # 0

\* The execution waits, for the first time or again.
WaitAgain(e) ==
    /\ IsRunning(e) /\ wait[e] < MaxWaits[e]
    /\ wait[e] = 0 => ChildWaits(e)
    /\ status' = WithStatus(e, "waiting")
    /\ wait' = [wait EXCEPT ![e] = @ + 1]
    /\ Saved(e, FALSE)
    /\ UNCHANGED <<webhooks, time, trackVars, resumes, attached, stopping, resumed, missed, faults>>

End(e) ==
    /\ IsRunning(e) /\ wait[e] > 0
    /\ status' = WithStatus(e, "success")
    /\ Saved(e, TRUE)
    /\ UNCHANGED <<webhooks, wait, time, trackVars, resumes, attached, stopping, resumed, missed, faults>>

\* finalizeExecution(), by id: it settles whatever promise is there.  Of an
\* execution that ended resumeParentExecution() goes on; of one that waits it
\* gives up, though the promise be a later run's.
Finalize(m) ==
    \E x \in finalizing[m] :
        LET settled == Promises(m, x.exec)
        IN  /\ finalizing' = [finalizing EXCEPT ![m] = @ \ {x}]
            /\ attached' = [attached EXCEPT ![m] = @ \ settled]
            /\ resumes' = [resumes EXCEPT ![m] = @ \cup
                              {Resume(Parent[p.exec], p.exec, 0) : p \in IF x.ended THEN settled ELSE {}}]
            /\ missed' = missed \cup
                  Because("settled", {p.exec : p \in {q \in settled : ~x.ended /\ q.wait # x.wait}})
            /\ UNCHANGED <<webhooks, rowVars, trackVars, running, stopping, resumed, faults>>

\* executionService.stop() of a waiting execution on this main: its timer goes,
\* and its entry, should it not be finalized yet; the row is written later.
StopExecution(m, e) ==
    /\ Fault
    /\ e \in Stoppable /\ status[e] = "waiting"
    /\ entry' = WithoutEntry(m, e)
    /\ attached' = [attached EXCEPT ![m] = @ \ Promises(m, e)]
    /\ stopping' = stopping \cup {e}
    /\ UNCHANGED <<webhooks, rowVars, tracking, fetched, led, takeovers, resumes, running, finalizing,
                   resumed, missed>>

\* stopDuringRun() writes the row whatever it says by now.
StopDuringRun(e) ==
    /\ e \in stopping
    /\ stopping' = stopping \ {e}
    /\ status' = [status EXCEPT ![e] = "canceled"]
    /\ UNCHANGED <<webhooks, wait, time, trackVars, resumes, runVars, resumed, missed, faults>>

\* The process ends, with its timers, its resumes and what they await.
Restart(m) ==
    /\ "restart" \in Ops /\ Fault
    /\ tracking' = tracking \ {m}
    /\ led' = led \ {m}
    /\ fetched' = [fetched EXCEPT ![m] = {}]
    /\ entry' = [entry EXCEPT ![m] = [e \in Executions |-> NoEntry]]
    /\ resumes' = [resumes EXCEPT ![m] = {}]
    /\ running' = [running EXCEPT ![m] = {}]
    /\ finalizing' = [finalizing EXCEPT ![m] = {}]
    /\ attached' = [attached EXCEPT ![m] = {}]
    /\ missed' = missed \cup Because("main", {p.exec : p \in attached[m]} \cup
                                            UNION {Lost(r) : r \in resumes[m]})
    /\ UNCHANGED <<webhooks, rowVars, takeovers, stopping, resumed>>

-----------------------------------------------------------------------------

WaitNext ==
    \/ \E e \in Executions : WaitAgain(e) \/ End(e) \/ StopDuringRun(e) \/ \E n \in Waits : Tick(e, n)
    \/ \E m \in Mains :
         \/ StartTracking(m) \/ Query(m) \/ SetTimers(m) \/ StopTracking(m)
         \/ ResumeFails(m) \/ Run(m) \/ Finalize(m) \/ Restart(m)
         \/ \E e \in Executions : Fire(m, e) \/ Webhook(m, e) \/ StopExecution(m, e)

Spec == WaitInit /\ [][WaitNext]_vars

\* What comes by itself: time, timers, the poll, answers, the end of a run.
SystemStep ==
    \/ \E e \in Executions : WaitAgain(e) \/ End(e) \/ StopDuringRun(e) \/ \E n \in Waits : Tick(e, n)
    \/ \E m \in Mains :
         Query(m) \/ SetTimers(m) \/ Run(m) \/ Finalize(m) \/ \E e \in Executions : Fire(m, e)

\* Something of it happens as long as something can, and a resume comes to its
\* row before its timer is set anew for ever: only that can repeat, so this is
\* fair to every step.  Users, roles and faults owe nothing.
FairSpec == Spec /\ WF_vars(SystemStep) /\ \A m \in Mains : WF_vars(Run(m))

-----------------------------------------------------------------------------
(* Properties *)

\* However many timers, webhooks and sub-executions of however many mains try,
\* one wait is resumed once.
ResumedOnce == \A e \in Executions, n \in Waits : resumed[e][n] <= 1

\* The resumes by a timer that got a row in a step, which the row did not ask for yet.
EarlyResumes ==
    {r \in UNION {resumes[m] \ resumes'[m] : m \in Mains} :
        /\ r.source = "timer" /\ status[r.exec] = "waiting" /\ status'[r.exec] = "running"
        /\ time[r.exec][wait[r.exec]] # "due"}

\* A timer resumes an execution before its time only when it was set for an
\* earlier wait of that execution: nothing clears it when a webhook, or an earlier
\* timer that the poll overtook, ends that wait.
EarlyOnlyByOldTimer ==
    [][\A r \in EarlyResumes : r.wait < wait[r.exec]]_vars

\* Executions "get started at the correct time".
StartedAtTheCorrectTime == [][EarlyResumes = {}]_vars

\* Once a main leads for good, every due execution is resumed, except where
\* that main kept the entry of a timer it cleared when it led before.
DueWaitEnds ==
    <>[](\/ tracking = {}
         \/ \A e \in Executions :
              status[e] = "waiting" /\ time[e][wait[e]] = "due" =>
                  \A m \in tracking : entry[m][e].timer = "cleared")

\* A sub-execution has ended and its parent still waits for it.
LeftWaiting(c) == status[c] = "success" /\ status[Parent[c]] = "waiting" /\ wait[Parent[c]] = 1

ParentResumesBut(reasons) ==
    <>[](\A c \in Children : LeftWaiting(c) => \E x \in missed : x.exec = c /\ x.why \in reasons)

\* No parent waits for good for a sub-execution that has ended, except when the
\* main that awaited the end was lost, when every attempt failed, when an earlier
\* run of the sub-execution settled the promise of its last one, or when the
\* sub-execution ended before its parent's row was waiting.
ParentResumes == ParentResumesBut({"main", "attempts", "settled", "early"})
=============================================================================
