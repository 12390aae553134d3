----------------------------- MODULE TaskBroker -----------------------------
(***************************************************************************)
(* The task broker of n8n's main process, its runners behind websockets,   *)
(* and the local requester: offers, accepts, settings, results, cancels,   *)
(* the three timers, disconnects and draining.                             *)
(*                                                                         *)
(* Each handler runs without yielding to another message, so it is one     *)
(* step; a websocket is a FIFO queue in each direction.  The requester     *)
(* lives in the broker's process and calls it directly: from 'task ready'  *)
(* to 'settings' is one step.  Timers may fire whenever they are set.      *)
(***************************************************************************)
EXTENDS Naturals, Sequences, FiniteSets, SequencesExt

CONSTANTS
    Requests,        \* startTask() calls
    Runners,
    TypeOf,          \* the task type of a request and of a runner
    MaxConcurrency,  \* of every runner
    OfferIds,        \* nanoid() of offers: an id is taken again once it is
    TaskIds,         \* nowhere; likewise task ids
    Nothing,
    Ops              \* the faults and user actions of this model

BrokerOps == {"expire", "acceptTimeout", "taskTimeout", "stale", "cancel", "disconnect",
              "stop", "drain"}

ASSUME BrokerAssumption ==
    /\ MaxConcurrency \in Nat \ {0}
    /\ Ops \subseteq BrokerOps
    /\ DOMAIN TypeOf = Requests \cup Runners
    /\ IsFiniteSet(OfferIds) /\ IsFiniteSet(TaskIds)
    /\ Nothing \notin TaskIds

VARIABLES
    known,             \* knownRunners
    pendingOffers,     \* pendingTaskOffers: [runner, offer], oldest first
    pendingRequests,   \* pendingTaskRequests, oldest first
    acceptInProgress,  \* requests with an acceptOffer() under way
    accepting,         \* runnerAcceptRejects whose promise is still open
    tasks,             \* tasks: [request, runner]
    isDraining,
    toRunner, toBroker,  \* the websockets
    openOffers,        \* a runner's openOffers
    runningTasks,      \* a runner's TaskState.status, per task
    canSendOffers,
    isShuttingDown,
    answer,            \* what a requester's startTask() has come to
    owner,             \* history: the request a task id was created for
    executions         \* history: how often a request's code was started

brokerVars == <<known, pendingOffers, pendingRequests, acceptInProgress, accepting, tasks,
                isDraining, owner>>
runnerVars == <<openOffers, runningTasks, canSendOffers, isShuttingDown, executions>>
vars == <<brokerVars, toRunner, toBroker, runnerVars, answer>>

Message(type, task, offer) == [type |-> type, task |-> task, offer |-> offer]

BrokerInit ==
    /\ known = {} /\ pendingOffers = <<>> /\ pendingRequests = <<>>
    /\ acceptInProgress = {} /\ isDraining = FALSE
    /\ accepting = [t \in TaskIds |-> Nothing]
    /\ tasks = [t \in TaskIds |-> Nothing]
    /\ owner = [t \in TaskIds |-> Nothing]
    /\ toRunner = [r \in Runners |-> <<>>]
    /\ toBroker = [r \in Runners |-> <<>>]
    /\ openOffers = [r \in Runners |-> {}]
    /\ runningTasks = [r \in Runners |-> [t \in TaskIds |-> "none"]]
    /\ canSendOffers = [r \in Runners |-> FALSE]
    /\ isShuttingDown = [r \in Runners |-> FALSE]
    /\ answer = [q \in Requests |-> "idle"]
    /\ executions = [q \in Requests |-> 0]

-----------------------------------------------------------------------------
(* Broker *)

\* The entries of s that are not in gone, in their order.  (A recursive function,
\* as in SettleTasks, since TLAPS knows nothing of SelectSeq and FoldLeft.)
Without(s, gone) ==
    LET kept[i \in 0..Len(s)] ==
          IF i = 0 THEN <<>>
          ELSE IF s[i] \in gone THEN kept[i - 1] ELSE Append(kept[i - 1], s[i])
    IN  kept[Len(s)]

\* Task ids in use anywhere, in messages under way too.
UsedTasks ==
    {t \in TaskIds :
        \/ accepting[t] # Nothing \/ tasks[t] # Nothing
        \/ \E r \in Runners :
             \/ runningTasks[r][t] # "none"
             \/ \E m \in Range(toRunner[r]) \cup Range(toBroker[r]) : m.task = t}

\* One turn of settleTasks()'s loop: the first offer of the request's type.
\* A task id is needed for acceptOffer(); TaskIds bounds how many there are.
MatchRequest(g, q) ==
    LET fits == {i \in DOMAIN g.offers : TypeOf[g.offers[i].runner] = TypeOf[q]}
        free == TaskIds \ (UsedTasks \cup g.used)
        i == CHOOSE j \in fits : \A k \in fits : j <= k
        t == CHOOSE u \in free : TRUE
        o == g.offers[i]
    IN  IF q \in g.busy \/ fits = {} \/ free = {} THEN g
        ELSE [offers |-> RemoveAt(g.offers, i),
              busy |-> g.busy \cup {q},
              used |-> g.used \cup {t},
              accepting |-> [g.accepting EXCEPT ![t] = [request |-> q, runner |-> o.runner]],
              out |-> [g.out EXCEPT ![o.runner] = Append(@, Message("accept", t, o.offer))]]

\* settleTasks(): expired offers go, then requests are matched in order.
MatchAll(live, requests) ==
    LET turn[i \in 0..Len(requests)] ==
          IF i = 0 THEN [offers |-> live, busy |-> acceptInProgress, used |-> {},
                         accepting |-> accepting, out |-> toRunner]
          ELSE MatchRequest(turn[i - 1], requests[i])
    IN  turn[Len(requests)]

SettleTasks(offers, requests) ==
    \E stale \in SUBSET (IF "stale" \in Ops THEN Range(offers) ELSE {}) :
    LET g == MatchAll(Without(offers, stale), requests)
    IN  /\ pendingOffers' = g.offers
        /\ pendingRequests' = requests
        /\ acceptInProgress' = g.busy
        /\ accepting' = g.accepting
        /\ owner' = [t \in TaskIds |-> IF t \in g.used THEN g.accepting[t].request ELSE owner[t]]
        /\ toRunner' = g.out

\* Mutant of Expired: the requester is not told.
ExpiredSilently(q) == answer

\* The requester of q gets 'broker:requestexpired'.
Expired(q) == [answer EXCEPT ![q] = "expired"]

\* startTask() and taskRequested()
TaskRequested(q) ==
    /\ answer[q] = "idle"
    /\ IF isDraining
       THEN /\ answer' = Expired(q)
            /\ UNCHANGED <<brokerVars, toRunner>>
       ELSE /\ answer' = [answer EXCEPT ![q] = "pending"]
            /\ SettleTasks(pendingOffers, Append(pendingRequests, q))
            /\ UNCHANGED <<known, tasks, isDraining>>
    /\ UNCHANGED <<toBroker, runnerVars>>

\* The next message of runner r, which the broker ignores once r is not known.
Received(r, type) == r \in known /\ toBroker[r] # <<>> /\ Head(toBroker[r]).type = type
Consume(r) == toBroker' = [toBroker EXCEPT ![r] = Tail(@)]

TaskOffered(r) ==
    /\ Received(r, "offer")
    /\ SettleTasks(Append(pendingOffers, [runner |-> r, offer |-> Head(toBroker[r]).offer]),
                   pendingRequests)
    /\ Consume(r)
    /\ UNCHANGED <<known, tasks, isDraining, runnerVars, answer>>

\* Mutant of RequestsWithout: the request stays pending.
RequestsKept(q) == pendingRequests

\* pendingTaskRequests with q spliced out.
RequestsWithout(q) == Without(pendingRequests, {q})

\* acceptOffer() after its first await: the task exists; unless its request is
\* gone, the requester is told and its settings are sent on.
HandleRunnerAccept(r) ==
    /\ Received(r, "accepted")
    /\ LET t == Head(toBroker[r]).task
           a == accepting[t] IN
       IF a = Nothing THEN UNCHANGED <<brokerVars, toRunner, answer>>
       ELSE /\ accepting' = [accepting EXCEPT ![t] = Nothing]
            /\ tasks' = [tasks EXCEPT ![t] = a]
            /\ IF Contains(pendingRequests, a.request)
               THEN /\ pendingRequests' = RequestsWithout(a.request)
                    /\ acceptInProgress' = acceptInProgress \ {a.request}
                    /\ answer' = [answer EXCEPT ![a.request] = "assigned"]
                    /\ toRunner' = [toRunner EXCEPT ![r] =
                                      Append(@, Message("settings", t, Nothing))]
               ELSE UNCHANGED <<pendingRequests, acceptInProgress, answer, toRunner>>
            /\ UNCHANGED <<known, pendingOffers, isDraining, owner>>
    /\ Consume(r)
    /\ UNCHANGED runnerVars

\* Mutant of AcceptFailed: a late accept is still honoured.
LateAcceptHonoured(t) ==
    acceptInProgress' = acceptInProgress \ {accepting[t].request} /\ UNCHANGED accepting

\* The accept promise of t is rejected: the request may be matched again.
AcceptFailed(t) ==
    /\ accepting' = [accepting EXCEPT ![t] = Nothing]
    /\ acceptInProgress' = acceptInProgress \ {accepting[t].request}

\* runner:taskrejected and runner:taskdeferred
HandleRunnerReject(r) ==
    /\ Received(r, "rejected")
    /\ LET t == Head(toBroker[r]).task IN
       IF accepting[t] = Nothing THEN UNCHANGED <<accepting, acceptInProgress>>
       ELSE AcceptFailed(t)
    /\ Consume(r)
    /\ UNCHANGED <<known, pendingOffers, pendingRequests, tasks, isDraining, owner, toRunner,
                   runnerVars, answer>>

\* The two-second timer of acceptOffer(); a late accept finds it settled.
AcceptTimeout(t) ==
    /\ "acceptTimeout" \in Ops /\ accepting[t] # Nothing
    /\ AcceptFailed(t)
    /\ UNCHANGED <<known, pendingOffers, pendingRequests, tasks, isDraining, owner, toRunner,
                   toBroker, runnerVars, answer>>

\* handleRequestTimeout(): whether or not an accept is in progress.
HandleRequestTimeout(q) ==
    /\ "expire" \in Ops /\ Contains(pendingRequests, q)
    /\ pendingRequests' = RequestsWithout(q)
    /\ answer' = Expired(q)
    /\ UNCHANGED <<known, pendingOffers, acceptInProgress, accepting, tasks, isDraining, owner,
                   toRunner, toBroker, runnerVars>>

\* Tell the requester of task t; a requester that has gone on ignores it.
Answer(t, s) ==
    LET q == tasks[t].request IN
    answer' = IF answer[q] = "assigned" THEN [answer EXCEPT ![q] = s] ELSE answer

\* taskDoneHandler() and taskErrorHandler()
HandleTaskEnd(r, type) ==
    /\ Received(r, type)
    /\ LET t == Head(toBroker[r]).task IN
       IF tasks[t] = Nothing THEN UNCHANGED <<tasks, answer>>
       ELSE Answer(t, type) /\ tasks' = [tasks EXCEPT ![t] = Nothing]
    /\ Consume(r)
    /\ UNCHANGED <<known, pendingOffers, pendingRequests, acceptInProgress, accepting,
                   isDraining, owner, toRunner, runnerVars>>

\* The broker's task timer, set with the settings (external mode).
HandleTaskTimeout(t) ==
    /\ "taskTimeout" \in Ops /\ tasks[t] # Nothing
    /\ answer[tasks[t].request] = "assigned"
    /\ toRunner' = [toRunner EXCEPT ![tasks[t].runner] = Append(@, Message("cancel", t, Nothing))]
    /\ Answer(t, "error")
    /\ tasks' = [tasks EXCEPT ![t] = Nothing]
    /\ UNCHANGED <<known, pendingOffers, pendingRequests, acceptInProgress, accepting,
                   isDraining, owner, toBroker, runnerVars>>

\* cancelTasks() of the requester, for a task it has been given.
CancelTask(t) ==
    /\ "cancel" \in Ops /\ tasks[t] # Nothing
    /\ answer[tasks[t].request] = "assigned"
    /\ toRunner' = [toRunner EXCEPT ![tasks[t].runner] = Append(@, Message("cancel", t, Nothing))]
    /\ Answer(t, "cancelled")
    /\ tasks' = [tasks EXCEPT ![t] = Nothing]
    /\ UNCHANGED <<known, pendingOffers, pendingRequests, acceptInProgress, accepting,
                   isDraining, owner, toBroker, runnerVars>>

\* A runner, or a new one in its place, connects; 'runner registered' makes it
\* send offers.
RegisterRunner(r) ==
    /\ r \notin known
    /\ known' = known \cup {r}
    /\ canSendOffers' = [canSendOffers EXCEPT ![r] = TRUE]
    /\ UNCHANGED <<pendingOffers, pendingRequests, acceptInProgress, accepting, tasks, isDraining,
                   owner, toRunner, toBroker, openOffers, runningTasks, isShuttingDown, answer,
                   executions>>

\* Mutant of OffersWithout: the offers of a runner outlive it.
OffersKept(r) == pendingOffers

\* pendingTaskOffers without those of r.
OffersWithout(r) == Without(pendingOffers, [runner : {r}, offer : OfferIds])

\* Mutant of TasksOf: no task of the runner is failed.
NoTasksOf(r) == {}

\* The tasks deregisterRunner() fails.
TasksOf(r) == {t \in TaskIds : tasks[t] # Nothing /\ tasks[t].runner = r}

\* The connection of r is lost: deregisterRunner() drops its offers and fails
\* its tasks; the runner process exits.
RunnerGone(r) ==
    LET mine == TasksOf(r) IN
    /\ known' = known \ {r}
    /\ pendingOffers' = OffersWithout(r)
    /\ tasks' = [t \in TaskIds |-> IF t \in mine THEN Nothing ELSE tasks[t]]
    /\ answer' = [q \in Requests |->
                    IF answer[q] = "assigned" /\ \E t \in mine : tasks[t].request = q
                    THEN "error" ELSE answer[q]]
    /\ toRunner' = [toRunner EXCEPT ![r] = <<>>]
    /\ toBroker' = [toBroker EXCEPT ![r] = <<>>]
    /\ openOffers' = [openOffers EXCEPT ![r] = {}]
    /\ runningTasks' = [runningTasks EXCEPT ![r] = [t \in TaskIds |-> "none"]]
    /\ canSendOffers' = [canSendOffers EXCEPT ![r] = FALSE]
    /\ isShuttingDown' = [isShuttingDown EXCEPT ![r] = FALSE]
    /\ UNCHANGED <<pendingRequests, acceptInProgress, accepting, isDraining, owner, executions>>

Disconnect(r) == "disconnect" \in Ops /\ r \in known /\ RunnerGone(r)

StartDraining ==
    /\ "drain" \in Ops /\ ~isDraining
    /\ isDraining' = TRUE
    /\ toRunner' = [r \in Runners |-> IF r \in known
                      THEN Append(toRunner[r], Message("drain", Nothing, Nothing))
                      ELSE toRunner[r]]
    /\ UNCHANGED <<known, pendingOffers, pendingRequests, acceptInProgress, accepting, tasks,
                   owner, toBroker, runnerVars, answer>>

-----------------------------------------------------------------------------
(* Runner *)

Busy(run) == {t \in TaskIds : run[t] # "none"}

\* Offer ids of r that are nowhere.
FreeOffers(r) ==
    {o \in OfferIds :
        /\ o \notin openOffers[r]
        /\ [runner |-> r, offer |-> o] \notin Range(pendingOffers)
        /\ \A m \in Range(toRunner[r]) \cup Range(toBroker[r]) : m.offer # o}

\* Mutant of OffersToSend: running tasks are not counted.
OffersIgnoreTasks(r, run, open) ==
    IF canSendOffers[r] /\ Cardinality(open) < MaxConcurrency
    THEN MaxConcurrency - Cardinality(open) ELSE 0

\* sendOffers(), with the tasks run and the messages out of the same handler:
\* stale offers go, then there are as many offers as there is room.
OffersToSend(r, run, open) ==
    IF ~canSendOffers[r] THEN 0
    ELSE IF MaxConcurrency <= Cardinality(open) + Cardinality(Busy(run)) THEN 0
         ELSE MaxConcurrency - (Cardinality(open) + Cardinality(Busy(run)))

SendOffers(r, run, out) ==
    \E stale \in SUBSET (IF "stale" \in Ops THEN openOffers[r] ELSE {}) :
    LET open == openOffers[r] \ stale
        free == FreeOffers(r)
        n == OffersToSend(r, run, open)
        size == IF n <= Cardinality(free) THEN n ELSE Cardinality(free)
        fresh == CHOOSE S \in SUBSET free : Cardinality(S) = size
        ids == SetToSeq(fresh)
    IN  /\ openOffers' = [openOffers EXCEPT ![r] = open \cup fresh]
        /\ toBroker' = [toBroker EXCEPT ![r] =
                          @ \o out \o [i \in DOMAIN ids |-> Message("offer", Nothing, ids[i])]]

\* The 250 ms interval.
OfferInterval(r) ==
    /\ r \in known /\ canSendOffers[r]
    /\ SendOffers(r, runningTasks[r], <<>>)
    /\ UNCHANGED <<brokerVars, toRunner, runningTasks, canSendOffers, isShuttingDown, answer,
                   executions>>

Got(r, type) == toRunner[r] # <<>> /\ Head(toRunner[r]).type = type
Take(r) == toRunner' = [toRunner EXCEPT ![r] = Tail(@)]
SetTask(r, t, s) == runningTasks' = [runningTasks EXCEPT ![r][t] = s]

\* finishTask(): the slot is free again and offered at once.
FinishTask(r, t, out) ==
    /\ SetTask(r, t, "none")
    /\ SendOffers(r, [runningTasks[r] EXCEPT ![t] = "none"], out)

\* Mutant of AcceptedStatus: a task counts as running before its settings.
RunsAtOnce == "running"

\* The status a TaskState is created with.
AcceptedStatus == "waitingForSettings"

OfferAccepted(r) ==
    /\ Got(r, "accept")
    /\ LET m == Head(toRunner[r])
           full == Cardinality(Busy(runningTasks[r])) >= MaxConcurrency
           ok == ~isShuttingDown[r] /\ ~full /\ m.offer \in openOffers[r] IN
       /\ openOffers' = IF isShuttingDown[r] THEN openOffers
                        ELSE [openOffers EXCEPT ![r] = @ \ {m.offer}]
       /\ IF ok THEN SetTask(r, m.task, AcceptedStatus) ELSE UNCHANGED runningTasks
       /\ toBroker' = [toBroker EXCEPT ![r] =
                         Append(@, Message(IF ok THEN "accepted" ELSE "rejected", m.task, Nothing))]
    /\ Take(r)
    /\ UNCHANGED <<brokerVars, canSendOffers, isShuttingDown, answer, executions>>

TaskCancelled(r) ==
    /\ Got(r, "cancel")
    /\ LET t == Head(toRunner[r]).task
           s == runningTasks[r][t] IN
       \/ s = "waitingForSettings" /\ FinishTask(r, t, <<>>)
       \/ s = "running" /\ SetTask(r, t, "aborting:cancelled") /\ UNCHANGED <<openOffers, toBroker>>
       \/ /\ s \notin {"waitingForSettings", "running"}
          /\ UNCHANGED <<runningTasks, openOffers, toBroker>>
    /\ Take(r)
    /\ UNCHANGED <<brokerVars, canSendOffers, isShuttingDown, answer, executions>>

\* receivedSettings() throws in any other state of a task that exists.
ReceivedSettings(r) ==
    /\ Got(r, "settings")
    /\ LET t == Head(toRunner[r]).task IN
       IF runningTasks[r][t] = "waitingForSettings"
       THEN /\ SetTask(r, t, "running")
            /\ executions' = [executions EXCEPT ![owner[t]] = @ + 1]
       ELSE UNCHANGED <<runningTasks, executions>>
    /\ Take(r)
    /\ UNCHANGED <<brokerVars, toBroker, openOffers, canSendOffers, isShuttingDown, answer>>

Drained(r) ==
    /\ Got(r, "drain")
    /\ canSendOffers' = [canSendOffers EXCEPT ![r] = FALSE]
    /\ Take(r)
    /\ UNCHANGED <<brokerVars, toBroker, openOffers, runningTasks, isShuttingDown, answer,
                   executions>>

\* Mutant of TaskTimedOut: a task that waits for its settings is not timed out.
TimeoutIgnoresWaiting(r, t) ==
    /\ "taskTimeout" \in Ops /\ runningTasks[r][t] = "running"
    /\ SetTask(r, t, "aborting:timeout")
    /\ UNCHANGED <<brokerVars, toRunner, toBroker, openOffers, canSendOffers, isShuttingDown,
                   answer, executions>>

\* taskTimedOut(): the runner's own timer, set when the offer was accepted.
TaskTimedOut(r, t) ==
    /\ "taskTimeout" \in Ops
    /\ \/ /\ runningTasks[r][t] = "waitingForSettings"
          /\ FinishTask(r, t, <<Message("error", t, Nothing)>>)
       \/ /\ runningTasks[r][t] = "running"
          /\ SetTask(r, t, "aborting:timeout")
          /\ UNCHANGED <<openOffers, toBroker>>
    /\ UNCHANGED <<brokerVars, toRunner, canSendOffers, isShuttingDown, answer, executions>>

\* executeTask() resolves or rejects.
TaskExecuted(r, t) ==
    /\ \/ /\ runningTasks[r][t] \in {"running", "aborting:timeout"}
          /\ \E type \in {"done", "error"} : FinishTask(r, t, <<Message(type, t, Nothing)>>)
       \/ runningTasks[r][t] = "aborting:cancelled" /\ FinishTask(r, t, <<>>)
    /\ UNCHANGED <<brokerVars, toRunner, canSendOffers, isShuttingDown, answer, executions>>

\* stop(), and the close of the connection once its tasks are done.
StopRunner(r) ==
    /\ "stop" \in Ops /\ r \in known /\ ~isShuttingDown[r]
    /\ isShuttingDown' = [isShuttingDown EXCEPT ![r] = TRUE]
    /\ canSendOffers' = [canSendOffers EXCEPT ![r] = FALSE]
    /\ openOffers' = [openOffers EXCEPT ![r] = {}]
    /\ UNCHANGED <<brokerVars, toRunner, toBroker, runningTasks, answer, executions>>

CloseRunner(r) == isShuttingDown[r] /\ Busy(runningTasks[r]) = {} /\ RunnerGone(r)

-----------------------------------------------------------------------------
BrokerReceives(r) ==
    \/ TaskOffered(r) \/ HandleRunnerAccept(r) \/ HandleRunnerReject(r)
    \/ HandleTaskEnd(r, "done") \/ HandleTaskEnd(r, "error")
RunnerReceives(r) == OfferAccepted(r) \/ TaskCancelled(r) \/ ReceivedSettings(r) \/ Drained(r)

Next ==
    \/ \E q \in Requests : TaskRequested(q) \/ HandleRequestTimeout(q)
    \/ \E t \in TaskIds : AcceptTimeout(t) \/ HandleTaskTimeout(t) \/ CancelTask(t)
    \/ \E r \in Runners :
         \/ RegisterRunner(r) \/ Disconnect(r) \/ BrokerReceives(r) \/ RunnerReceives(r)
         \/ OfferInterval(r) \/ StopRunner(r) \/ CloseRunner(r)
         \/ \E t \in TaskIds : TaskTimedOut(r, t) \/ TaskExecuted(r, t)
    \/ StartDraining

Spec == BrokerInit /\ [][Next]_vars

\* Messages arrive, timers that stay set fire, and aborted code ends; user code
\* need not, no runner has to connect, and nobody has to cancel, stop or drain.
FairSpec ==
    /\ Spec
    /\ \A q \in Requests : WF_vars(HandleRequestTimeout(q))
    /\ \A t \in TaskIds : WF_vars(AcceptTimeout(t)) /\ WF_vars(HandleTaskTimeout(t))
    /\ \A r \in Runners :
         /\ WF_vars(BrokerReceives(r)) /\ WF_vars(RunnerReceives(r))
         /\ \A t \in TaskIds :
              /\ WF_vars(TaskTimedOut(r, t))
              /\ WF_vars(runningTasks[r][t] \in {"aborting:timeout", "aborting:cancelled"}
                         /\ TaskExecuted(r, t))

-----------------------------------------------------------------------------
(* Properties *)

\* TaskStatus of task-state.ts; "none": the task is not in runningTasks.
TaskStatus == {"none", "waitingForSettings", "running", "aborting:cancelled", "aborting:timeout"}

\* The tables of broker, runners and requester keep their types, and a pending
\* offer is that of a runner the broker knows.
BrokerTypeOK ==
    /\ known \subseteq Runners
    /\ \A o \in Range(pendingOffers) : o.runner \in known /\ o.offer \in OfferIds
    /\ Range(pendingRequests) \subseteq Requests
    /\ acceptInProgress \subseteq Requests
    /\ \A t \in TaskIds : \A a \in {accepting[t], tasks[t]} \ {Nothing} :
         a.request \in Requests /\ a.runner \in Runners
    /\ isDraining \in BOOLEAN
    /\ openOffers \in [Runners -> SUBSET OfferIds]
    /\ runningTasks \in [Runners -> [TaskIds -> TaskStatus]]
    /\ canSendOffers \in [Runners -> BOOLEAN] /\ isShuttingDown \in [Runners -> BOOLEAN]
    /\ answer \in [Requests -> {"idle", "pending", "assigned", "done", "error", "cancelled",
                                "expired"}]

\* A task the broker holds has a requester waiting for it, unless the request
\* expired while a runner was accepting it: the case of which acceptOffer() says
\* "This shouldn't happen, and might be a race condition".
OrphanMeansExpired ==
    \A t \in TaskIds : tasks[t] # Nothing => answer[tasks[t].request] \in {"assigned", "expired"}

\* Whatever is retried after a reject, a timeout or a lost connection, the code
\* of a request is started at most once.
ExecutedOnce == \A q \in Requests : executions[q] <= 1

\* "These states should never happen": settings never reach a task that runs
\* or aborts, so receivedSettings() never throws.
SettingsAreExpected ==
    \A r \in Runners : \A m \in Range(toRunner[r]) :
        m.type = "settings" => runningTasks[r][m.task] \in {"none", "waitingForSettings"}

\* A runner never promises more than it can run: its open offers and its tasks
\* together stay within its concurrency, through expiries and late accepts.
NoOvercommitment ==
    \A r \in Runners :
        Cardinality(openOffers[r]) + Cardinality(Busy(runningTasks[r])) <= MaxConcurrency

\* Every startTask() comes back with a result or an error.
RequestIsAnswered ==
    \A q \in Requests : answer[q] \in {"pending", "assigned"} ~>
                        answer[q] \in {"done", "error", "cancelled", "expired"}

\* Every slot a runner gives away comes back to it, also when the broker has
\* given up on the task.
RunnerSlotComesBack ==
    \A r \in Runners : \A t \in TaskIds :
        runningTasks[r][t] # "none" ~> runningTasks[r][t] = "none"

\* drainActiveTasks() need not run into its timeout: after startDraining() the
\* broker runs out of active tasks, the ones without a requester included.
DrainingEnds == isDraining ~> \A t \in TaskIds : tasks[t] = Nothing

-----------------------------------------------------------------------------
(* The inductive invariant of OrphanMeansExpired, ExecutedOnce and             *)
(* SettingsAreExpected                                                         *)

Offers == [runner : Runners, offer : OfferIds]
Assignments == [request : Requests, runner : Runners]
MessagesToRunner ==
    [type : {"accept"}, task : TaskIds, offer : OfferIds]
    \cup [type : {"settings", "cancel"}, task : TaskIds, offer : {Nothing}]
    \cup [type : {"drain"}, task : {Nothing}, offer : {Nothing}]
MessagesToBroker ==
    [type : {"offer"}, task : {Nothing}, offer : OfferIds]
    \cup [type : {"accepted", "rejected", "done", "error"}, task : TaskIds, offer : {Nothing}]

TablesTyped ==
    /\ known \subseteq Runners /\ isDraining \in BOOLEAN
    /\ pendingOffers \in Seq(Offers) /\ pendingRequests \in Seq(Requests)
    /\ acceptInProgress \subseteq Requests
    /\ accepting \in [TaskIds -> Assignments \cup {Nothing}]
    /\ tasks \in [TaskIds -> Assignments \cup {Nothing}]
    /\ owner \in [TaskIds -> Requests \cup {Nothing}]
    /\ toRunner \in [Runners -> Seq(MessagesToRunner)]
    /\ toBroker \in [Runners -> Seq(MessagesToBroker)]
    /\ openOffers \in [Runners -> SUBSET OfferIds]
    /\ runningTasks \in [Runners -> [TaskIds -> TaskStatus]]
    /\ canSendOffers \in [Runners -> BOOLEAN] /\ isShuttingDown \in [Runners -> BOOLEAN]
    /\ answer \in [Requests -> {"idle", "pending", "assigned", "done", "error", "cancelled",
                                "expired"}]
    /\ executions \in [Requests -> Nat]

OffersOfKnown == \A o \in Range(pendingOffers) : o.runner \in known

\* A request that may still be matched has not been answered.
PendingUnanswered == \A q \in Range(pendingRequests) : answer[q] = "pending"

\* An open accept is of its task's owner, which waits for it, or expired.
AcceptIsOwners ==
    \A t \in TaskIds : accepting[t] # Nothing =>
        LET q == accepting[t].request IN
        /\ q = owner[t] /\ q \in acceptInProgress
        /\ Contains(pendingRequests, q) \/ answer[q] = "expired"

\* acceptInProgress does its work: one accept at a time, and none for a task
\* that exists.
OneAcceptOrTask ==
    \A t, u \in TaskIds :
        /\ accepting[t] # Nothing /\ accepting[u] # Nothing
           /\ accepting[t].request = accepting[u].request => t = u
        /\ tasks[t] # Nothing /\ tasks[u] # Nothing
           /\ tasks[t].request = tasks[u].request => t = u
        /\ accepting[t] # Nothing /\ tasks[u] # Nothing =>
             accepting[t].request # tasks[u].request

RequestsInv ==
    /\ OffersOfKnown /\ PendingUnanswered /\ AcceptIsOwners /\ OneAcceptOrTask
    /\ OrphanMeansExpired

IsSettings(r, i) == toRunner[r][i].type = "settings"

\* A task that is being accepted has no settings yet and does not run.
AcceptedNotStarted ==
    \A t \in TaskIds, r \in Runners : accepting[t] # Nothing =>
        /\ runningTasks[r][t] \in {"none", "waitingForSettings"}
        /\ \A i \in DOMAIN toRunner[r] : IsSettings(r, i) => toRunner[r][i].task # t

Unanswered == {"idle", "pending"}

\* Settings are on their way for a request that has been answered and whose
\* code has not been started.
SettingsBeforeStart ==
    \A r \in Runners : \A i \in DOMAIN toRunner[r] : IsSettings(r, i) =>
        LET q == owner[toRunner[r][i].task] IN
        q \in Requests /\ answer[q] \notin Unanswered /\ executions[q] = 0

\* They are sent once.
SettingsOnce ==
    \A r, s \in Runners : \A i \in DOMAIN toRunner[r], j \in DOMAIN toRunner[s] :
        IsSettings(r, i) /\ IsSettings(s, j)
        /\ owner[toRunner[r][i].task] = owner[toRunner[s][j].task] => r = s /\ i = j

StartedOnce ==
    \A q \in Requests : executions[q] <= 1 /\ (answer[q] \in Unanswered => executions[q] = 0)

SettingsInv ==
    /\ AcceptedNotStarted /\ SettingsBeforeStart /\ SettingsOnce /\ StartedOnce
    /\ SettingsAreExpected

TasksInv == TablesTyped /\ RequestsInv /\ SettingsInv
=============================================================================
