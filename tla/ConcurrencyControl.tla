------------------------- MODULE ConcurrencyControl -------------------------
(***************************************************************************)
(* The concurrency gate of n8n's regular mode: ConcurrencyControlService   *)
(* with its two ConcurrencyQueues (production, evaluation) and the         *)
(* ConcurrencyCapacityReservation that a caller holds while it runs.       *)
(*                                                                         *)
(* A caller is one use of the gate: one ActiveExecutions.add() call, or    *)
(* one evaluation case.  The methods run on the Node.js event loop and     *)
(* contain no await before their last state change, so each is one step.   *)
(***************************************************************************)
EXTENDS Integers, Sequences, FiniteSets, SequencesExt

CONSTANTS
    Callers,          \* uses of the gate
    ModeOf,           \* [Callers -> Modes]: the execution mode of each use
    ProductionLimit,  \* N8N_CONCURRENCY_PRODUCTION_LIMIT
    EvaluationLimit,  \* N8N_CONCURRENCY_EVALUATION_LIMIT as parsed at boot
    LicensedLimit     \* what resolveEvaluationConcurrencyLimit() answers later

\* The execution modes getQueue() knows; it throws on any other, and no caller
\* runs an execution in mode 'agent', the one it leaves out.
Modes == {"webhook", "trigger", "chat", "evaluation", "manual", "retry",
          "integrated", "error", "cli", "internal"}
QueueTypes == {"production", "evaluation"}

\* normaliseLimit() throws on 0, so no running instance has a zero limit.
ASSUME GateAssumption ==
    /\ IsFiniteSet(Callers)
    /\ ModeOf \in [Callers -> Modes]
    /\ ProductionLimit \in Int \ {0}
    /\ EvaluationLimit \in Int \ {0}
    /\ LicensedLimit \in Int \ {0}

VARIABLES
    isEnabled,          \* the service's master switch
    evalQueueResolved,  \* the evaluation limit is final
    limits,             \* a queue exists for the types whose limit is positive
    capacity,           \* ConcurrencyQueue.capacity; negative while throttling
    queue,              \* ConcurrencyQueue.queue, oldest first
    promise,            \* what each caller's throttle() promise has come to
    disabled            \* history: disable() has been called

gateVars == <<isEnabled, evalQueueResolved, limits, capacity, queue, promise,
              disabled>>

\* "free": let through without taking a slot.  "evicted": spliced out of the
\* queue, its promise never settles.  "done": the reservation was released.
PromiseStates == {"idle", "waiting", "granted", "free", "evicted", "done"}

NormaliseLimit(l) == IF l < -1 THEN -1 ELSE l

GetQueue(mode) ==
    IF mode \in {"webhook", "trigger", "chat"} THEN "production"
    ELSE IF mode = "evaluation" THEN "evaluation" ELSE "none"

QueueOf(c) == GetQueue(ModeOf[c])

\* Mutant of Gated: a limit of one counts as unlimited.
GatedAboveOne(c) == isEnabled /\ QueueOf(c) \in QueueTypes /\ limits[QueueOf(c)] > 1

\* !(!isEnabled || isUnlimited(mode))
Gated(c) == isEnabled /\ QueueOf(c) \in QueueTypes /\ limits[QueueOf(c)] > 0

\* The evaluation queue is built at boot or at its first use; its capacity
\* cannot be observed before, so it has its first value from the start.
GateInit ==
    /\ limits = [production |-> NormaliseLimit(ProductionLimit),
                 evaluation |-> NormaliseLimit(EvaluationLimit)]
    /\ evalQueueResolved = (EvaluationLimit > 0)
    /\ isEnabled = (ProductionLimit > 0 \/ EvaluationLimit > 0)
    /\ capacity = [production |-> ProductionLimit,
                   evaluation |-> IF EvaluationLimit > 0 THEN EvaluationLimit
                                  ELSE LicensedLimit]
    /\ queue = [t \in QueueTypes |-> <<>>]
    /\ promise = [c \in Callers |-> "idle"]
    /\ disabled = FALSE

-----------------------------------------------------------------------------
(* ConcurrencyQueue *)

\* Shift the oldest entry of q, if any, and resolve its promise; pr is the
\* promise table the caller of resolveNext() has already updated.
ResolveNext(t, q, pr) ==
    /\ queue' = [queue EXCEPT ![t] = IF q = <<>> THEN q ELSE Tail(q)]
    /\ promise' = IF q = <<>> THEN pr ELSE [pr EXCEPT ![Head(q)] = "granted"]

\* Mutant of Enqueue: one execution too many gets through.
EnqueueOffByOne(t, c) ==
    /\ capacity' = [capacity EXCEPT ![t] = @ - 1]
    /\ queue' = IF capacity[t] < 0 THEN [queue EXCEPT ![t] = Append(@, c)] ELSE queue
    /\ promise' = [promise EXCEPT ![c] = IF capacity[t] < 0 THEN "waiting" ELSE "granted"]

Enqueue(t, c) ==
    /\ capacity' = [capacity EXCEPT ![t] = @ - 1]
    /\ IF capacity[t] - 1 < 0
       THEN /\ queue' = [queue EXCEPT ![t] = Append(@, c)]
            /\ promise' = [promise EXCEPT ![c] = "waiting"]
       ELSE /\ queue' = queue
            /\ promise' = [promise EXCEPT ![c] = "granted"]

\* Mutant of Dequeue: nobody is woken.
DequeueWithoutResolve(t, pr) ==
    capacity' = [capacity EXCEPT ![t] = @ + 1] /\ promise' = pr /\ UNCHANGED queue

Dequeue(t, pr) ==
    /\ capacity' = [capacity EXCEPT ![t] = @ + 1]
    /\ ResolveNext(t, queue[t], pr)

\* Mutant of RemoveEntry: the promise of the evicted entry is rejected.
RemoveRejects(t, i) ==
    /\ capacity' = [capacity EXCEPT ![t] = @ + 1]
    /\ ResolveNext(t, RemoveAt(queue[t], i), [promise EXCEPT ![queue[t][i]] = "rejected"])

\* Mutant of RemoveEntry: the capacity is not given back.
RemoveKeepsCapacity(t, i) ==
    /\ capacity' = capacity
    /\ ResolveNext(t, RemoveAt(queue[t], i), [promise EXCEPT ![queue[t][i]] = "evicted"])

\* Splice out the entry at index i, then resolve the next one.
RemoveEntry(t, i) ==
    /\ capacity' = [capacity EXCEPT ![t] = @ + 1]
    /\ ResolveNext(t, RemoveAt(queue[t], i),
                   [promise EXCEPT ![queue[t][i]] = "evicted"])

-----------------------------------------------------------------------------
(* ConcurrencyControlService *)

EnsureEvalQueueResolved(c) ==
    IF ModeOf[c] = "evaluation" /\ ~evalQueueResolved
    THEN /\ evalQueueResolved' = TRUE
         /\ limits' = [limits EXCEPT !["evaluation"] = NormaliseLimit(LicensedLimit)]
         /\ isEnabled' = (isEnabled \/ LicensedLimit > 0)
    ELSE UNCHANGED <<evalQueueResolved, limits, isEnabled>>

Throttle(c) ==
    /\ promise[c] = "idle"
    /\ EnsureEvalQueueResolved(c)
    /\ IF Gated(c)' THEN Enqueue(QueueOf(c), c)
       ELSE /\ promise' = [promise EXCEPT ![c] = "free"]
            /\ UNCHANGED <<capacity, queue>>
    /\ UNCHANGED disabled

\* ConcurrencyCapacityReservation.release() and release({ mode }): the slot
\* is given back by mode, whoever holds it.
Release(c) ==
    /\ promise[c] \in {"granted", "free"}
    /\ EnsureEvalQueueResolved(c)
    /\ LET pr == [promise EXCEPT ![c] = "done"] IN
       IF Gated(c)' THEN Dequeue(QueueOf(c), pr)
       ELSE promise' = pr /\ UNCHANGED <<capacity, queue>>
    /\ UNCHANGED disabled

\* remove() of the entry of a queued caller c; a no-op when c is not queued.
Evict(c) ==
    /\ EnsureEvalQueueResolved(c)
    /\ IF Gated(c)' /\ Contains(queue[QueueOf(c)], c)
       THEN \E i \in DOMAIN queue[QueueOf(c)] :
              queue[QueueOf(c)][i] = c /\ RemoveEntry(QueueOf(c), i)
       ELSE UNCHANGED <<capacity, queue, promise>>
    /\ UNCHANGED disabled

Disable ==
    /\ isEnabled' = FALSE
    /\ disabled' = TRUE
    /\ UNCHANGED <<evalQueueResolved, limits, capacity, queue, promise>>

GateNext ==
    \/ \E c \in Callers : Throttle(c) \/ Release(c)
    \/ \E c \in Callers : promise[c] = "waiting" /\ Evict(c)
    \/ Disable

\* No fairness: when a caller arrives, ends or is evicted is up to it.
GateSpec == GateInit /\ [][GateNext]_gateVars

-----------------------------------------------------------------------------
(* Properties *)

Holders(t) == {c \in Callers : promise[c] = "granted" /\ QueueOf(c) = t}

\* The fields of the service and of its queues keep their types.
GateTypeOK ==
    /\ isEnabled \in BOOLEAN /\ evalQueueResolved \in BOOLEAN
    /\ disabled \in BOOLEAN
    /\ limits \in [QueueTypes -> Int]
    /\ capacity \in [QueueTypes -> Int]
    /\ queue \in [QueueTypes -> Seq(Callers)]
    /\ promise \in [Callers -> PromiseStates]

\* No slot is ever lost or made up by the gate: until shutdown disables it,
\* what is left, what is held and what is queued for add up to the limit.
CapacityConserved ==
    ~disabled => \A t \in QueueTypes : limits[t] > 0 =>
        capacity[t] + Cardinality(Holders(t)) + Len(queue[t]) = limits[t]

\* No lost wakeup: nobody queues while fewer executions than the limit hold a
\* slot (ConcurrencyQueue.enqueue/dequeue/remove keep the queue moving).
NoIdleCapacity ==
    ~disabled => \A t \in QueueTypes :
        queue[t] # <<>> => Cardinality(Holders(t)) >= limits[t]

\* The limit is "Max production executions allowed to run concurrently", and
\* ConcurrencyQueue.remove() may exceed it, for it wakes the next in line though
\* no slot was freed.  Nothing else does: a step that evicts nobody never
\* admits beyond the limit.
OnlyEvictionOverAdmits ==
    [][\A t \in QueueTypes :
         (/\ limits'[t] > 0 /\ ~disabled'
          /\ Cardinality(Holders(t)') > limits'[t]
          /\ Cardinality(Holders(t)') > Cardinality(Holders(t)))
         => \E c \in Callers : promise[c] = "waiting" /\ promise'[c] = "evicted"]_gateVars

-----------------------------------------------------------------------------
(* The inductive invariant *)

\* The capacity a queue is, or will be, constructed with.
BaseCapacity(t) ==
    IF t = "production" THEN ProductionLimit
    ELSE IF EvaluationLimit > 0 THEN EvaluationLimit ELSE LicensedLimit

\* A queue's limit is the capacity it was constructed with, and the evaluation
\* limit stays unset until it is resolved.
LimitsFinal ==
    /\ \A t \in QueueTypes : limits[t] > 0 => limits[t] = BaseCapacity(t)
    /\ ~evalQueueResolved => limits["evaluation"] <= 0 /\ EvaluationLimit <= 0
    /\ evalQueueResolved /\ limits["evaluation"] <= 0 => LicensedLimit <= 0

\* Until disable(), a queue that exists is switched on.
EnabledUntilDisabled ==
    ~disabled => \A t \in QueueTypes : limits[t] > 0 => isEnabled

\* Until disable(), only callers without a queue get through uncounted.
FreeMeansUngated ==
    ~disabled => \A c \in Callers : promise[c] = "free" =>
        /\ QueueOf(c) \in QueueTypes => limits[QueueOf(c)] <= 0
        /\ QueueOf(c) = "evaluation" => evalQueueResolved

\* Who holds a slot, or asks for one, has a queue.
SlotMeansQueue ==
    \A c \in Callers : promise[c] \in {"granted", "waiting"} =>
        QueueOf(c) \in QueueTypes /\ limits[QueueOf(c)] > 0

\* q holds callers of type t that wait in the promise table pr, each once.
WaitersIn(q, pr, t) ==
    /\ \A i \in 1..Len(q) : pr[q[i]] = "waiting" /\ QueueOf(q[i]) = t
    /\ \A i, j \in 1..Len(q) : q[i] = q[j] => i = j

QueueHoldsWaiters == \A t \in QueueTypes : WaitersIn(queue[t], promise, t)

\* Negative capacity covers the queue.
BacklogCovered ==
    \A t \in QueueTypes :
        Len(queue[t]) <= (IF capacity[t] < 0 THEN -capacity[t] ELSE 0)

\* CapacityConserved for every type, queues that are not built yet included.
SlotsAccounted ==
    ~disabled => \A t \in QueueTypes :
        capacity[t] + Cardinality(Holders(t)) + Len(queue[t]) = BaseCapacity(t)

\* The strengthening of CapacityConserved and NoIdleCapacity that every step of
\* the gate preserves.
GateInv ==
    /\ GateTypeOK /\ LimitsFinal /\ EnabledUntilDisabled /\ FreeMeansUngated
    /\ SlotMeansQueue /\ QueueHoldsWaiters /\ BacklogCovered /\ SlotsAccounted
=============================================================================
