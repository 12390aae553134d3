---------------------------- MODULE Publication ----------------------------
(***************************************************************************)
(* Publication of workflows through the outbox: a user's publish and       *)
(* unpublish, the consumer that claims records on the leader, the applier  *)
(* that moves the in-memory triggers from the published version to the     *)
(* requested one, and the teardown that a leader runs when it steps down.  *)
(*                                                                         *)
(* A step ends where the code awaits the database, a trigger or a lock.    *)
(* Only non-webhook triggers are modelled: webhooks are rows, the same for *)
(* every main.  Rows of records that came to an end are left out; a record *)
(* keeps its place in outbox, which stands for the order of ids.           *)
(***************************************************************************)
EXTENDS Naturals, Sequences, FiniteSets, SequencesExt

CONSTANTS
    Mains, Workflows, Versions,
    TriggersOf,     \* a version's enabled triggers: a set of [node, content]
    NoVersion,
    NoRecord,
    Ids,            \* outbox ids; one is taken again once nothing refers to it
    MaxEdits,       \* publish and unpublish requests
    MaxTakeovers,
    MaxFaults,      \* crashes, failures and early wake-ups
    Ops             \* faults of this model

PublicationOps == {"retake", "overlap", "lease", "timeout", "fail", "unreported", "runtime",
                   "shutdown", "crash", "wakeup"}

\* The outbox's records that are not done yet.
Rows == [id : Ids, workflow : Workflows, version : Versions, status : {"pending", "in_progress"}]

ASSUME PublicationAssumption ==
    /\ Ops \subseteq PublicationOps
    /\ NoVersion \notin Versions /\ DOMAIN TriggersOf = Versions
    /\ \A v \in Versions : \A t, u \in TriggersOf[v] : t.node = u.node => t = u
    /\ NoRecord \notin Rows /\ IsFiniteSet(Ids) /\ IsFiniteSet(Workflows)
    /\ {MaxEdits, MaxTakeovers, MaxFaults} \subseteq Nat

VARIABLES
    active,      \* workflow_entity.activeVersionId
    published,   \* workflow_published_version
    outbox,      \* pending and in_progress records, oldest first: a sequence of Rows
    isLeader,
    isPolling,
    isShuttingDown,
    enqueuing,   \* mains whose enqueueOnLeaderTakeover() awaits the database
    drain,       \* the activeDrain: what it awaits
    record,      \* the record it processes
    plan,        \* what apply() has resolved for it
    lock,        \* WorkflowPublicationLifecycleLock: owner first, then the waiters
    teardown,    \* deactivateAllNonWebhookTriggers() under way, by their takeover number
    registered,  \* ActiveWorkflowTriggers
    recovering,  \* recoverFromRuntimeTriggerFailure() under way: [workflow, trigger]
    escaped,     \* history: workflows whose triggers changed outside the lock, or that a
                 \* teardown left when it threw
    outcome,     \* history: how the last applied record of a workflow ended
    edits, takeovers, faults

dbVars == <<active, published, outbox>>
roleVars == <<isLeader, isPolling, isShuttingDown, enqueuing, takeovers>>
drainVars == <<drain, record, plan>>
triggerVars == <<lock, teardown, registered, recovering, escaped>>
vars == <<dbVars, roleVars, drainVars, triggerVars, outcome, edits, faults>>

\* One of the faults of this model happens.
Fault(op) == op \in Ops /\ faults < MaxFaults /\ faults' = faults + 1

Teardowns == 0 .. MaxTakeovers
NoTeardown == [todo |-> {}, deferred |-> {}, current |-> {}]
NoPlan == [unpublish |-> FALSE, remove |-> {}, add |-> {}]

PublicationInit ==
    /\ active = [w \in Workflows |-> NoVersion]
    /\ published = [w \in Workflows |-> NoVersion]
    /\ outbox = <<>>
    /\ isLeader = [m \in Mains |-> FALSE]
    /\ isPolling = [m \in Mains |-> FALSE]
    /\ isShuttingDown = [m \in Mains |-> FALSE]
    /\ enqueuing = {}
    /\ drain = [m \in Mains |-> "idle"]
    /\ record = [m \in Mains |-> NoRecord]
    /\ plan = [m \in Mains |-> NoPlan]
    /\ lock = [m \in Mains |-> [w \in Workflows |-> <<>>]]
    /\ teardown = [m \in Mains |-> [k \in Teardowns |-> NoTeardown]]
    /\ registered = [m \in Mains |-> [w \in Workflows |-> {}]]
    /\ recovering = [m \in Mains |-> {}]
    /\ escaped = [m \in Mains |-> {}]
    /\ outcome = [w \in Workflows |-> "none"]
    /\ edits = 0 /\ takeovers = 0 /\ faults = 0

-----------------------------------------------------------------------------
(* The outbox table *)

\* s without its one entry at a position of I, if there is one.
Taken(s, I) == IF I = {} THEN s ELSE RemoveAt(s, CHOOSE i \in I : TRUE)

Positions(w, s) == {i \in DOMAIN outbox : outbox[i].workflow = w /\ outbox[i].status = s}
Held(id) == \E m \in Mains : record[m] # NoRecord /\ record[m].id = id

\* Of `versions`, a set of [workflow, version], those an upsert inserts.
Missing(versions) == {x \in versions : Positions(x.workflow, "pending") = {}}
FreeIds == {id \in Ids : ~Held(id) /\ \A i \in DOMAIN outbox : outbox[i].id # id}

\* The bound that Ids sets.
EnoughIds(versions) == Cardinality(Missing(versions)) <= Cardinality(FreeIds)

\* An existing pending record is updated in place.
Updated(versions) ==
    [i \in DOMAIN outbox |->
       LET r == outbox[i]
           new == {x.version : x \in {y \in versions : y.workflow = r.workflow}}
       IN  IF r.status = "pending" /\ new # {}
             THEN [r EXCEPT !.version = CHOOSE v \in new : TRUE] ELSE r]

Inserted(versions) ==
    LET ids == SetToSeq(FreeIds)
        rows == SetToSeq(Missing(versions))
    IN  [i \in DOMAIN rows |->
           [id |-> ids[i], workflow |-> rows[i].workflow,
            version |-> rows[i].version, status |-> "pending"]]

\* The outbox after an upsert of a pending record for each of `versions`.
Upserted(versions) == Updated(versions) \o Inserted(versions)

\* Mutant of Claimable: a pending record whose workflow is being processed
ClaimableTwice(i) == outbox[i].status = "pending" \/ ~Held(outbox[i].id)

\* A record a claim may take: pending with no record of its workflow in
\* progress, or in progress past its lease.
Claimable(i) ==
    \/ outbox[i].status = "pending" /\ Positions(outbox[i].workflow, "in_progress") = {}
    \/ outbox[i].status = "in_progress" /\ (~Held(outbox[i].id) \/ "lease" \in Ops)

InProgress(id) == {i \in DOMAIN outbox : outbox[i].id = id /\ outbox[i].status = "in_progress"}

\* Mutant of Returned: the new leader enqueues every active workflow anyway
ReturnedDropped(r) == SelectSeq(outbox, LAMBDA x : x.id # r.id)

\* returnToPending(): a newer pending record supersedes this one.
Returned(r) ==
    IF Positions(r.workflow, "pending") # {}
      THEN Taken(outbox, InProgress(r.id))
      ELSE [i \in DOMAIN outbox |->
              IF i \in InProgress(r.id) THEN [outbox[i] EXCEPT !.status = "pending"] ELSE outbox[i]]

\* markCompleted(), markFailed(), markPartialSuccess(); of a record that is no
\* longer in progress they throw, which is logged.
Ended(r) == Taken(outbox, InProgress(r.id))

-----------------------------------------------------------------------------
(* Users *)

\* _publishViaOutbox() and _unpublishViaOutbox(): one transaction
Publish(w, v) ==
    /\ edits < MaxEdits /\ active[w] # v
    /\ edits' = edits + 1
    /\ active' = [active EXCEPT ![w] = v]
    /\ EnoughIds({[workflow |-> w, version |-> v]})
    /\ outbox' = Upserted({[workflow |-> w, version |-> v]})
    /\ UNCHANGED <<published, roleVars, drainVars, triggerVars, outcome, faults>>

Unpublish(w) ==
    /\ edits < MaxEdits /\ active[w] # NoVersion
    /\ edits' = edits + 1
    /\ active' = [active EXCEPT ![w] = NoVersion]
    /\ EnoughIds({[workflow |-> w, version |-> active[w]]})
    /\ outbox' = Upserted({[workflow |-> w, version |-> active[w]]})
    /\ UNCHANGED <<published, roleVars, drainVars, triggerVars, outcome, faults>>

-----------------------------------------------------------------------------
(* Roles *)

TearingDown(m) == \E k \in Teardowns : teardown[m][k] # NoTeardown

\* 'leader-takeover', or start() as leader: the enqueue is awaited.
Takeover(m) ==
    /\ ~isLeader[m] /\ takeovers < MaxTakeovers
    /\ "overlap" \notin Ops => \A n \in Mains : ~isLeader[n]
    /\ "retake" \notin Ops => ~TearingDown(m) /\ m \notin enqueuing
    /\ isLeader' = [isLeader EXCEPT ![m] = TRUE]
    /\ enqueuing' = enqueuing \cup {m}
    /\ takeovers' = takeovers + 1
    /\ UNCHANGED <<dbVars, isPolling, isShuttingDown, drainVars, triggerVars, outcome, edits, faults>>

ActiveVersions ==
    {[workflow |-> w, version |-> active[w]] : w \in {x \in Workflows : active[x] # NoVersion}}

\* enqueueAllActiveWorkflows() is done: start polling.
EnqueueActiveWorkflows(m) ==
    /\ m \in enqueuing
    /\ enqueuing' = enqueuing \ {m}
    /\ EnoughIds(ActiveVersions)
    /\ outbox' = Upserted(ActiveVersions)
    /\ isPolling' = [isPolling EXCEPT ![m] = ~isShuttingDown[m]]
    /\ UNCHANGED <<active, published, isLeader, isShuttingDown, takeovers, drainVars, triggerVars,
                   outcome, edits, faults>>

\* wakeUp() starts to poll without waiting for the enqueue of a takeover, which
\* MaxFaults bounds with the faults; while polling it changes nothing.
WakeUp(m) ==
    /\ Fault("wakeup")
    /\ isLeader[m] /\ ~isShuttingDown[m] /\ ~isPolling[m]
    /\ isPolling' = [isPolling EXCEPT ![m] = TRUE]
    /\ UNCHANGED <<dbVars, isLeader, isShuttingDown, enqueuing, takeovers, drainVars, triggerVars,
                   outcome, edits>>

\* stopPolling() and the snapshot teardown works through: workflows with
\* triggers, and workflows whose lock is held or waited for.
BeginTeardown(m) ==
    /\ isPolling' = [isPolling EXCEPT ![m] = FALSE]
    /\ teardown' = [teardown EXCEPT ![m][takeovers] =
                      [NoTeardown EXCEPT !.todo = {w \in Workflows : registered[m][w] # {} \/ lock[m][w] # <<>>}]]

Stepdown(m) ==
    /\ isLeader[m] /\ ~isShuttingDown[m]
    /\ "retake" \notin Ops => m \notin enqueuing
    /\ isLeader' = [isLeader EXCEPT ![m] = FALSE]
    /\ BeginTeardown(m)
    /\ UNCHANGED <<dbVars, isShuttingDown, enqueuing, takeovers, drainVars, lock, registered,
                   recovering, escaped, outcome, edits, faults>>

Shutdown(m) ==
    /\ "shutdown" \in Ops
    /\ isLeader[m] /\ ~isShuttingDown[m]
    /\ isShuttingDown' = [isShuttingDown EXCEPT ![m] = TRUE]
    /\ BeginTeardown(m)
    /\ UNCHANGED <<dbVars, isLeader, enqueuing, takeovers, drainVars, lock, registered, recovering,
                   escaped, outcome, edits, faults>>

\* The process ends, with everything it keeps in memory, and starts again.
Restart(m) ==
    /\ \/ Fault("crash")
       \/ isShuttingDown[m] /\ ~TearingDown(m) /\ drain[m] = "idle" /\ UNCHANGED faults
    /\ isLeader' = [isLeader EXCEPT ![m] = FALSE]
    /\ isPolling' = [isPolling EXCEPT ![m] = FALSE]
    /\ isShuttingDown' = [isShuttingDown EXCEPT ![m] = FALSE]
    /\ enqueuing' = enqueuing \ {m}
    /\ drain' = [drain EXCEPT ![m] = "idle"]
    /\ record' = [record EXCEPT ![m] = NoRecord]
    /\ plan' = [plan EXCEPT ![m] = NoPlan]
    /\ lock' = [lock EXCEPT ![m] = [w \in Workflows |-> <<>>]]
    /\ teardown' = [teardown EXCEPT ![m] = [k \in Teardowns |-> NoTeardown]]
    /\ registered' = [registered EXCEPT ![m] = [w \in Workflows |-> {}]]
    /\ recovering' = [recovering EXCEPT ![m] = {}]
    /\ escaped' = [escaped EXCEPT ![m] = {}]
    /\ UNCHANGED <<dbVars, takeovers, outcome, edits>>

-----------------------------------------------------------------------------
(* Consumer and applier *)

RecordOwner == MaxTakeovers + 1  \* the record's place in a lock; teardowns have their number

Acquired(m, w, owner) == [lock EXCEPT ![m][w] = Append(@, owner)]
Released(m, w) == [lock EXCEPT ![m][w] = Tail(@)]
GivenUp(m, w, owner) ==
    [lock EXCEPT ![m][w] = Taken(@, {i \in DOMAIN lock[m][w] : lock[m][w][i] = owner})]
OwnsLock(m, w, owner) == lock[m][w] # <<>> /\ Head(lock[m][w]) = owner

\* A poll cycle, a wake-up, or the next turn of the drain's loop.
StartClaim(m) ==
    /\ drain[m] = "idle" /\ isPolling[m] /\ ~isShuttingDown[m]
    /\ \E i \in DOMAIN outbox : Claimable(i)
    /\ drain' = [drain EXCEPT ![m] = "claim"]
    /\ UNCHANGED <<dbVars, roleVars, record, plan, triggerVars, outcome, edits, faults>>

\* claimNextPendingRecord(), then the record queues for its workflow's lock.
Claim(m) ==
    /\ drain[m] = "claim"
    /\ LET oldest == {i \in DOMAIN outbox : Claimable(i) /\ \A j \in 1 .. i - 1 : ~Claimable(j)}
       IN  \/ /\ oldest = {}
              /\ drain' = [drain EXCEPT ![m] = "idle"]
              /\ UNCHANGED <<outbox, record, lock>>
           \/ \E i \in oldest :
                /\ outbox' = [outbox EXCEPT ![i].status = "in_progress"]
                /\ record' = [record EXCEPT ![m] = outbox'[i]]
                /\ drain' = [drain EXCEPT ![m] = "enter"]
                /\ lock' = Acquired(m, outbox[i].workflow, RecordOwner)
    /\ UNCHANGED <<active, published, roleVars, plan, teardown, registered, recovering, escaped,
                   outcome,
                   edits, faults>>

\* The drain is done with its record: the lock goes to the next waiter.
Finish(m) ==
    /\ drain' = [drain EXCEPT ![m] = "idle"]
    /\ lock' = Released(m, record[m].workflow)
    /\ record' = [record EXCEPT ![m] = NoRecord]
    /\ plan' = [plan EXCEPT ![m] = NoPlan]

\* The lock is ours but leadership was lost: back to the queue.
ReturnRecord(m) ==
    /\ drain[m] = "enter" /\ OwnsLock(m, record[m].workflow, RecordOwner)
    /\ ~isLeader[m]
    /\ outbox' = Returned(record[m])
    /\ Finish(m)
    /\ UNCHANGED <<active, published, roleVars, teardown, registered, recovering, escaped, outcome, edits, faults>>

Nodes(ts) == {t.node : t \in ts}
OfVersion(v) == IF v = NoVersion THEN {} ELSE TriggersOf[v]

\* Mutant of Unregistered: only the version diff counts
NoneUnregistered(m, w, desired) == {}

\* getUnregisteredNonWebhookTriggerNodeIds()
Unregistered(m, w, desired) == Nodes(desired) \ Nodes(registered[m][w])

\* resolveVersions() and what publish() or unpublish() make of it.
Resolve(m) ==
    /\ drain[m] = "enter" /\ OwnsLock(m, record[m].workflow, RecordOwner)
    /\ isLeader[m]
    /\ LET w == record[m].workflow
           old == OfVersion(published[w])
           new == OfVersion(record[m].version)
           unpublish == active[w] = NoVersion
           skipped == unpublish /\ published[w] = NoVersion
       IN  /\ plan' = [plan EXCEPT ![m] =
                         IF unpublish
                           THEN [unpublish |-> TRUE, remove |-> Nodes(old), add |-> {}]
                           ELSE [unpublish |-> FALSE, remove |-> Nodes(old \ new),
                                 add |-> Nodes(new \ old) \cup Unregistered(m, w, new)]]
           /\ drain' = [drain EXCEPT ![m] = CASE skipped -> "report"
                                              [] plan'[m].remove # {} -> "remove"
                                              [] OTHER -> "advance"]
           /\ outcome' = [outcome EXCEPT ![w] = IF skipped THEN "ok" ELSE @]
    /\ UNCHANGED <<dbVars, roleVars, record, triggerVars, edits, faults>>

Without(m, w, nodes) == {t \in registered[m][w] : t.node \notin nodes}

\* deactivate(): the removed and modified triggers
Deactivate(m) ==
    /\ drain[m] = "remove"
    /\ registered' = [registered EXCEPT ![m][record[m].workflow] = Without(m, record[m].workflow, plan[m].remove)]
    /\ drain' = [drain EXCEPT ![m] = "advance"]
    /\ UNCHANGED <<dbVars, roleVars, record, plan, lock, teardown, recovering, escaped, outcome, edits, faults>>

\* A trigger does not close: those before it are gone, the published version stays.
DeactivateFails(m) ==
    /\ Fault("fail")
    /\ drain[m] = "remove"
    /\ \E closed \in SUBSET plan[m].remove \ {plan[m].remove} :
         registered' = [registered EXCEPT ![m][record[m].workflow] = Without(m, record[m].workflow, closed)]
    /\ drain' = [drain EXCEPT ![m] = "report"]
    /\ outcome' = [outcome EXCEPT ![record[m].workflow] = "failed"]
    /\ UNCHANGED <<dbVars, roleVars, record, plan, lock, teardown, recovering, escaped, edits>>

\* advancePublishedVersion(), or removePublishedVersion() of an unpublish
Advance(m) ==
    /\ drain[m] = "advance"
    /\ published' = [published EXCEPT ![record[m].workflow] =
                       IF plan[m].unpublish THEN NoVersion ELSE record[m].version]
    /\ drain' = [drain EXCEPT ![m] = IF plan[m].add # {} THEN "add" ELSE "report"]
    /\ outcome' = [outcome EXCEPT ![record[m].workflow] = "ok"]
    /\ UNCHANGED <<active, outbox, roleVars, record, plan, triggerVars, edits, faults>>

\* activate(): each trigger of the plan is registered or, for all its retries, fails.
Activate(m) ==
    /\ drain[m] = "add"
    /\ \E failures \in SUBSET plan[m].add :
         LET w == record[m].workflow
             added == {t \in OfVersion(record[m].version) : t.node \in plan[m].add \ failures}
         IN  /\ IF failures = {} THEN UNCHANGED faults ELSE Fault("fail")
             /\ registered' = [registered EXCEPT ![m][w] = Without(m, w, Nodes(added)) \cup added]
             /\ outcome' = [outcome EXCEPT ![w] = IF failures = {} THEN "ok" ELSE "partial"]
    /\ drain' = [drain EXCEPT ![m] = "report"]
    /\ UNCHANGED <<dbVars, roleVars, record, plan, lock, teardown, recovering, escaped, edits>>

\* report(); when it throws, the record stays in progress until its lease ends.
Report(m) ==
    /\ drain[m] = "report"
    /\ \/ outbox' = Ended(record[m]) /\ UNCHANGED faults
       \/ Fault("unreported") /\ UNCHANGED outbox
    /\ Finish(m)
    /\ UNCHANGED <<active, published, roleVars, teardown, registered, recovering, escaped, outcome, edits>>

-----------------------------------------------------------------------------
(* Teardown and runtime failures *)

Update(m, k, t) == teardown' = [teardown EXCEPT ![m][k] = t]

\* Mutant of DeferLocked: a locked workflow is skipped, its record ends by itself
SkipLocked(t, w) == [t EXCEPT !.todo = @ \ {w}]

DeferLocked(t, w) == [t EXCEPT !.todo = @ \ {w}, !.deferred = @ \cup {w}]

\* The first loop: unlocked workflows at once, locked ones later.
TeardownVisit(m, k) ==
    /\ teardown[m][k].current = {}
    /\ \E w \in teardown[m][k].todo :
         IF lock[m][w] # <<>>
           THEN Update(m, k, DeferLocked(teardown[m][k], w)) /\ UNCHANGED lock
           ELSE /\ Update(m, k, [teardown[m][k] EXCEPT !.todo = @ \ {w}, !.current = {w}])
                /\ lock' = Acquired(m, w, k)
    /\ UNCHANGED <<dbVars, roleVars, drainVars, registered, recovering, escaped, outcome, edits, faults>>

\* The second loop: wait for the lock of a workflow that was locked.
TeardownWait(m, k) ==
    /\ teardown[m][k].current = {} /\ teardown[m][k].todo = {}
    /\ \E w \in teardown[m][k].deferred :
         /\ Update(m, k, [teardown[m][k] EXCEPT !.deferred = @ \ {w}, !.current = {w}])
         /\ lock' = Acquired(m, w, k)
    /\ UNCHANGED <<dbVars, roleVars, drainVars, registered, recovering, escaped, outcome, edits, faults>>

\* deactivateWorkflow(): with the lock, or after 30 seconds without it.
TeardownRemove(m, k) ==
    /\ \E w \in teardown[m][k].current :
         /\ \/ /\ OwnsLock(m, w, k)
               /\ lock' = Released(m, w)
               /\ escaped' = [escaped EXCEPT ![m] = @ \ {w}]
               /\ UNCHANGED faults
            \/ /\ Fault("timeout") /\ ~OwnsLock(m, w, k)
               /\ lock' = GivenUp(m, w, k)
               /\ escaped' = [escaped EXCEPT ![m] = @ \cup {w}]
         /\ registered' = [registered EXCEPT ![m][w] = {}]
    /\ Update(m, k, [teardown[m][k] EXCEPT !.current = {}])
    /\ UNCHANGED <<dbVars, roleVars, drainVars, recovering, outcome, edits>>

\* What teardown k of m has before it.
Left(m, k) == teardown[m][k].todo \cup teardown[m][k].deferred \cup teardown[m][k].current

\* remove() throws when a trigger does not close: its crons are gone, but the
\* workflow stays in memory with the triggers it closed before.  Nobody catches
\* it in deactivateAllNonWebhookTriggers(), which ends with what it had left.
TeardownThrows(m, k) ==
    /\ Fault("fail")
    /\ \E w \in teardown[m][k].current :
         /\ \/ OwnsLock(m, w, k) /\ lock' = Released(m, w)
            \/ "timeout" \in Ops /\ ~OwnsLock(m, w, k) /\ lock' = GivenUp(m, w, k)
         /\ \E kept \in SUBSET registered[m][w] \ {{}} : registered' = [registered EXCEPT ![m][w] = kept]
    /\ escaped' = [escaped EXCEPT ![m] = @ \cup Left(m, k)]
    /\ Update(m, k, NoTeardown)
    /\ UNCHANGED <<dbVars, roleVars, drainVars, recovering, outcome, edits>>

\* A registered trigger fails while it runs and is taken down.
RuntimeFailure(m) ==
    /\ Fault("runtime")
    /\ \E w \in Workflows : \E t \in registered[m][w] :
         /\ recovering' = [recovering EXCEPT ![m] = @ \cup {[workflow |-> w, trigger |-> t]}]
         /\ registered' = [registered EXCEPT ![m][w] = @ \ {t}]
    /\ UNCHANGED <<dbVars, roleVars, drainVars, lock, teardown, escaped, outcome, edits>>

\* It is registered again, whoever leads and whatever is published by then.
RuntimeRecovered(m) ==
    /\ \E r \in recovering[m] :
         /\ recovering' = [recovering EXCEPT ![m] = @ \ {r}]
         /\ registered' = [registered EXCEPT ![m][r.workflow] =
                             Without(m, r.workflow, {r.trigger.node}) \cup {r.trigger}]
         /\ escaped' = [escaped EXCEPT ![m] = @ \cup {r.workflow}]
    /\ UNCHANGED <<dbVars, roleVars, drainVars, lock, teardown, outcome, edits, faults>>

-----------------------------------------------------------------------------

DrainStep(m) ==
    \/ StartClaim(m) \/ Claim(m) \/ ReturnRecord(m) \/ Resolve(m) \/ Deactivate(m)
    \/ DeactivateFails(m) \/ Advance(m) \/ Activate(m) \/ Report(m)

TeardownStep(m) ==
    \E k \in Teardowns :
        TeardownVisit(m, k) \/ TeardownWait(m, k) \/ TeardownRemove(m, k) \/ TeardownThrows(m, k)

PublicationNext ==
    \/ \E w \in Workflows : Unpublish(w) \/ \E v \in Versions : Publish(w, v)
    \/ \E m \in Mains :
         \/ Takeover(m) \/ EnqueueActiveWorkflows(m) \/ WakeUp(m) \/ Stepdown(m) \/ Shutdown(m) \/ Restart(m)
         \/ DrainStep(m) \/ TeardownStep(m) \/ RuntimeFailure(m) \/ RuntimeRecovered(m)

Spec == PublicationInit /\ [][PublicationNext]_vars

\* A poll timer fires while polling, the database answers and triggers settle.
\* Users, role changes and faults owe nothing.
FairSpec ==
    /\ Spec
    /\ \A m \in Mains :
         WF_vars(EnqueueActiveWorkflows(m)) /\ WF_vars(DrainStep(m)) /\ WF_vars(TeardownStep(m))

-----------------------------------------------------------------------------
(* Properties *)

\* A main that does not lead and has finished its teardown runs no trigger,
\* not even for a record that was processed when it lost leadership; except of
\* workflows that a lock timeout or a runtime recovery let past the lock, or that
\* a teardown left when it threw.
NoTriggerOnFollower ==
    \A m \in Mains, w \in Workflows :
        ~isLeader[m] /\ ~TearingDown(m) /\ w \notin escaped[m] => registered[m][w] = {}

\* Nothing is left to do anywhere.
Quiescent ==
    /\ outbox = <<>> /\ enqueuing = {}
    /\ \A m \in Mains : drain[m] = "idle" /\ ~TearingDown(m) /\ recovering[m] = {} /\ ~isShuttingDown[m]

\* When nothing is left to do and one main leads, it runs exactly the triggers
\* of the published version of every workflow whose last record went well:
\* what apply() requires to compute the next diff from the version's row.  Nor is
\* this so of a workflow that this main's lock or an earlier teardown let escape.
LeaderRunsPublished ==
    Quiescent /\ Cardinality({m \in Mains : isLeader[m]}) = 1 =>
        \A m \in Mains, w \in Workflows :
            isLeader[m] /\ outcome[w] = "ok" /\ w \notin escaped[m] => registered[m][w] = OfVersion(published[w])

\* The published version only changes to what a user asked for last or, while a
\* newer request waits, to what they asked for before.
PublishedFollowsRequests ==
    [][\A w \in Workflows :
         published'[w] # published[w] =>
            published'[w] = active[w] \/ Positions(w, "pending") # {}]_vars

\* Once users, roles and faults settle on a leader, every workflow's published
\* version becomes its active one, unless a trigger of the old one would not close.
PublicationConverges ==
    <>[](\/ \A m \in Mains : ~isLeader[m] \/ isShuttingDown[m]
         \/ \A w \in Workflows : published[w] = active[w] \/ outcome[w] = "failed")
-----------------------------------------------------------------------------
(* The inductive invariants *)

Triggers == UNION {TriggersOf[v] : v \in Versions}
Owners == Teardowns \cup {RecordOwner}
Applying == {"remove", "advance", "add", "report"}

PublicationTypeOK ==
    /\ {active, published} \subseteq [Workflows -> Versions \cup {NoVersion}]
    /\ outbox \in Seq(Rows)
    /\ {isLeader, isPolling, isShuttingDown} \subseteq [Mains -> BOOLEAN]
    /\ enqueuing \subseteq Mains
    /\ drain \in [Mains -> {"idle", "claim", "enter"} \cup Applying]
    /\ record \in [Mains -> Rows \cup {NoRecord}]
    /\ plan \in [Mains -> [unpublish : BOOLEAN, remove : SUBSET Nodes(Triggers), add : SUBSET Nodes(Triggers)]]
    /\ lock \in [Mains -> [Workflows -> Seq(Owners)]]
    /\ teardown \in [Mains -> [Teardowns -> [todo : SUBSET Workflows, deferred : SUBSET Workflows,
                                             current : SUBSET Workflows]]]
    /\ registered \in [Mains -> [Workflows -> SUBSET Triggers]]
    /\ recovering \in [Mains -> SUBSET [workflow : Workflows, trigger : Triggers]]
    /\ escaped \in [Mains -> SUBSET Workflows]
    /\ outcome \in [Workflows -> {"none", "ok", "failed", "partial"}]
    /\ {edits, takeovers, faults} \subseteq Nat /\ takeovers <= MaxTakeovers

HasRow(w) == \E r \in Range(outbox) : r.workflow = w
HasPending(w) == \E r \in Range(outbox) : r.workflow = w /\ r.status = "pending"

\* Main m applies a record of w: apply() or report() is under way.
Applies(m, w) == drain[m] \in Applying /\ record[m].workflow = w

\* The version that the record of m makes the published one.
Target(m) == IF plan[m].unpublish THEN NoVersion ELSE record[m].version

\* An id names one row.
IdsDistinct == \A i, j \in DOMAIN outbox : outbox[i].id = outbox[j].id => i = j

RecordWhileHeld == \A m \in Mains : record[m] = NoRecord <=> drain[m] \in {"idle", "claim"}

\* Who is in a lock's queue: the record that is processed and the teardowns
\* whose turn the workflow is, each once; who applies a record is at its head.
LockQueues ==
    \A m \in Mains :
        /\ \A k \in Teardowns : \A w, x \in teardown[m][k].current : w = x
        /\ \A w \in Workflows :
             /\ \A i, j \in DOMAIN lock[m][w] : lock[m][w][i] = lock[m][w][j] => i = j
             /\ \A k \in Teardowns : k \in Range(lock[m][w]) <=> w \in teardown[m][k].current
             /\ RecordOwner \in Range(lock[m][w]) <=> record[m] # NoRecord /\ record[m].workflow = w
             /\ Applies(m, w) => OwnsLock(m, w, RecordOwner)

\* A teardown never starts over one under way.
TeardownsInOrder ==
    \A m \in Mains :
        /\ \A k \in Teardowns : k > takeovers => teardown[m][k] = NoTeardown
        /\ isLeader[m] /\ ~isShuttingDown[m] => teardown[m][takeovers] = NoTeardown

\* Triggers of a workflow, or a record about to register some, are there on a
\* leader, or a teardown has the workflow before it.
TriggersCovered ==
    \A m \in Mains, w \in Workflows :
        registered[m][w] # {} \/ Applies(m, w) =>
            isLeader[m] \/ w \in escaped[m] \/ \E k \in Teardowns : w \in Left(m, k)

\* What NoTriggerOnFollower rests on.
FollowerInv ==
    PublicationTypeOK /\ IdsDistinct /\ RecordWhileHeld /\ LockQueues /\ TeardownsInOrder /\ TriggersCovered

\* A workflow has one row of each status.
OneRowEach ==
    \A r, s \in Range(outbox) : r.workflow = s.workflow /\ r.status = s.status => r = s

\* Without a lease that ends early, a record is one main's and its row stays.
RecordIsRow ==
    /\ \A m \in Mains : record[m] # NoRecord => record[m] \in Range(outbox) /\ record[m].status = "in_progress"
    /\ \A m, n \in Mains :
         record[m] # NoRecord /\ record[n] # NoRecord /\ record[m].workflow = record[n].workflow => m = n

\* A row that is not up to date has been overtaken.
RowsFollowRequests ==
    \A r \in Range(outbox) :
        \/ r.version = active[r.workflow] \/ active[r.workflow] = NoVersion
        \/ r.status = "in_progress" /\ HasPending(r.workflow)

TargetFollowsRequests ==
    \A m \in Mains :
        drain[m] \in Applying => Target(m) = active[record[m].workflow] \/ HasPending(record[m].workflow)

\* What PublishedFollowsRequests rests on.
RequestInv == OneRowEach /\ RecordIsRow /\ RowsFollowRequests /\ TargetFollowsRequests

\* Without two leaders, and without a main that leads again before it is done.
OneLeader ==
    /\ \A m, n \in Mains : isLeader[m] /\ isLeader[n] => m = n
    /\ \A m \in enqueuing : isLeader[m]
    /\ \A m \in Mains : isLeader[m] /\ ~isShuttingDown[m] => ~TearingDown(m)

\* The diff of a record stays true until it is applied: who holds the record
\* alone changes the published version.
PlanIsCurrent ==
    \A m \in Mains :
        LET w == record[m].workflow
        IN  /\ drain[m] \in Applying /\ plan[m].unpublish => plan[m].add = {}
            /\ drain[m] = "remove" => plan[m].remove = Nodes(OfVersion(published[w]) \ OfVersion(Target(m)))
            /\ drain[m] = "add" \/ (drain[m] = "report" /\ outcome[w] = "ok") => published[w] = Target(m)

\* A workflow that nothing is to be done for has what was asked for.
DoneIsPublished == \A w \in Workflows : ~HasRow(w) /\ outcome[w] = "ok" => published[w] = active[w]

\* m leads and w did not escape its lock or its teardown.
Steady(m, w) == isLeader[m] /\ ~isShuttingDown[m] /\ w \notin escaped[m]

\* A leader runs no trigger that is not published, or about to be, and none
\* while a former leader still applies a record.
RunsAtMostPublished ==
    \A m \in Mains, w \in Workflows : Steady(m, w) =>
        /\ registered[m][w] \subseteq OfVersion(published[w]) \/ (Applies(m, w) /\ drain[m] = "advance")
        /\ Applies(m, w) /\ drain[m] = "advance" => registered[m][w] \subseteq OfVersion(Target(m))
        /\ \A n \in Mains \ {m} : Applies(n, w) => registered[m][w] = {}

\* A trigger of the target is to be added, or runs and is not to be removed.
PlanIsComplete(m, w) ==
    /\ drain[m] \in {"remove", "advance", "add"} =>
         \A t \in OfVersion(Target(m)) :
            t.node \in plan[m].add \/ (t \in registered[m][w] /\ (drain[m] = "remove" => t.node \notin plan[m].remove))
    /\ drain[m] = "report" /\ outcome[w] = "ok" => OfVersion(published[w]) \subseteq registered[m][w]

\* A leader runs what is published, or something is left to do that makes it so.
RunsOrWill ==
    \A m \in Mains, w \in Workflows : Steady(m, w) /\ (\A r \in recovering[m] : r.workflow # w) =>
        /\ Applies(m, w) => PlanIsComplete(m, w)
        /\ \/ m \in enqueuing /\ active[w] # NoVersion
           \/ HasPending(w)
           \/ \E n \in Mains \ {m} : Applies(n, w) /\ plan[n].unpublish
           \/ /\ \A n \in Mains \ {m} : ~Applies(n, w)
              /\ HasRow(w) \/ outcome[w] # "ok" \/ registered[m][w] = OfVersion(published[w])

\* What LeaderRunsPublished rests on.
LeaderInv == OneLeader /\ PlanIsCurrent /\ DoneIsPublished /\ RunsAtMostPublished /\ RunsOrWill
=============================================================================
