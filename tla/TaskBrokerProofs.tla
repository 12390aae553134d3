-------------------------- MODULE TaskBrokerProofs --------------------------
(***************************************************************************)
(* Proofs about the task broker.                                           *)
(*                                                                         *)
(* The first part is about the runner alone: whatever the broker sends and *)
(* in whatever order its messages arrive, an accept gives back the offer   *)
(* it takes a slot for, and new offers only fill what is left, so a runner *)
(* never promises more than it can run.                                    *)
(*                                                                         *)
(* The second part is about broker, requesters and runners together.  Its  *)
(* invariant TasksInv follows a request: acceptInProgress keeps it to one  *)
(* accept or one task at a time, its settings are sent once, when its      *)
(* requester is answered, and only they start its code.                    *)
(***************************************************************************)
EXTENDS TaskBroker, FiniteSetTheorems, SequenceTheorems, TLAPS

\* A runner's tables have their types and its promises are within its limit.
RunnerInv ==
    /\ openOffers \in [Runners -> SUBSET OfferIds]
    /\ runningTasks \in [Runners -> [TaskIds -> TaskStatus]]
    /\ NoOvercommitment

\* What RunnerInv says of one runner, of its tables as values.
Fits(open, run) ==
    /\ open \subseteq OfferIds /\ run \in [TaskIds -> TaskStatus]
    /\ Cardinality(open) + Cardinality(Busy(run)) <= MaxConcurrency

-----------------------------------------------------------------------------
(* Counting *)

\* A finite set has a subset of every size up to its own: sendOffers() finds
\* the ids it needs.
LEMMA SubsetOfSize ==
    ASSUME NEW S, IsFiniteSet(S), NEW k \in Nat, k <= Cardinality(S)
    PROVE  \E T \in SUBSET S : Cardinality(T) = k
<1>1. Cardinality(S) \in Nat /\ ExistsBijection(1..Cardinality(S), S)
  BY FS_CardinalityType
<1>2. PICK f : f \in Bijection(1..Cardinality(S), S)
  BY <1>1 DEF ExistsBijection
<1>3. /\ f \in [1..Cardinality(S) -> S]
      /\ \A a, b \in 1..Cardinality(S) : f[a] = f[b] => a = b
  BY <1>2 DEF Bijection, Injection, Surjection, IsInjective
<1> DEFINE T == {f[i] : i \in 1..k}
<1> DEFINE h == [i \in 1..k |-> f[i]]
<1>4. T \in SUBSET S
  BY <1>1, <1>3
<1>5. h \in [1..k -> T]
  OBVIOUS
<1>6. \A a, b \in 1..k : h[a] = h[b] => a = b
  BY <1>1, <1>3
<1>7. \A t \in T : \E s \in 1..k : h[s] = t
  OBVIOUS
<1>8. h \in Bijection(1..k, T)
  BY <1>5, <1>6, <1>7 DEF Bijection, Injection, Surjection, IsInjective
<1>9. Cardinality(T) = k
  <2> HIDE DEF T, h
  <2>1. ExistsBijection(1..k, T)
    BY <1>8 DEF ExistsBijection
  <2> QED BY <2>1, FS_CountingElements
<1> QED BY <1>4, <1>9

\* The tables of a runner are finite, so the two counts are numbers.
LEMMA RunnerCounts ==
    ASSUME NEW open, NEW run, open \subseteq OfferIds
    PROVE  /\ IsFiniteSet(open) /\ Cardinality(open) \in Nat
           /\ IsFiniteSet(Busy(run)) /\ Cardinality(Busy(run)) \in Nat
<1>1. IsFiniteSet(OfferIds) /\ IsFiniteSet(TaskIds)
  BY BrokerAssumption
<1>2. Busy(run) \subseteq TaskIds
  BY DEF Busy
<1> QED BY <1>1, <1>2, FS_Subset, FS_CardinalityType

\* Fewer offers and no new task keep a runner within its limit.
LEMMA FitsWithLess ==
    ASSUME NEW open, NEW run, Fits(open, run),
           NEW less, NEW run2, less \subseteq open, run2 \in [TaskIds -> TaskStatus],
           Busy(run2) \subseteq Busy(run)
    PROVE  Fits(less, run2)
<1>1. open \subseteq OfferIds /\ less \subseteq OfferIds
  BY DEF Fits
<1>2. /\ IsFiniteSet(open) /\ IsFiniteSet(Busy(run))
      /\ Cardinality(open) \in Nat /\ Cardinality(Busy(run)) \in Nat
  BY <1>1, RunnerCounts
<1>3. Cardinality(less) \in Nat /\ Cardinality(Busy(run2)) \in Nat
  BY <1>1, RunnerCounts
<1>4. Cardinality(less) <= Cardinality(open)
  BY <1>2, FS_Subset
<1>5. Cardinality(Busy(run2)) <= Cardinality(Busy(run))
  BY <1>2, FS_Subset
<1>6. MaxConcurrency \in Nat
  BY BrokerAssumption
<1>7. Cardinality(open) + Cardinality(Busy(run)) <= MaxConcurrency
  BY DEF Fits
<1>8. Cardinality(less) + Cardinality(Busy(run2)) <= MaxConcurrency
  BY <1>2, <1>3, <1>4, <1>5, <1>6, <1>7
<1> QED BY <1>1, <1>8 DEF Fits

\* An accept takes one offer and starts at most one task.
LEMMA FitsAfterAccept ==
    ASSUME NEW open, NEW run, Fits(open, run), NEW o \in open, NEW t,
           NEW s \in TaskStatus
    PROVE  Fits(open \ {o}, [run EXCEPT ![t] = s])
<1> DEFINE run2 == [run EXCEPT ![t] = s]
<1>1. open \subseteq OfferIds /\ run \in [TaskIds -> TaskStatus]
  BY DEF Fits
<1>2. /\ IsFiniteSet(open) /\ IsFiniteSet(Busy(run))
      /\ Cardinality(open) \in Nat /\ Cardinality(Busy(run)) \in Nat
  BY <1>1, RunnerCounts
<1>3. run2 \in [TaskIds -> TaskStatus]
  BY <1>1
<1>4. Busy(run2) \subseteq Busy(run) \cup {t}
  BY <1>1 DEF Busy
<1>5. /\ IsFiniteSet(Busy(run) \cup {t})
      /\ Cardinality(Busy(run) \cup {t}) <= Cardinality(Busy(run)) + 1
  <2>1. /\ IsFiniteSet(Busy(run) \cup {t})
        /\ Cardinality(Busy(run) \cup {t}) =
             IF t \in Busy(run) THEN Cardinality(Busy(run)) ELSE Cardinality(Busy(run)) + 1
    BY <1>2, FS_AddElement
  <2> QED BY <1>2, <2>1
<1>6. Cardinality(Busy(run) \cup {t}) \in Nat
  BY <1>5, FS_CardinalityType
<1>7. Cardinality(open \ {o}) = Cardinality(open) - 1
  BY <1>2, FS_RemoveElement
<1> HIDE DEF run2
<1>8. Cardinality(Busy(run2)) \in Nat
  BY <1>1, RunnerCounts
<1>9. Cardinality(Busy(run2)) <= Cardinality(Busy(run) \cup {t})
  BY <1>4, <1>5, FS_Subset
<1>10. MaxConcurrency \in Nat
  BY BrokerAssumption
<1>11. Cardinality(open) + Cardinality(Busy(run)) <= MaxConcurrency
  BY DEF Fits
<1>12. Cardinality(open \ {o}) + Cardinality(Busy(run2)) <= MaxConcurrency
  BY <1>2, <1>5, <1>6, <1>7, <1>8, <1>9, <1>10, <1>11
<1>13. Fits(open \ {o}, run2)
  BY <1>1, <1>3, <1>12 DEF Fits
<1> QED BY <1>13 DEF run2

\* New offers fill what is left and no more.
LEMMA FitsAfterOffers ==
    ASSUME NEW r \in Runners, NEW open, NEW run, Fits(open, run),
           NEW fresh \in SUBSET OfferIds,
           Cardinality(fresh) <= OffersToSend(r, run, open)
    PROVE  Fits(open \cup fresh, run)
<1>1. open \subseteq OfferIds /\ run \in [TaskIds -> TaskStatus]
  BY DEF Fits
<1>2. /\ IsFiniteSet(open) /\ Cardinality(open) \in Nat
      /\ IsFiniteSet(fresh) /\ Cardinality(fresh) \in Nat
      /\ Cardinality(Busy(run)) \in Nat
  BY <1>1, RunnerCounts
<1>3. /\ IsFiniteSet(open \cap fresh)
      /\ Cardinality(open \cup fresh) =
           Cardinality(open) + Cardinality(fresh) - Cardinality(open \cap fresh)
  BY <1>2, FS_Union, FS_Intersection
<1>4. Cardinality(open \cap fresh) \in Nat
  BY <1>3, FS_CardinalityType
<1>5. MaxConcurrency \in Nat
  BY BrokerAssumption
<1>6. Cardinality(open) + Cardinality(Busy(run)) <= MaxConcurrency
  BY DEF Fits
<1>7. Cardinality(fresh) <= MaxConcurrency - (Cardinality(open) + Cardinality(Busy(run)))
  BY <1>2, <1>5, <1>6 DEF OffersToSend
<1>8. Cardinality(open \cup fresh) + Cardinality(Busy(run)) <= MaxConcurrency
  BY <1>2, <1>3, <1>4, <1>5, <1>6, <1>7
<1> QED BY <1>1, <1>8 DEF Fits

-----------------------------------------------------------------------------
(* The steps of a runner *)

\* A finite set in some order.
LEMMA SetToSeqIs ==
    ASSUME NEW S, IsFiniteSet(S)
    PROVE  SetToSeq(S) \in Seq(S)
<1>1. Cardinality(S) \in Nat /\ ExistsBijection(1..Cardinality(S), S)
  BY FS_CardinalityType
<1>2. \E f \in [1..Cardinality(S) -> S] : IsInjective(f)
  BY <1>1 DEF ExistsBijection, Bijection, Injection, Surjection
<1>3. SetToSeq(S) \in [1..Cardinality(S) -> S]
  BY <1>2 DEF SetToSeq
<1> QED BY <1>1, <1>3

\* sendOffers() leaves the runner within its limit, touches no other runner and
\* sends offers after the messages of its caller.
LEMMA SendOffersFits ==
    ASSUME NEW r \in Runners, NEW run, NEW out, Fits(openOffers[r], run),
           SendOffers(r, run, out)
    PROVE  /\ \E open : openOffers' = [openOffers EXCEPT ![r] = open] /\ Fits(open, run)
           /\ \E offers \in Seq(MessagesToBroker) :
                toBroker' = [toBroker EXCEPT ![r] = @ \o out \o offers]
<1>1. PICK stale \in SUBSET (IF "stale" \in Ops THEN openOffers[r] ELSE {}) :
        LET open == openOffers[r] \ stale
            free == FreeOffers(r)
            n == OffersToSend(r, run, open)
            size == IF n <= Cardinality(free) THEN n ELSE Cardinality(free)
            fresh == CHOOSE S \in SUBSET free : Cardinality(S) = size
            ids == SetToSeq(fresh)
        IN  /\ openOffers' = [openOffers EXCEPT ![r] = open \cup fresh]
            /\ toBroker' = [toBroker EXCEPT ![r] =
                              @ \o out \o [i \in DOMAIN ids |-> Message("offer", Nothing, ids[i])]]
  BY DEF SendOffers
<1> DEFINE open == openOffers[r] \ stale
           free == FreeOffers(r)
           n == OffersToSend(r, run, open)
           size == IF n <= Cardinality(free) THEN n ELSE Cardinality(free)
           fresh == CHOOSE S \in SUBSET free : Cardinality(S) = size
<1>2. Fits(open, run)
  <2>1. run \in [TaskIds -> TaskStatus] /\ open \subseteq openOffers[r]
    BY DEF Fits
  <2> HIDE DEF open
  <2> QED BY <2>1, FitsWithLess
<1>3. free \subseteq OfferIds
  BY DEF FreeOffers
<1> HIDE DEF free
<1>4. IsFiniteSet(free) /\ Cardinality(free) \in Nat
  BY <1>3, BrokerAssumption, FS_Subset, FS_CardinalityType
<1>5. n \in Nat
  <2>1. open \subseteq OfferIds
    BY <1>2 DEF Fits
  <2> HIDE DEF open
  <2>2. Cardinality(open) \in Nat /\ Cardinality(Busy(run)) \in Nat
    BY <2>1, RunnerCounts
  <2>3. MaxConcurrency \in Nat
    BY BrokerAssumption
  <2> QED BY <2>2, <2>3 DEF OffersToSend
<1> HIDE DEF open, n
<1>6. size \in Nat /\ size <= Cardinality(free) /\ size <= n
  BY <1>4, <1>5
<1> HIDE DEF size
<1>7. \E S \in SUBSET free : Cardinality(S) = size
  BY <1>4, <1>6, SubsetOfSize
<1>8. fresh \in SUBSET free /\ Cardinality(fresh) = size
  BY <1>7
<1> HIDE DEF fresh
<1>9. Fits(open \cup fresh, run)
  BY <1>2, <1>3, <1>6, <1>8, FitsAfterOffers DEF n
<1> DEFINE ids == SetToSeq(fresh)
           offers == [i \in DOMAIN ids |-> Message("offer", Nothing, ids[i])]
<1>10. /\ openOffers' = [openOffers EXCEPT ![r] = open \cup fresh]
       /\ toBroker' = [toBroker EXCEPT ![r] = @ \o out \o offers]
  BY <1>1 DEF open, free, n, size, fresh
<1>11. offers \in Seq(MessagesToBroker)
  <2>1. fresh \subseteq OfferIds /\ IsFiniteSet(fresh)
    BY <1>3, <1>4, <1>8, FS_Subset
  <2>2. ids \in Seq(OfferIds)
    BY <2>1, SetToSeqIs
  <2> HIDE DEF ids
  <2>3. \A i \in DOMAIN ids : Message("offer", Nothing, ids[i]) \in MessagesToBroker
    BY <2>2 DEF Message, MessagesToBroker
  <2>4. DOMAIN ids = 1..Len(ids) /\ Len(ids) \in Nat
    BY <2>2
  <2> QED BY <2>3, <2>4
<1> HIDE DEF offers
<1> QED BY <1>9, <1>10, <1>11

\* RunnerInv, runner by runner.
LEMMA RunnerInvIsFits ==
    RunnerInv <=> /\ openOffers = [r \in Runners |-> openOffers[r]]
                  /\ runningTasks = [r \in Runners |-> runningTasks[r]]
                  /\ \A r \in Runners : Fits(openOffers[r], runningTasks[r])
BY DEF RunnerInv, NoOvercommitment, Fits

\* A step that gives one runner tables within its limit preserves the invariant.
LEMMA OneRunnerMoves ==
    ASSUME RunnerInv, NEW r \in Runners, NEW open, NEW run, Fits(open, run),
           openOffers' = [openOffers EXCEPT ![r] = open],
           runningTasks' = [runningTasks EXCEPT ![r] = run]
    PROVE  RunnerInv'
<1>1. /\ openOffers' \in [Runners -> SUBSET OfferIds]
      /\ runningTasks' \in [Runners -> [TaskIds -> TaskStatus]]
  BY DEF RunnerInv, Fits
<1>2. ASSUME NEW q \in Runners
      PROVE  Cardinality(openOffers'[q]) + Cardinality(Busy(runningTasks'[q])) <= MaxConcurrency
  <2>1. CASE q = r
    <3>1. openOffers'[q] = open /\ runningTasks'[q] = run
      BY <2>1 DEF RunnerInv
    <3> QED BY <3>1 DEF Fits
  <2>2. CASE q # r
    <3>1. openOffers'[q] = openOffers[q] /\ runningTasks'[q] = runningTasks[q]
      BY <2>2 DEF RunnerInv
    <3> QED BY <3>1 DEF RunnerInv, NoOvercommitment
  <2> QED BY <2>1, <2>2
<1> QED BY <1>1, <1>2 DEF RunnerInv, NoOvercommitment, Busy

\* finishTask() frees a slot and offers it again.
LEMMA FinishTaskFits ==
    ASSUME RunnerInv, NEW r \in Runners, NEW t, NEW out, FinishTask(r, t, out)
    PROVE  RunnerInv'
<1> DEFINE run == [runningTasks[r] EXCEPT ![t] = "none"]
<1>1. Fits(openOffers[r], runningTasks[r])
  BY DEF RunnerInv, NoOvercommitment, Fits
<1>2. run \in [TaskIds -> TaskStatus]
  BY DEF RunnerInv, TaskStatus
<1>3. Busy(run) \subseteq Busy(runningTasks[r])
  BY DEF RunnerInv, Busy
<1>4. runningTasks' = [runningTasks EXCEPT ![r] = run]
  BY DEF FinishTask, SetTask
<1>5. SendOffers(r, run, out)
  BY DEF FinishTask
<1> HIDE DEF run
<1>6. Fits(openOffers[r], run)
  BY <1>1, <1>2, <1>3, FitsWithLess
<1>7. PICK open : openOffers' = [openOffers EXCEPT ![r] = open] /\ Fits(open, run)
  BY <1>5, <1>6, SendOffersFits
<1> QED BY <1>4, <1>7, OneRunnerMoves

\* A task that goes from one busy status to another takes no further slot.
LEMMA StatusChangeFits ==
    ASSUME RunnerInv, NEW r \in Runners, NEW t, NEW s \in TaskStatus,
           runningTasks[r][t] # "none",
           SetTask(r, t, s), UNCHANGED openOffers
    PROVE  RunnerInv'
<1> DEFINE run == [runningTasks[r] EXCEPT ![t] = s]
<1>1. Fits(openOffers[r], runningTasks[r])
  BY DEF RunnerInv, NoOvercommitment, Fits
<1>2. run \in [TaskIds -> TaskStatus]
  BY DEF RunnerInv
<1>3. Busy(run) \subseteq Busy(runningTasks[r])
  BY DEF RunnerInv, Busy
<1>4. runningTasks' = [runningTasks EXCEPT ![r] = run]
  BY DEF SetTask
<1>5. openOffers' = [openOffers EXCEPT ![r] = openOffers[r]]
  BY DEF RunnerInv
<1> HIDE DEF run
<1>6. Fits(openOffers[r], run)
  BY <1>1, <1>2, <1>3, FitsWithLess
<1> QED BY <1>4, <1>5, <1>6, OneRunnerMoves

\* A runner that loses its connection, or stops, promises nothing any more.
LEMMA RunnerGoneFits ==
    ASSUME RunnerInv, NEW r \in Runners, RunnerGone(r)
    PROVE  RunnerInv'
<1> DEFINE run == [t \in TaskIds |-> "none"]
<1>1. Fits(openOffers[r], runningTasks[r])
  BY DEF RunnerInv, NoOvercommitment, Fits
<1>2. run \in [TaskIds -> TaskStatus] /\ Busy(run) \subseteq Busy(runningTasks[r])
  BY DEF TaskStatus, Busy
<1>3. /\ runningTasks' = [runningTasks EXCEPT ![r] = run]
      /\ openOffers' = [openOffers EXCEPT ![r] = {}]
  BY DEF RunnerGone
<1> HIDE DEF run
<1>4. Fits({}, run)
  BY <1>1, <1>2, FitsWithLess
<1> QED BY <1>3, <1>4, OneRunnerMoves

\* offerAccepted(): a task is started only for an offer that is still open, and
\* that offer is gone with it.
LEMMA OfferAcceptedFits ==
    ASSUME RunnerInv, NEW r \in Runners, OfferAccepted(r)
    PROVE  RunnerInv'
<1> DEFINE m == Head(toRunner[r])
           open == openOffers[r] \ {m.offer}
<1>1. Fits(openOffers[r], runningTasks[r])
  BY DEF RunnerInv, NoOvercommitment, Fits
<1>2. CASE openOffers' = openOffers /\ runningTasks' = runningTasks
  BY <1>2 DEF RunnerInv, NoOvercommitment, Busy
<1>3. CASE /\ openOffers' = [openOffers EXCEPT ![r] = open]
           /\ runningTasks' = runningTasks
  <2>1. runningTasks' = [runningTasks EXCEPT ![r] = runningTasks[r]]
    BY <1>3 DEF RunnerInv
  <2>2. runningTasks[r] \in [TaskIds -> TaskStatus]
    BY DEF RunnerInv
  <2>3. open \subseteq openOffers[r]
    OBVIOUS
  <2> HIDE DEF open
  <2>4. Fits(open, runningTasks[r])
    BY <1>1, <2>2, <2>3, FitsWithLess
  <2> QED BY <1>3, <2>1, <2>4, OneRunnerMoves
<1>4. CASE /\ m.offer \in openOffers[r]
           /\ openOffers' = [openOffers EXCEPT ![r] = open]
           /\ SetTask(r, m.task, AcceptedStatus)
  <2> DEFINE run == [runningTasks[r] EXCEPT ![m.task] = AcceptedStatus]
  <2>1. runningTasks' = [runningTasks EXCEPT ![r] = run]
    BY <1>4 DEF SetTask
  <2>2. AcceptedStatus \in TaskStatus
    BY DEF AcceptedStatus, TaskStatus
  <2>3. Fits(open, run)
    <3> DEFINE o == m.offer
               t == m.task
    <3>1. o \in openOffers[r]
      BY <1>4
    <3> HIDE DEF o, t
    <3>2. Fits(openOffers[r] \ {o}, [runningTasks[r] EXCEPT ![t] = AcceptedStatus])
      BY <1>1, <2>2, <3>1, FitsAfterAccept
    <3> QED BY <3>2 DEF o, t
  <2> HIDE DEF open, run
  <2> QED BY <1>4, <2>1, <2>3, OneRunnerMoves
<1>5. \/ openOffers' = openOffers /\ runningTasks' = runningTasks
      \/ openOffers' = [openOffers EXCEPT ![r] = open] /\ runningTasks' = runningTasks
      \/ /\ m.offer \in openOffers[r]
         /\ openOffers' = [openOffers EXCEPT ![r] = open]
         /\ SetTask(r, m.task, AcceptedStatus)
  BY DEF OfferAccepted
<1> QED BY <1>2, <1>3, <1>4, <1>5

-----------------------------------------------------------------------------
(* The invariant *)

\* At the start no runner has offered anything.
LEMMA RunnerInvInit == BrokerInit => RunnerInv
<1> SUFFICES ASSUME BrokerInit PROVE RunnerInv
  OBVIOUS
<1>1. /\ openOffers = [r \in Runners |-> {}]
      /\ runningTasks = [r \in Runners |-> [t \in TaskIds |-> "none"]]
  BY DEF BrokerInit
<1>2. ASSUME NEW r \in Runners
      PROVE  openOffers[r] = {} /\ Busy(runningTasks[r]) = {}
  BY <1>1 DEF Busy
<1>3. Cardinality({}) = 0 /\ MaxConcurrency \in Nat
  BY FS_EmptySet, BrokerAssumption
<1>4. NoOvercommitment
  BY <1>2, <1>3 DEF NoOvercommitment
<1> QED BY <1>1, <1>4 DEF RunnerInv, TaskStatus

\* Every step of the broker, of a runner and of their timers preserves it.
LEMMA RunnerInvNext == RunnerInv /\ [Next]_vars => RunnerInv'
<1> SUFFICES ASSUME RunnerInv, [Next]_vars PROVE RunnerInv'
  OBVIOUS
<1>1. ASSUME UNCHANGED <<openOffers, runningTasks>> PROVE RunnerInv'
  BY <1>1 DEF RunnerInv, NoOvercommitment, Busy
<1>2. CASE UNCHANGED vars
  BY <1>1, <1>2 DEF vars, runnerVars
<1>3. ASSUME NEW q \in Requests, TaskRequested(q) \/ HandleRequestTimeout(q)
      PROVE  RunnerInv'
  BY <1>1, <1>3 DEF TaskRequested, HandleRequestTimeout, runnerVars
<1>4. ASSUME NEW t \in TaskIds, AcceptTimeout(t) \/ HandleTaskTimeout(t) \/ CancelTask(t)
      PROVE  RunnerInv'
  BY <1>1, <1>4 DEF AcceptTimeout, HandleTaskTimeout, CancelTask, runnerVars
<1>5. ASSUME NEW r \in Runners, RegisterRunner(r) PROVE RunnerInv'
  BY <1>1, <1>5 DEF RegisterRunner
<1>6. ASSUME NEW r \in Runners, Disconnect(r) \/ CloseRunner(r) PROVE RunnerInv'
  BY <1>6, RunnerGoneFits DEF Disconnect, CloseRunner
<1>7. ASSUME NEW r \in Runners, BrokerReceives(r) PROVE RunnerInv'
  BY <1>1, <1>7 DEF BrokerReceives, TaskOffered, HandleRunnerAccept, HandleRunnerReject,
                    HandleTaskEnd, runnerVars
<1>8. ASSUME NEW r \in Runners, OfferAccepted(r) PROVE RunnerInv'
  BY <1>8, OfferAcceptedFits
<1>9. ASSUME NEW r \in Runners, TaskCancelled(r) PROVE RunnerInv'
  <2> DEFINE t == Head(toRunner[r]).task
  <2>1. CASE FinishTask(r, t, <<>>)
    <3> HIDE DEF t
    <3> QED BY <2>1, FinishTaskFits
  <2>2. CASE /\ runningTasks[r][t] = "running" /\ SetTask(r, t, "aborting:cancelled")
             /\ UNCHANGED openOffers
    <3> HIDE DEF t
    <3>1. "aborting:cancelled" \in TaskStatus /\ runningTasks[r][t] # "none"
      BY <2>2 DEF TaskStatus
    <3> QED BY <2>2, <3>1, StatusChangeFits
  <2>3. CASE UNCHANGED <<openOffers, runningTasks>>
    BY <1>1, <2>3
  <2> QED BY <1>9, <2>1, <2>2, <2>3 DEF TaskCancelled
<1>10. ASSUME NEW r \in Runners, ReceivedSettings(r) PROVE RunnerInv'
  <2> DEFINE t == Head(toRunner[r]).task
  <2>1. CASE runningTasks[r][t] = "waitingForSettings" /\ SetTask(r, t, "running")
    <3>1. UNCHANGED openOffers
      BY <1>10 DEF ReceivedSettings
    <3> HIDE DEF t
    <3>2. "running" \in TaskStatus /\ runningTasks[r][t] # "none"
      BY <2>1 DEF TaskStatus
    <3> QED BY <2>1, <3>1, <3>2, StatusChangeFits
  <2>2. CASE UNCHANGED <<openOffers, runningTasks>>
    BY <1>1, <2>2
  <2> QED BY <1>10, <2>1, <2>2 DEF ReceivedSettings
<1>11. ASSUME NEW r \in Runners, Drained(r) PROVE RunnerInv'
  BY <1>1, <1>11 DEF Drained
<1>12. ASSUME NEW r \in Runners, OfferInterval(r) PROVE RunnerInv'
  <2>1. Fits(openOffers[r], runningTasks[r])
    BY DEF RunnerInv, NoOvercommitment, Fits
  <2>2. PICK open : /\ openOffers' = [openOffers EXCEPT ![r] = open]
                    /\ Fits(open, runningTasks[r])
    BY <1>12, <2>1, SendOffersFits DEF OfferInterval
  <2>3. runningTasks' = [runningTasks EXCEPT ![r] = runningTasks[r]]
    BY <1>12 DEF OfferInterval, RunnerInv
  <2> QED BY <2>2, <2>3, OneRunnerMoves
<1>13. ASSUME NEW r \in Runners, StopRunner(r) PROVE RunnerInv'
  <2>1. Fits(openOffers[r], runningTasks[r])
    BY DEF RunnerInv, NoOvercommitment, Fits
  <2>2. runningTasks[r] \in [TaskIds -> TaskStatus]
    BY DEF RunnerInv
  <2>3. Fits({}, runningTasks[r])
    BY <2>1, <2>2, FitsWithLess
  <2>4. /\ openOffers' = [openOffers EXCEPT ![r] = {}]
        /\ runningTasks' = [runningTasks EXCEPT ![r] = runningTasks[r]]
    BY <1>13 DEF StopRunner, RunnerInv
  <2> QED BY <2>3, <2>4, OneRunnerMoves
<1>14. ASSUME NEW r \in Runners, NEW t \in TaskIds, TaskTimedOut(r, t) PROVE RunnerInv'
  <2>1. CASE FinishTask(r, t, <<Message("error", t, Nothing)>>)
    BY <2>1, FinishTaskFits
  <2>2. CASE /\ runningTasks[r][t] = "running" /\ SetTask(r, t, "aborting:timeout")
             /\ UNCHANGED openOffers
    <3>1. "aborting:timeout" \in TaskStatus /\ runningTasks[r][t] # "none"
      BY <2>2 DEF TaskStatus
    <3> QED BY <2>2, <3>1, StatusChangeFits
  <2> QED BY <1>14, <2>1, <2>2 DEF TaskTimedOut
<1>15. ASSUME NEW r \in Runners, NEW t \in TaskIds, TaskExecuted(r, t) PROVE RunnerInv'
  BY <1>15, FinishTaskFits DEF TaskExecuted
<1>16. CASE StartDraining
  BY <1>1, <1>16 DEF StartDraining, runnerVars
<1> QED BY <1>2, <1>3, <1>4, <1>5, <1>6, <1>7, <1>8, <1>9, <1>10, <1>11, <1>12, <1>13, <1>14,
           <1>15, <1>16 DEF Next, RunnerReceives

\* NoOvercommitment for any number of runners, requests and tasks: whatever the
\* broker sends, and however late, the open offers and the tasks of a runner
\* together stay within maxConcurrency.
THEOREM RunnerKeepsItsPromises == Spec => []NoOvercommitment
<1>1. RunnerInv => NoOvercommitment
  BY DEF RunnerInv
<1> QED BY <1>1, RunnerInvInit, RunnerInvNext, PTL DEF Spec

-----------------------------------------------------------------------------
(* The loops over the broker's tables *)

\* A set of numbers that is not empty has a least one: induction, in a form
\* that needs no predicate for a parameter.
LEMMA LeastNumber ==
    ASSUME NEW T \in SUBSET Nat, T # {}
    PROVE  \E x \in T : \A y \in T : x <= y
<1> DEFINE R == OpToRel(<, Nat)
<1>1. IsWellFoundedOn(R, Nat)
  BY NatLessThanWellFounded
<1>2. \A x, y \in Nat : <<y, x>> \in R <=> y < x
  BY DEF OpToRel
<1> HIDE DEF R
<1>3. PICK x \in T : \A y \in T : ~(<<y, x>> \in R)
  BY <1>1, WFMin
<1>4. \A y \in T : ~(y < x)
  BY <1>2, <1>3
<1> QED BY <1>4

\* f[i] is what the loop of Without has kept after i turns.
IsKept(f, s, gone) ==
    f = [i \in 0..Len(s) |->
           IF i = 0 THEN <<>>
           ELSE IF s[i] \in gone THEN f[i - 1] ELSE Append(f[i - 1], s[i])]

\* The recursion of Without defines a function.
LEMMA KeptExists ==
    ASSUME NEW S, NEW s \in Seq(S), NEW gone
    PROVE  \E f : IsKept(f, s, gone)
<1> DEFINE Next1(x, i) == IF s[i] \in gone THEN x ELSE Append(x, s[i])
           Upto(k) == \E f : f = [i \in 0..k |-> IF i = 0 THEN <<>> ELSE Next1(f[i - 1], i)]
           T == {k \in 0..Len(s) : ~Upto(k)}
<1>1. Len(s) \in Nat
  OBVIOUS
<1>2. ASSUME T # {} PROVE FALSE
  <2>1. PICK k \in T : \A j \in T : k <= j
    <3>1. T \in SUBSET Nat
      BY <1>1
    <3> HIDE DEF T
    <3> QED BY <1>2, <3>1, LeastNumber
  <2>2. k \in 0..Len(s) /\ ~Upto(k)
    OBVIOUS
  <2> HIDE DEF Next1
  <2>3. k # 0
    <3> DEFINE f == [i \in 0..0 |-> <<>>]
    <3>1. f = [i \in 0..0 |-> IF i = 0 THEN <<>> ELSE Next1(f[i - 1], i)]
      OBVIOUS
    <3>2. Upto(0)
      BY <3>1
    <3> QED BY <2>2, <3>2
  <2>4. k - 1 \in 0..Len(s) /\ ~(k <= k - 1)
    BY <1>1, <2>2, <2>3
  <2>5. Upto(k - 1)
    <3> HIDE DEF Upto
    <3> QED BY <2>1, <2>4
  <2>6. PICK f : f = [i \in 0..(k - 1) |-> IF i = 0 THEN <<>> ELSE Next1(f[i - 1], i)]
    BY <2>5
  <2> DEFINE h == [i \in 0..k |-> IF i = k THEN Next1(f[k - 1], k) ELSE f[i]]
  <2>7. ASSUME NEW i \in 0..k
        PROVE  h[i] = IF i = 0 THEN <<>> ELSE Next1(h[i - 1], i)
    <3>1. CASE i = k
      <4>1. h[i] = Next1(f[k - 1], k) /\ h[i - 1] = f[k - 1]
        BY <2>2, <2>3, <3>1
      <4> QED BY <2>3, <3>1, <4>1
    <3>2. CASE i # k
      <4>1. i \in 0..(k - 1) /\ h[i] = f[i]
        BY <2>2, <3>2
      <4>2. f[i] = IF i = 0 THEN <<>> ELSE Next1(f[i - 1], i)
        BY <2>6, <4>1
      <4>3. i # 0 => i - 1 \in 0..k /\ i - 1 # k
        BY <2>2, <4>1
      <4>4. i # 0 => h[i - 1] = f[i - 1]
        BY <4>3
      <4> QED BY <4>1, <4>2, <4>4
    <3> QED BY <3>1, <3>2
  <2>8. h = [i \in 0..k |-> h[i]]
    OBVIOUS
  <2> HIDE DEF h
  <2>9. h = [i \in 0..k |-> IF i = 0 THEN <<>> ELSE Next1(h[i - 1], i)]
    BY <2>7, <2>8
  <2> QED BY <2>2, <2>9
<1>3. Upto(Len(s))
  <2> HIDE DEF Upto
  <2> QED BY <1>1, <1>2
<1> QED BY <1>3 DEF IsKept

\* Without(s, gone) is a sequence of what s holds outside gone.
LEMMA WithoutIs ==
    ASSUME NEW S, NEW s \in Seq(S), NEW gone
    PROVE  /\ Without(s, gone) \in Seq(S)
           /\ Range(Without(s, gone)) = Range(s) \ gone
<1> DEFINE f == CHOOSE g : IsKept(g, s, gone)
<1>1. f = [i \in 0..Len(s) |->
             IF i = 0 THEN <<>>
             ELSE IF s[i] \in gone THEN f[i - 1] ELSE Append(f[i - 1], s[i])]
  <2>1. IsKept(f, s, gone)
    BY KeptExists
  <2> HIDE DEF f
  <2> QED BY <2>1 DEF IsKept
<1>2. Without(s, gone) = f[Len(s)]
  BY DEF Without, IsKept
<1> HIDE DEF f
<1> DEFINE OK(i) == f[i] \in Seq(S) /\ Range(f[i]) = {s[j] : j \in 1..i} \ gone
           T == {i \in 0..Len(s) : ~OK(i)}
<1>3. Len(s) \in Nat
  OBVIOUS
<1>4. ASSUME T # {} PROVE FALSE
  <2>1. PICK k \in T : \A j \in T : k <= j
    <3>1. T \in SUBSET Nat
      BY <1>3
    <3> HIDE DEF T
    <3> QED BY <1>4, <3>1, LeastNumber
  <2>2. k \in 0..Len(s) /\ ~OK(k)
    OBVIOUS
  <2>3. k # 0
    <3>1. f[0] = <<>>
      BY <1>1, <1>3
    <3>2. OK(0)
      BY <3>1 DEF Range
    <3> QED BY <2>2, <3>2
  <2>4. k - 1 \in 0..Len(s) /\ ~(k <= k - 1) /\ k \in 1..Len(s)
    BY <1>3, <2>2, <2>3
  <2>5. OK(k - 1)
    <3> HIDE DEF OK
    <3> QED BY <2>1, <2>4
  <2>6. f[k] = IF s[k] \in gone THEN f[k - 1] ELSE Append(f[k - 1], s[k])
    BY <1>1, <2>2, <2>3
  <2>7. {s[j] : j \in 1..k} = {s[j] : j \in 1..(k - 1)} \cup {s[k]}
    BY <2>4
  <2>8. s[k] \in S
    BY <2>4
  <2>9. OK(k)
    <3>1. CASE s[k] \in gone
      BY <2>5, <2>6, <2>7, <3>1
    <3>2. CASE s[k] \notin gone
      <4> DEFINE x == f[k - 1]
                 e == s[k]
      <4>1. x \in Seq(S) /\ e \in S /\ f[k] = Append(x, e)
        BY <2>5, <2>6, <2>8, <3>2
      <4> HIDE DEF x, e
      <4>2. Range(Append(x, e)) = Range(x) \cup {e}
        BY <4>1 DEF Range
      <4>3. Append(x, e) \in Seq(S)
        BY <4>1
      <4>4. Range(f[k]) = Range(f[k - 1]) \cup {s[k]}
        BY <4>1, <4>2 DEF x, e
      <4> QED BY <2>5, <2>7, <3>2, <4>1, <4>3, <4>4
    <3> QED BY <3>1, <3>2
  <2> QED BY <2>2, <2>9
<1>5. OK(Len(s))
  <2> HIDE DEF OK
  <2> QED BY <1>3, <1>4
<1>6. Range(s) = {s[j] : j \in 1..Len(s)}
  BY DEF Range
<1> QED BY <1>2, <1>5, <1>6

-----------------------------------------------------------------------------
(* settleTasks() *)

\* What may be said of the loop of settleTasks() after any of its turns: it has
\* taken fresh task ids, one for each request it matched, none of which had an
\* accept under way, and has sent accepts and nothing else.
Settled(live, requests, g) ==
    /\ g.offers \in Seq(Offers) /\ Range(g.offers) \subseteq Range(live)
    /\ acceptInProgress \subseteq g.busy /\ g.busy \subseteq Requests
    /\ g.used \subseteq TaskIds \ UsedTasks
    /\ g.accepting \in [TaskIds -> Assignments \cup {Nothing}]
    /\ \A t \in TaskIds \ g.used : g.accepting[t] = accepting[t]
    /\ \A t \in g.used :
         /\ g.accepting[t] \in Assignments
         /\ g.accepting[t].request \in Range(requests)
         /\ g.accepting[t].request \in g.busy \ acceptInProgress
    /\ \A t, u \in g.used : g.accepting[t].request = g.accepting[u].request => t = u
    /\ g.out \in [Runners -> Seq(MessagesToRunner)]
    /\ \A r \in Runners :
         /\ Len(toRunner[r]) <= Len(g.out[r])
         /\ \A i \in 1..Len(toRunner[r]) : g.out[r][i] = toRunner[r][i]
         /\ \A i \in (Len(toRunner[r]) + 1)..Len(g.out[r]) :
              g.out[r][i].type = "accept" /\ g.out[r][i].task \in g.used

\* Before the first turn.
LEMMA SettledFirst ==
    ASSUME TablesTyped, NEW live \in Seq(Offers), NEW requests \in Seq(Requests)
    PROVE  Settled(live, requests, [offers |-> live, busy |-> acceptInProgress, used |-> {},
                                    accepting |-> accepting, out |-> toRunner])
BY DEF TablesTyped, Settled

\* An entry taken out of a sequence leaves a sequence of the others.
LEMMA RemoveAtIs ==
    ASSUME NEW S, NEW s \in Seq(S), NEW k \in 1..Len(s)
    PROVE  RemoveAt(s, k) \in Seq(S) /\ Range(RemoveAt(s, k)) \subseteq Range(s)
<1> DEFINE a == SubSeq(s, 1, k - 1)
           b == SubSeq(s, k + 1, Len(s))
<1>1. a \in Seq(S) /\ b \in Seq(S) /\ RemoveAt(s, k) = a \o b
  BY DEF RemoveAt
<1>2. Range(a) \subseteq Range(s) /\ Range(b) \subseteq Range(s)
  BY DEF Range
<1> HIDE DEF a, b
<1>3. Range(a \o b) \subseteq Range(a) \cup Range(b)
  BY <1>1 DEF Range
<1> QED BY <1>1, <1>2, <1>3

\* One turn.
LEMMA SettledTurn ==
    ASSUME TablesTyped, NEW live \in Seq(Offers), NEW requests \in Seq(Requests), NEW g,
           Settled(live, requests, g), NEW q \in Range(requests)
    PROVE  Settled(live, requests, MatchRequest(g, q))
<1> DEFINE fits == {i \in DOMAIN g.offers : TypeOf[g.offers[i].runner] = TypeOf[q]}
           free == TaskIds \ (UsedTasks \cup g.used)
           k == CHOOSE j \in fits : \A l \in fits : j <= l
           t == CHOOSE u \in free : TRUE
           o == g.offers[k]
           h == [offers |-> RemoveAt(g.offers, k),
                 busy |-> g.busy \cup {q},
                 used |-> g.used \cup {t},
                 accepting |-> [g.accepting EXCEPT ![t] = [request |-> q, runner |-> o.runner]],
                 out |-> [g.out EXCEPT ![o.runner] = Append(@, Message("accept", t, o.offer))]]
<1>1. CASE q \in g.busy \/ fits = {} \/ free = {}
  <2>1. MatchRequest(g, q) = g
    BY <1>1 DEF MatchRequest
  <2> QED BY <2>1
<1>2. CASE ~(q \in g.busy \/ fits = {} \/ free = {})
  <2>1. MatchRequest(g, q) = h
    BY <1>2 DEF MatchRequest
  <2>2. g.offers \in Seq(Offers) /\ q \in Requests
    BY DEF Settled, Range
  <2>3. k \in fits
    <3>1. fits \in SUBSET Nat /\ fits # {}
      BY <1>2, <2>2
    <3> HIDE DEF fits
    <3>2. \E j \in fits : \A l \in fits : j <= l
      BY <3>1, LeastNumber
    <3> QED BY <3>2
  <2>4. t \in free
    BY <1>2
  <2>5. k \in 1..Len(g.offers) /\ o \in Offers
    <3> HIDE DEF k
    <3>1. k \in DOMAIN g.offers
      BY <2>3
    <3> QED BY <2>2, <3>1
  <2>6. /\ t \in TaskIds /\ t \notin UsedTasks /\ t \notin g.used /\ q \notin g.busy
        /\ o.runner \in Runners /\ o.offer \in OfferIds
    BY <1>2, <2>4, <2>5 DEF Offers
  <2> HIDE DEF fits, free, k, t, o
  <2>7. RemoveAt(g.offers, k) \in Seq(Offers) /\ Range(RemoveAt(g.offers, k)) \subseteq Range(live)
    BY <2>2, <2>5, RemoveAtIs DEF Settled
  <2> DEFINE a == [request |-> q, runner |-> o.runner]
             m == Message("accept", t, o.offer)
  <2>8. a \in Assignments /\ a.request = q
    BY <2>2, <2>6 DEF Assignments
  <2>9. m \in MessagesToRunner /\ m.type = "accept" /\ m.task = t
    BY <2>6 DEF Message, MessagesToRunner
  <2> DEFINE acc == [g.accepting EXCEPT ![t] = a]
             out == [g.out EXCEPT ![o.runner] = Append(@, m)]
  <2>10. /\ acc \in [TaskIds -> Assignments \cup {Nothing}]
         /\ acc[t] = a /\ \A u \in TaskIds : u # t => acc[u] = g.accepting[u]
    <3> HIDE DEF a
    <3> QED BY <2>6, <2>8 DEF Settled
  <2>11. /\ out \in [Runners -> Seq(MessagesToRunner)]
         /\ out[o.runner] = Append(g.out[o.runner], m)
         /\ \A r \in Runners : r # o.runner => out[r] = g.out[r]
    <3> HIDE DEF m
    <3>1. g.out \in [Runners -> Seq(MessagesToRunner)]
      BY DEF Settled
    <3> QED BY <2>6, <2>9, <3>1
  <2>12. /\ h.offers = RemoveAt(g.offers, k) /\ h.busy = g.busy \cup {q}
         /\ h.used = g.used \cup {t} /\ h.accepting = acc /\ h.out = out
    OBVIOUS
  <2> HIDE DEF h, a, m, acc, out
  <2>13. \A u \in TaskIds \ h.used : h.accepting[u] = accepting[u]
    BY <2>10, <2>12 DEF Settled
  <2>14. ASSUME NEW u \in h.used
         PROVE  /\ h.accepting[u] \in Assignments
                /\ h.accepting[u].request \in Range(requests)
                /\ h.accepting[u].request \in h.busy \ acceptInProgress
    <3>1. CASE u = t
      BY <2>6, <2>8, <2>10, <2>12, <3>1 DEF Settled
    <3>2. CASE u # t
      <4>1. u \in g.used /\ u \in TaskIds /\ h.accepting[u] = g.accepting[u]
        BY <2>10, <2>12, <2>14, <3>2 DEF Settled
      <4> QED BY <2>12, <4>1 DEF Settled
    <3> QED BY <3>1, <3>2
  <2>15. ASSUME NEW u \in g.used
         PROVE  h.accepting[u] = g.accepting[u] /\ h.accepting[u].request # q
    <3>1. u # t /\ u \in TaskIds /\ g.accepting[u].request \in g.busy
      BY <2>6 DEF Settled
    <3> QED BY <2>6, <2>10, <2>12, <3>1
  <2>16. \A u, v \in h.used : h.accepting[u].request = h.accepting[v].request => u = v
    <3>1. \A u \in h.used : u = t \/ u \in g.used
      BY <2>12
    <3>2. h.accepting[t].request = q
      BY <2>8, <2>10, <2>12
    <3> QED BY <2>15, <3>1, <3>2 DEF Settled
  <2>17. ASSUME NEW r \in Runners
         PROVE  /\ Len(toRunner[r]) <= Len(h.out[r])
                /\ \A i \in 1..Len(toRunner[r]) : h.out[r][i] = toRunner[r][i]
                /\ \A i \in (Len(toRunner[r]) + 1)..Len(h.out[r]) :
                     h.out[r][i].type = "accept" /\ h.out[r][i].task \in h.used
    <3>1. /\ Len(toRunner[r]) <= Len(g.out[r])
          /\ \A i \in 1..Len(toRunner[r]) : g.out[r][i] = toRunner[r][i]
          /\ \A i \in (Len(toRunner[r]) + 1)..Len(g.out[r]) :
               g.out[r][i].type = "accept" /\ g.out[r][i].task \in g.used
          /\ g.out[r] \in Seq(MessagesToRunner) /\ toRunner[r] \in Seq(MessagesToRunner)
      BY DEF Settled, TablesTyped
    <3>2. CASE r # o.runner
      BY <2>11, <2>12, <3>1, <3>2
    <3>3. CASE r = o.runner
      <4> DEFINE x == g.out[r]
                 y == h.out[r]
      <4>1. y = Append(x, m) /\ x \in Seq(MessagesToRunner) /\ m \in MessagesToRunner
        BY <2>9, <2>11, <2>12, <3>1, <3>3
      <4> HIDE DEF x, y
      <4>2. /\ Len(y) = Len(x) + 1 /\ y[Len(x) + 1] = m /\ Len(x) \in Nat
            /\ \A i \in 1..Len(x) : y[i] = x[i]
        BY <4>1
      <4>3. Len(toRunner[r]) \in Nat /\ Len(toRunner[r]) <= Len(x)
        BY <3>1 DEF x
      <4>4. \A i \in 1..Len(toRunner[r]) : y[i] = toRunner[r][i]
        BY <3>1, <4>2, <4>3 DEF x
      <4>5. ASSUME NEW i \in (Len(toRunner[r]) + 1)..Len(y)
            PROVE  y[i].type = "accept" /\ y[i].task \in h.used
        <5>1. CASE i = Len(x) + 1
          BY <2>9, <2>12, <4>2, <5>1
        <5>2. CASE i # Len(x) + 1
          <6>1. i \in (Len(toRunner[r]) + 1)..Len(x) /\ i \in 1..Len(x)
            BY <4>2, <4>3, <5>2
          <6>2. x[i].type = "accept" /\ x[i].task \in g.used
            BY <3>1, <6>1 DEF x
          <6> QED BY <2>12, <4>2, <6>1, <6>2
        <5> QED BY <5>1, <5>2
      <4> QED BY <4>2, <4>3, <4>4, <4>5 DEF y
    <3> QED BY <3>2, <3>3
  <2>18. /\ h.used \subseteq TaskIds \ UsedTasks
         /\ acceptInProgress \subseteq h.busy /\ h.busy \subseteq Requests
         /\ h.offers \in Seq(Offers) /\ Range(h.offers) \subseteq Range(live)
         /\ h.accepting \in [TaskIds -> Assignments \cup {Nothing}]
         /\ h.out \in [Runners -> Seq(MessagesToRunner)]
    BY <2>2, <2>6, <2>7, <2>10, <2>11, <2>12 DEF Settled
  <2>19. Settled(live, requests, h)
    BY <2>13, <2>14, <2>16, <2>17, <2>18 DEF Settled
  <2> QED BY <2>1, <2>19
<1> QED BY <1>1, <1>2

\* f[i] is where the loop of settleTasks() is after i turns.
IsTurns(f, live, requests) ==
    f = [i \in 0..Len(requests) |->
           IF i = 0 THEN [offers |-> live, busy |-> acceptInProgress, used |-> {},
                          accepting |-> accepting, out |-> toRunner]
           ELSE MatchRequest(f[i - 1], requests[i])]

\* The recursion of MatchAll defines a function.
LEMMA TurnsExist ==
    ASSUME NEW live, NEW requests \in Seq(Requests)
    PROVE  \E f : IsTurns(f, live, requests)
<1> DEFINE base == [offers |-> live, busy |-> acceptInProgress, used |-> {},
                    accepting |-> accepting, out |-> toRunner]
           Upto(k) == \E f : f = [i \in 0..k |-> IF i = 0 THEN base
                                                ELSE MatchRequest(f[i - 1], requests[i])]
           T == {k \in 0..Len(requests) : ~Upto(k)}
<1>1. Len(requests) \in Nat
  OBVIOUS
<1>2. ASSUME T # {} PROVE FALSE
  <2> HIDE DEF base
  <2>1. PICK k \in T : \A j \in T : k <= j
    <3>1. T \in SUBSET Nat
      BY <1>1
    <3> HIDE DEF T
    <3> QED BY <1>2, <3>1, LeastNumber
  <2>2. k \in 0..Len(requests) /\ ~Upto(k)
    OBVIOUS
  <2>3. k # 0
    <3> DEFINE f == [i \in 0..0 |-> base]
    <3>1. f = [i \in 0..0 |-> IF i = 0 THEN base ELSE MatchRequest(f[i - 1], requests[i])]
      OBVIOUS
    <3>2. Upto(0)
      BY <3>1
    <3> QED BY <2>2, <3>2
  <2>4. k - 1 \in 0..Len(requests) /\ ~(k <= k - 1)
    BY <1>1, <2>2, <2>3
  <2>5. Upto(k - 1)
    <3> HIDE DEF Upto
    <3> QED BY <2>1, <2>4
  <2>6. PICK f : f = [i \in 0..(k - 1) |-> IF i = 0 THEN base
                                          ELSE MatchRequest(f[i - 1], requests[i])]
    BY <2>5
  <2> DEFINE h == [i \in 0..k |-> IF i = k THEN MatchRequest(f[k - 1], requests[k]) ELSE f[i]]
  <2>7. ASSUME NEW i \in 0..k
        PROVE  h[i] = IF i = 0 THEN base ELSE MatchRequest(h[i - 1], requests[i])
    <3>1. CASE i = k
      <4>1. h[i] = MatchRequest(f[k - 1], requests[k]) /\ h[i - 1] = f[k - 1]
        BY <2>2, <2>3, <3>1
      <4> QED BY <2>3, <3>1, <4>1
    <3>2. CASE i # k
      <4>1. i \in 0..(k - 1) /\ h[i] = f[i]
        BY <2>2, <3>2
      <4>2. f[i] = IF i = 0 THEN base ELSE MatchRequest(f[i - 1], requests[i])
        BY <2>6, <4>1
      <4>3. i # 0 => i - 1 \in 0..k /\ i - 1 # k
        BY <2>2, <4>1
      <4>4. i # 0 => h[i - 1] = f[i - 1]
        BY <4>3
      <4> QED BY <4>1, <4>2, <4>4
    <3> QED BY <3>1, <3>2
  <2>8. h = [i \in 0..k |-> h[i]]
    OBVIOUS
  <2> HIDE DEF h
  <2>9. h = [i \in 0..k |-> IF i = 0 THEN base ELSE MatchRequest(h[i - 1], requests[i])]
    BY <2>7, <2>8
  <2> QED BY <2>2, <2>9
<1>3. Upto(Len(requests))
  <2> HIDE DEF Upto
  <2> QED BY <1>1, <1>2
<1> QED BY <1>3 DEF IsTurns

\* The loop leaves what each of its turns leaves.
LEMMA MatchAllSettles ==
    ASSUME TablesTyped, NEW live \in Seq(Offers), NEW requests \in Seq(Requests)
    PROVE  Settled(live, requests, MatchAll(live, requests))
<1> DEFINE base == [offers |-> live, busy |-> acceptInProgress, used |-> {},
                    accepting |-> accepting, out |-> toRunner]
           f == CHOOSE g : IsTurns(g, live, requests)
<1>1. f = [i \in 0..Len(requests) |->
             IF i = 0 THEN base ELSE MatchRequest(f[i - 1], requests[i])]
  <2>1. IsTurns(f, live, requests)
    BY TurnsExist
  <2> HIDE DEF f
  <2> QED BY <2>1 DEF IsTurns
<1>2. MatchAll(live, requests) = f[Len(requests)]
  BY DEF MatchAll, IsTurns
<1> HIDE DEF f
<1> DEFINE OK(i) == Settled(live, requests, f[i])
           T == {i \in 0..Len(requests) : ~OK(i)}
<1>3. Len(requests) \in Nat
  OBVIOUS
<1>4. ASSUME T # {} PROVE FALSE
  <2>1. PICK k \in T : \A j \in T : k <= j
    <3>1. T \in SUBSET Nat
      BY <1>3
    <3> HIDE DEF T
    <3> QED BY <1>4, <3>1, LeastNumber
  <2>2. k \in 0..Len(requests) /\ ~OK(k)
    OBVIOUS
  <2>3. k # 0
    <3>1. f[0] = base
      BY <1>1, <1>3
    <3>2. Settled(live, requests, base)
      BY SettledFirst
    <3> HIDE DEF base
    <3> QED BY <2>2, <3>1, <3>2
  <2>4. k - 1 \in 0..Len(requests) /\ ~(k <= k - 1) /\ k \in 1..Len(requests)
    BY <1>3, <2>2, <2>3
  <2>5. OK(k - 1)
    <3> HIDE DEF OK
    <3> QED BY <2>1, <2>4
  <2>6. f[k] = MatchRequest(f[k - 1], requests[k])
    BY <1>1, <2>2, <2>3
  <2>7. requests[k] \in Range(requests)
    BY <2>4 DEF Range
  <2>8. Settled(live, requests, MatchRequest(f[k - 1], requests[k]))
    BY <2>5, <2>7, SettledTurn
  <2> QED BY <2>2, <2>6, <2>8
<1>5. OK(Len(requests))
  <2> HIDE DEF OK
  <2> QED BY <1>3, <1>4
<1> QED BY <1>2, <1>5

\* settleTasks() as a step of the broker: it takes the ids used, which were
\* nowhere, for requests that had no accept under way.
SettledTo(offers, requests, used) ==
    /\ pendingOffers' \in Seq(Offers) /\ Range(pendingOffers') \subseteq Range(offers)
    /\ pendingRequests' = requests
    /\ acceptInProgress \subseteq acceptInProgress' /\ acceptInProgress' \subseteq Requests
    /\ accepting' \in [TaskIds -> Assignments \cup {Nothing}]
    /\ owner' \in [TaskIds -> Requests \cup {Nothing}]
    /\ \A t \in TaskIds \ used : accepting'[t] = accepting[t] /\ owner'[t] = owner[t]
    /\ \A t \in used :
         /\ accepting'[t] \in Assignments /\ owner'[t] = accepting'[t].request
         /\ accepting'[t].request \in Range(requests)
         /\ accepting'[t].request \in acceptInProgress' \ acceptInProgress
    /\ \A t, u \in used : accepting'[t].request = accepting'[u].request => t = u
    /\ toRunner' \in [Runners -> Seq(MessagesToRunner)]
    /\ \A r \in Runners :
         /\ Len(toRunner[r]) <= Len(toRunner'[r])
         /\ \A i \in 1..Len(toRunner[r]) : toRunner'[r][i] = toRunner[r][i]
         /\ \A i \in (Len(toRunner[r]) + 1)..Len(toRunner'[r]) : toRunner'[r][i].type = "accept"

\* The step SettleTasks is one of those.
LEMMA SettleTasksSettles ==
    ASSUME TablesTyped, NEW offers \in Seq(Offers), NEW requests \in Seq(Requests),
           SettleTasks(offers, requests)
    PROVE  \E used \in SUBSET (TaskIds \ UsedTasks) : SettledTo(offers, requests, used)
<1>1. PICK stale :
        LET g == MatchAll(Without(offers, stale), requests)
        IN  /\ pendingOffers' = g.offers
            /\ pendingRequests' = requests
            /\ acceptInProgress' = g.busy
            /\ accepting' = g.accepting
            /\ owner' = [t \in TaskIds |-> IF t \in g.used THEN g.accepting[t].request
                                           ELSE owner[t]]
            /\ toRunner' = g.out
  BY DEF SettleTasks
<1> DEFINE live == Without(offers, stale)
           g == MatchAll(live, requests)
<1>2. live \in Seq(Offers) /\ Range(live) \subseteq Range(offers)
  BY WithoutIs
<1>3. Settled(live, requests, g)
  <2> HIDE DEF live
  <2> QED BY <1>2, MatchAllSettles
<1>4. /\ pendingOffers' = g.offers /\ pendingRequests' = requests
      /\ acceptInProgress' = g.busy /\ accepting' = g.accepting /\ toRunner' = g.out
      /\ owner' = [t \in TaskIds |-> IF t \in g.used THEN g.accepting[t].request ELSE owner[t]]
  BY <1>1
<1> HIDE DEF g, live
<1>5. g.used \in SUBSET (TaskIds \ UsedTasks)
  BY <1>3 DEF Settled
<1>6. \A t \in g.used : owner'[t] = accepting'[t].request
  BY <1>4, <1>5
<1>7. \A t \in TaskIds \ g.used : owner'[t] = owner[t]
  BY <1>4
<1>8. owner' \in [TaskIds -> Requests \cup {Nothing}]
  <2>1. ASSUME NEW t \in g.used PROVE g.accepting[t].request \in Requests
    BY <1>3 DEF Settled
  <2> QED BY <1>4, <2>1 DEF TablesTyped
<1>9. SettledTo(offers, requests, g.used)
  BY <1>2, <1>3, <1>4, <1>6, <1>7, <1>8 DEF Settled, SettledTo
<1> QED BY <1>5, <1>9

-----------------------------------------------------------------------------
(* Settings *)

\* Settings under way were under way before the step, in the same order.
ChannelsKeep ==
    \A r \in Runners : \E d \in Nat : \A i \in DOMAIN toRunner'[r] :
        toRunner'[r][i].type = "settings" =>
            i + d \in DOMAIN toRunner[r] /\ toRunner[r][i + d] = toRunner'[r][i]

NotStarted == {"none", "waitingForSettings"}

\* Settings that were sent once are there once.
LEMMA SettingsOnceKept ==
    ASSUME TablesTyped, SettingsOnce, TablesTyped', ChannelsKeep,
           \A r \in Runners : \A i \in DOMAIN toRunner[r] : IsSettings(r, i) =>
             owner'[toRunner[r][i].task] = owner[toRunner[r][i].task]
    PROVE  SettingsOnce'
<1> SUFFICES ASSUME NEW r \in Runners, NEW s \in Runners,
                    NEW i \in DOMAIN toRunner'[r], NEW j \in DOMAIN toRunner'[s],
                    toRunner'[r][i].type = "settings", toRunner'[s][j].type = "settings",
                    owner'[toRunner'[r][i].task] = owner'[toRunner'[s][j].task]
             PROVE  r = s /\ i = j
  BY DEF SettingsOnce, IsSettings
<1>1. PICK d \in Nat : \A k \in DOMAIN toRunner'[r] : toRunner'[r][k].type = "settings" =>
          k + d \in DOMAIN toRunner[r] /\ toRunner[r][k + d] = toRunner'[r][k]
  BY DEF ChannelsKeep
<1>2. PICK e \in Nat : \A k \in DOMAIN toRunner'[s] : toRunner'[s][k].type = "settings" =>
          k + e \in DOMAIN toRunner[s] /\ toRunner[s][k + e] = toRunner'[s][k]
  BY DEF ChannelsKeep
<1>3. /\ i + d \in DOMAIN toRunner[r] /\ toRunner[r][i + d] = toRunner'[r][i]
      /\ j + e \in DOMAIN toRunner[s] /\ toRunner[s][j + e] = toRunner'[s][j]
  BY <1>1, <1>2
<1>4. owner[toRunner[r][i + d].task] = owner[toRunner[s][j + e].task]
  BY <1>3 DEF IsSettings
<1>5. r = s /\ i + d = j + e
  BY <1>3, <1>4 DEF SettingsOnce, IsSettings
<1>6. i + e \in DOMAIN toRunner[s] /\ toRunner[s][i + e] = toRunner'[s][i]
  BY <1>2, <1>5
<1>7. i + e = j + e
  BY <1>3, <1>4, <1>5, <1>6 DEF SettingsOnce, IsSettings
<1>8. i \in Nat /\ j \in Nat
  <2>1. toRunner' \in [Runners -> Seq(MessagesToRunner)]
    BY DEF TablesTyped
  <2>2. toRunner'[r] \in Seq(MessagesToRunner) /\ toRunner'[s] \in Seq(MessagesToRunner)
    BY <2>1
  <2> QED BY <2>2
<1> QED BY <1>5, <1>7, <1>8

\* A step that sends no settings and starts nothing preserves what is said of
\* settings.
LEMMA SettingsKept ==
    ASSUME TablesTyped, SettingsInv, TablesTyped', ChannelsKeep, executions' = executions,
           \A r \in Runners : \A i \in DOMAIN toRunner[r] : IsSettings(r, i) =>
             owner'[toRunner[r][i].task] = owner[toRunner[r][i].task],
           \A q \in Requests : answer[q] \notin Unanswered => answer'[q] \notin Unanswered,
           \A r \in Runners, t \in TaskIds :
             runningTasks'[r][t] \notin NotStarted => runningTasks[r][t] \notin NotStarted,
           \A t \in TaskIds : accepting'[t] # Nothing =>
             accepting[t] # Nothing \/ t \notin UsedTasks
    PROVE  SettingsInv'
<1>1. AcceptedNotStarted'
  <2> SUFFICES ASSUME NEW t \in TaskIds, NEW r \in Runners, accepting'[t] # Nothing
               PROVE  /\ runningTasks'[r][t] \in NotStarted
                      /\ \A i \in DOMAIN toRunner'[r] :
                           toRunner'[r][i].type = "settings" => toRunner'[r][i].task # t
    BY DEF AcceptedNotStarted, IsSettings, NotStarted
  <2>1. CASE accepting[t] # Nothing
    <3>1. /\ runningTasks[r][t] \in NotStarted
          /\ \A i \in DOMAIN toRunner[r] :
               toRunner[r][i].type = "settings" => toRunner[r][i].task # t
      BY <2>1 DEF SettingsInv, AcceptedNotStarted, IsSettings, NotStarted
    <3> QED BY <3>1 DEF ChannelsKeep
  <2>2. CASE t \notin UsedTasks
    <3>1. /\ runningTasks[r][t] = "none"
          /\ \A i \in DOMAIN toRunner[r] : toRunner[r][i].task # t
      BY <2>2 DEF UsedTasks, Range
    <3> QED BY <3>1 DEF ChannelsKeep, NotStarted
  <2> QED BY <2>1, <2>2
<1>2. SettingsBeforeStart'
  <2> SUFFICES ASSUME NEW r \in Runners, NEW i \in DOMAIN toRunner'[r],
                      toRunner'[r][i].type = "settings"
               PROVE  LET q == owner'[toRunner'[r][i].task] IN
                      q \in Requests /\ answer'[q] \notin Unanswered /\ executions'[q] = 0
    BY DEF SettingsBeforeStart, IsSettings
  <2>1. PICK j \in DOMAIN toRunner[r] : toRunner[r][j] = toRunner'[r][i]
    BY DEF ChannelsKeep
  <2>2. owner'[toRunner[r][j].task] = owner[toRunner[r][j].task]
    BY <2>1 DEF IsSettings
  <2>3. LET q == owner[toRunner[r][j].task] IN
        q \in Requests /\ answer[q] \notin Unanswered /\ executions[q] = 0
    BY <2>1 DEF SettingsInv, SettingsBeforeStart, IsSettings
  <2> QED BY <2>1, <2>2, <2>3
<1>3. SettingsOnce'
  BY SettingsOnceKept DEF SettingsInv
<1>4. StartedOnce'
  BY DEF SettingsInv, StartedOnce
<1>5. SettingsAreExpected'
  <2> SUFFICES ASSUME NEW r \in Runners, NEW i \in DOMAIN toRunner'[r],
                      toRunner'[r][i].type = "settings"
               PROVE  runningTasks'[r][toRunner'[r][i].task] \in NotStarted
    BY DEF SettingsAreExpected, Range, NotStarted
  <2>1. PICK j \in DOMAIN toRunner[r] : toRunner[r][j] = toRunner'[r][i]
    BY DEF ChannelsKeep
  <2>2. runningTasks[r][toRunner[r][j].task] \in NotStarted
    BY <2>1 DEF SettingsInv, SettingsAreExpected, Range, NotStarted
  <2>3. toRunner[r][j] \in MessagesToRunner
    BY DEF TablesTyped
  <2>4. toRunner[r][j].task \in TaskIds
    BY <2>1, <2>3 DEF MessagesToRunner
  <2> QED BY <2>1, <2>2, <2>4
<1> QED BY <1>1, <1>2, <1>3, <1>4, <1>5 DEF SettingsInv

-----------------------------------------------------------------------------
(* The websockets *)

\* A socket to a runner that nobody uses.
LEMMA ChannelsUnchanged ==
    ASSUME TablesTyped, toRunner' = toRunner
    PROVE  ChannelsKeep
<1> SUFFICES ASSUME NEW r \in Runners
             PROVE  \A i \in DOMAIN toRunner'[r] :
                      i + 0 \in DOMAIN toRunner[r] /\ toRunner[r][i + 0] = toRunner'[r][i]
  BY DEF ChannelsKeep
<1>1. toRunner[r] \in Seq(MessagesToRunner)
  BY DEF TablesTyped
<1> QED BY <1>1

\* A runner takes its next message.
LEMMA TakeKeeps ==
    ASSUME TablesTyped, NEW r \in Runners, NEW type, Got(r, type), Take(r)
    PROVE  /\ ChannelsKeep /\ toRunner' \in [Runners -> Seq(MessagesToRunner)]
           /\ Head(toRunner[r]) \in MessagesToRunner /\ Head(toRunner[r]).type = type
<1>1. toRunner \in [Runners -> Seq(MessagesToRunner)]
  BY DEF TablesTyped
<1>2. toRunner[r] # <<>> /\ Head(toRunner[r]).type = type
  BY DEF Got
<1>3. toRunner' = [toRunner EXCEPT ![r] = Tail(toRunner[r])]
  BY DEF Take
<1>4. ASSUME NEW s \in Runners
      PROVE  \E d \in Nat : \A i \in DOMAIN toRunner'[s] :
               i + d \in DOMAIN toRunner[s] /\ toRunner[s][i + d] = toRunner'[s][i]
  <2>1. CASE s = r
    <3> DEFINE x == toRunner[r]
    <3>1. x \in Seq(MessagesToRunner) /\ x # <<>> /\ toRunner'[s] = Tail(x)
      BY <1>1, <1>2, <1>3, <2>1
    <3> HIDE DEF x
    <3>2. \A i \in DOMAIN Tail(x) : i + 1 \in DOMAIN x /\ x[i + 1] = Tail(x)[i]
      BY <3>1
    <3> QED BY <2>1, <3>1, <3>2 DEF x
  <2>2. CASE s # r
    <3>1. toRunner'[s] = toRunner[s] /\ toRunner[s] \in Seq(MessagesToRunner)
      BY <1>1, <1>3, <2>2
    <3>2. \A i \in DOMAIN toRunner'[s] :
            i + 0 \in DOMAIN toRunner[s] /\ toRunner[s][i + 0] = toRunner'[s][i]
      BY <3>1
    <3> QED BY <3>2
  <2> QED BY <2>1, <2>2
<1>5. ChannelsKeep
  BY <1>4 DEF ChannelsKeep
<1>6. Head(toRunner[r]) \in MessagesToRunner /\ Tail(toRunner[r]) \in Seq(MessagesToRunner)
  BY <1>1, <1>2
<1>7. toRunner' \in [Runners -> Seq(MessagesToRunner)]
  BY <1>1, <1>3, <1>6
<1> QED BY <1>2, <1>5, <1>6, <1>7

\* The broker sends a runner something that is not its settings.
LEMMA SendKeeps ==
    ASSUME TablesTyped, NEW r \in Runners, NEW m \in MessagesToRunner, m.type # "settings",
           toRunner' = [toRunner EXCEPT ![r] = Append(@, m)]
    PROVE  ChannelsKeep /\ toRunner' \in [Runners -> Seq(MessagesToRunner)]
<1>1. toRunner \in [Runners -> Seq(MessagesToRunner)]
  BY DEF TablesTyped
<1>2. ASSUME NEW s \in Runners
      PROVE  \A i \in DOMAIN toRunner'[s] : toRunner'[s][i].type = "settings" =>
               i + 0 \in DOMAIN toRunner[s] /\ toRunner[s][i + 0] = toRunner'[s][i]
  <2>1. CASE s = r
    <3> DEFINE x == toRunner[r]
    <3>1. x \in Seq(MessagesToRunner) /\ toRunner'[s] = Append(x, m)
      BY <1>1, <2>1
    <3> HIDE DEF x
    <3>2. \A i \in DOMAIN Append(x, m) : Append(x, m)[i].type = "settings" =>
            i + 0 \in DOMAIN x /\ x[i + 0] = Append(x, m)[i]
      BY <3>1
    <3> QED BY <2>1, <3>1, <3>2 DEF x
  <2>2. CASE s # r
    <3>1. toRunner'[s] = toRunner[s] /\ toRunner[s] \in Seq(MessagesToRunner)
      BY <1>1, <2>2
    <3> QED BY <3>1
  <2> QED BY <2>1, <2>2
<1>3. ChannelsKeep
  BY <1>2 DEF ChannelsKeep
<1>4. toRunner' \in [Runners -> Seq(MessagesToRunner)]
  BY <1>1
<1> QED BY <1>3, <1>4

\* The broker takes the next message of a runner.
LEMMA ReceiveTyped ==
    ASSUME TablesTyped, NEW r \in Runners, NEW type, Received(r, type), Consume(r)
    PROVE  /\ toBroker' \in [Runners -> Seq(MessagesToBroker)]
           /\ Head(toBroker[r]) \in MessagesToBroker /\ Head(toBroker[r]).type = type
<1>1. toBroker \in [Runners -> Seq(MessagesToBroker)]
  BY DEF TablesTyped
<1>2. toBroker[r] # <<>> /\ Head(toBroker[r]).type = type
  BY DEF Received
<1>3. Head(toBroker[r]) \in MessagesToBroker /\ Tail(toBroker[r]) \in Seq(MessagesToBroker)
  BY <1>1, <1>2
<1>4. toBroker' \in [Runners -> Seq(MessagesToBroker)]
  BY <1>1, <1>3 DEF Consume
<1> QED BY <1>2, <1>3, <1>4

\* A message to a runner is about a task, unless it is the one to drain.
LEMMA TaskOfMessage ==
    /\ \A m \in MessagesToRunner : m.type # "drain" => m.task \in TaskIds
    /\ \A m \in MessagesToBroker : m.type # "offer" => m.task \in TaskIds
    /\ \A m \in MessagesToBroker : m.type = "offer" => m.offer \in OfferIds
BY DEF MessagesToRunner, MessagesToBroker

-----------------------------------------------------------------------------
(* Steps of a runner *)

\* A step of a runner that starts nothing.
LEMMA RunnerSide ==
    ASSUME TasksInv, RunnerInv', UNCHANGED <<brokerVars, answer, executions>>,
           ChannelsKeep, toRunner' \in [Runners -> Seq(MessagesToRunner)],
           toBroker' \in [Runners -> Seq(MessagesToBroker)],
           canSendOffers' \in [Runners -> BOOLEAN], isShuttingDown' \in [Runners -> BOOLEAN],
           \A r \in Runners, t \in TaskIds :
             runningTasks'[r][t] \notin NotStarted => runningTasks[r][t] \notin NotStarted
    PROVE  TasksInv'
<1>1. TablesTyped'
  BY DEF TasksInv, TablesTyped, RunnerInv, brokerVars
<1>2. RequestsInv'
  BY DEF TasksInv, RequestsInv, OffersOfKnown, PendingUnanswered, AcceptIsOwners,
         OneAcceptOrTask, OrphanMeansExpired, brokerVars
<1>3. SettingsInv'
  <2>1. UNCHANGED <<accepting, owner, answer>>
    BY DEF brokerVars
  <2> QED BY <1>1, <2>1, SettingsKept DEF TasksInv
<1> QED BY <1>1, <1>2, <1>3 DEF TasksInv

\* What sendOffers() sends is typed.
LEMMA SendOffersTyped ==
    ASSUME TablesTyped, RunnerInv, NEW r \in Runners, NEW run \in [TaskIds -> TaskStatus],
           Busy(run) \subseteq Busy(runningTasks[r]), NEW out \in Seq(MessagesToBroker),
           SendOffers(r, run, out)
    PROVE  toBroker' \in [Runners -> Seq(MessagesToBroker)]
<1>1. Fits(openOffers[r], runningTasks[r])
  BY DEF RunnerInv, NoOvercommitment, Fits
<1>2. Fits(openOffers[r], run)
  BY <1>1, FitsWithLess
<1>3. PICK offers \in Seq(MessagesToBroker) :
        toBroker' = [toBroker EXCEPT ![r] = @ \o out \o offers]
  BY <1>2, SendOffersFits
<1>4. toBroker \in [Runners -> Seq(MessagesToBroker)]
  BY DEF TablesTyped
<1>5. toBroker[r] \o out \o offers \in Seq(MessagesToBroker)
  BY <1>4
<1> QED BY <1>3, <1>4, <1>5

\* finishTask() starts nothing.
LEMMA FinishTaskTyped ==
    ASSUME TablesTyped, RunnerInv, NEW r \in Runners, NEW t \in TaskIds,
           NEW out \in Seq(MessagesToBroker), FinishTask(r, t, out)
    PROVE  /\ toBroker' \in [Runners -> Seq(MessagesToBroker)]
           /\ \A s \in Runners, u \in TaskIds :
                runningTasks'[s][u] \notin NotStarted => runningTasks[s][u] \notin NotStarted
<1> DEFINE run == [runningTasks[r] EXCEPT ![t] = "none"]
<1>1. run \in [TaskIds -> TaskStatus] /\ Busy(run) \subseteq Busy(runningTasks[r])
  BY DEF RunnerInv, TaskStatus, Busy
<1>2. SendOffers(r, run, out)
  BY DEF FinishTask
<1>3. toBroker' \in [Runners -> Seq(MessagesToBroker)]
  <2> HIDE DEF run
  <2> QED BY <1>1, <1>2, SendOffersTyped
<1>4. \A s \in Runners, u \in TaskIds :
        runningTasks'[s][u] = runningTasks[s][u] \/ runningTasks'[s][u] = "none"
  BY DEF FinishTask, SetTask, RunnerInv
<1> QED BY <1>3, <1>4 DEF NotStarted

\* offerAccepted() creates a task that waits for its settings.
LEMMA OfferAcceptedTasks ==
    ASSUME TasksInv, RunnerInv, RunnerInv', NEW r \in Runners, OfferAccepted(r)
    PROVE  TasksInv'
<1> DEFINE m == Head(toRunner[r])
<1>1. TablesTyped
  BY DEF TasksInv
<1>2. Got(r, "accept") /\ Take(r)
  BY DEF OfferAccepted
<1>3. /\ ChannelsKeep /\ toRunner' \in [Runners -> Seq(MessagesToRunner)]
      /\ m \in MessagesToRunner /\ m.type = "accept"
  BY <1>1, <1>2, TakeKeeps
<1>4. m.task \in TaskIds
  BY <1>3, TaskOfMessage
<1>5. toBroker' \in [Runners -> Seq(MessagesToBroker)]
  <2>1. PICK type \in {"accepted", "rejected"} :
          toBroker' = [toBroker EXCEPT ![r] = Append(@, Message(type, m.task, Nothing))]
    BY DEF OfferAccepted
  <2>2. Message(type, m.task, Nothing) \in MessagesToBroker
    BY <1>4 DEF Message, MessagesToBroker
  <2> QED BY <1>1, <2>1, <2>2 DEF TablesTyped
<1>6. UNCHANGED <<brokerVars, answer, executions, canSendOffers, isShuttingDown>>
  BY DEF OfferAccepted
<1>7. \A s \in Runners, t \in TaskIds :
        runningTasks'[s][t] = runningTasks[s][t] \/ runningTasks'[s][t] = AcceptedStatus
  BY DEF OfferAccepted, SetTask, RunnerInv
<1>8. AcceptedStatus \in NotStarted
  BY DEF AcceptedStatus, NotStarted
<1>9. canSendOffers' \in [Runners -> BOOLEAN] /\ isShuttingDown' \in [Runners -> BOOLEAN]
  BY <1>1, <1>6 DEF TablesTyped
<1> QED BY <1>3, <1>5, <1>6, <1>7, <1>8, <1>9, RunnerSide

\* A cancel ends a task or marks it; it starts nothing.
LEMMA TaskCancelledTasks ==
    ASSUME TasksInv, RunnerInv, RunnerInv', NEW r \in Runners, TaskCancelled(r)
    PROVE  TasksInv'
<1> DEFINE m == Head(toRunner[r])
           t == m.task
<1>1. TablesTyped
  BY DEF TasksInv
<1>2. Got(r, "cancel") /\ Take(r)
  BY DEF TaskCancelled
<1>3. /\ ChannelsKeep /\ toRunner' \in [Runners -> Seq(MessagesToRunner)]
      /\ m \in MessagesToRunner /\ m.type = "cancel"
  BY <1>1, <1>2, TakeKeeps
<1>4. t \in TaskIds
  BY <1>3, TaskOfMessage
<1>5. /\ UNCHANGED <<brokerVars, answer, executions>>
      /\ canSendOffers' \in [Runners -> BOOLEAN] /\ isShuttingDown' \in [Runners -> BOOLEAN]
  BY <1>1 DEF TaskCancelled, TablesTyped
<1>6. \/ FinishTask(r, t, <<>>)
      \/ /\ runningTasks[r][t] = "running" /\ SetTask(r, t, "aborting:cancelled")
         /\ UNCHANGED toBroker
      \/ UNCHANGED <<runningTasks, toBroker>>
  BY DEF TaskCancelled
<1> HIDE DEF t
<1>7. /\ toBroker' \in [Runners -> Seq(MessagesToBroker)]
      /\ \A s \in Runners, u \in TaskIds :
           runningTasks'[s][u] \notin NotStarted => runningTasks[s][u] \notin NotStarted
  <2>1. CASE FinishTask(r, t, <<>>)
    <3>1. <<>> \in Seq(MessagesToBroker)
      OBVIOUS
    <3> QED BY <1>1, <1>4, <2>1, <3>1, FinishTaskTyped
  <2>2. CASE /\ runningTasks[r][t] = "running" /\ SetTask(r, t, "aborting:cancelled")
             /\ UNCHANGED toBroker
    BY <1>1, <2>2 DEF SetTask, TablesTyped, NotStarted
  <2>3. CASE UNCHANGED <<runningTasks, toBroker>>
    BY <1>1, <2>3 DEF TablesTyped
  <2> QED BY <1>6, <2>1, <2>2, <2>3
<1> QED BY <1>3, <1>5, <1>7, RunnerSide

\* The runner's own timer and the end of the user's code.
LEMMA TaskEndsTasks ==
    ASSUME TasksInv, RunnerInv, RunnerInv', NEW r \in Runners, NEW t \in TaskIds,
           TaskTimedOut(r, t) \/ TaskExecuted(r, t)
    PROVE  TasksInv'
<1>1. TablesTyped
  BY DEF TasksInv
<1>2. /\ UNCHANGED <<brokerVars, answer, executions, toRunner>>
      /\ canSendOffers' \in [Runners -> BOOLEAN] /\ isShuttingDown' \in [Runners -> BOOLEAN]
  BY <1>1 DEF TaskTimedOut, TaskExecuted, TablesTyped
<1>3. ChannelsKeep /\ toRunner' \in [Runners -> Seq(MessagesToRunner)]
  BY <1>1, <1>2, ChannelsUnchanged DEF TablesTyped
<1>4. \/ FinishTask(r, t, <<>>)
      \/ \E type \in {"done", "error"} : FinishTask(r, t, <<Message(type, t, Nothing)>>)
      \/ /\ runningTasks[r][t] = "running" /\ SetTask(r, t, "aborting:timeout")
         /\ UNCHANGED toBroker
  BY DEF TaskTimedOut, TaskExecuted
<1>5. /\ toBroker' \in [Runners -> Seq(MessagesToBroker)]
      /\ \A s \in Runners, u \in TaskIds :
           runningTasks'[s][u] \notin NotStarted => runningTasks[s][u] \notin NotStarted
  <2>1. CASE FinishTask(r, t, <<>>)
    <3>1. <<>> \in Seq(MessagesToBroker)
      OBVIOUS
    <3> QED BY <1>1, <2>1, <3>1, FinishTaskTyped
  <2>2. ASSUME NEW type \in {"done", "error"}, FinishTask(r, t, <<Message(type, t, Nothing)>>)
        PROVE  <1>5!:
    <3> DEFINE m == Message(type, t, Nothing)
    <3>1. m \in MessagesToBroker
      BY DEF Message, MessagesToBroker
    <3> HIDE DEF m
    <3>2. <<m>> \in Seq(MessagesToBroker)
      BY <3>1
    <3>3. FinishTask(r, t, <<m>>)
      BY <2>2 DEF m
    <3> QED BY <1>1, <3>2, <3>3, FinishTaskTyped
  <2>3. CASE /\ runningTasks[r][t] = "running" /\ SetTask(r, t, "aborting:timeout")
             /\ UNCHANGED toBroker
    BY <1>1, <2>3 DEF SetTask, TablesTyped, NotStarted
  <2> QED BY <1>4, <2>1, <2>2, <2>3
<1> QED BY <1>2, <1>3, <1>5, RunnerSide

\* Offers, draining and stopping touch no task.
LEMMA RunnerIdleTasks ==
    ASSUME TasksInv, RunnerInv, RunnerInv', NEW r \in Runners,
           Drained(r) \/ OfferInterval(r) \/ StopRunner(r)
    PROVE  TasksInv'
<1>1. TablesTyped
  BY DEF TasksInv
<1>2. /\ UNCHANGED <<brokerVars, answer, executions, runningTasks>>
      /\ canSendOffers' \in [Runners -> BOOLEAN] /\ isShuttingDown' \in [Runners -> BOOLEAN]
  BY <1>1 DEF Drained, OfferInterval, StopRunner, TablesTyped
<1>3. ChannelsKeep /\ toRunner' \in [Runners -> Seq(MessagesToRunner)]
  <2>1. CASE Drained(r)
    BY <1>1, <2>1, TakeKeeps DEF Drained
  <2>2. CASE OfferInterval(r) \/ StopRunner(r)
    <3>1. toRunner' = toRunner
      BY <2>2 DEF OfferInterval, StopRunner
    <3> QED BY <1>1, <3>1, ChannelsUnchanged DEF TablesTyped
  <2> QED BY <2>1, <2>2
<1>4. toBroker' \in [Runners -> Seq(MessagesToBroker)]
  <2>1. CASE OfferInterval(r)
    <3>1. SendOffers(r, runningTasks[r], <<>>)
      BY <2>1 DEF OfferInterval
    <3>2. /\ <<>> \in Seq(MessagesToBroker) /\ runningTasks[r] \in [TaskIds -> TaskStatus]
          /\ Busy(runningTasks[r]) \subseteq Busy(runningTasks[r])
      BY <1>1 DEF TablesTyped
    <3> QED BY <1>1, <3>1, <3>2, SendOffersTyped
  <2>2. CASE Drained(r) \/ StopRunner(r)
    BY <1>1, <2>2 DEF Drained, StopRunner, TablesTyped
  <2> QED BY <2>1, <2>2
<1> QED BY <1>2, <1>3, <1>4, RunnerSide

\* receivedSettings() starts the code of a request for the first time: its
\* settings were under way once, and are gone.
LEMMA ReceivedSettingsTasks ==
    ASSUME TasksInv, RunnerInv, RunnerInv', NEW r \in Runners, ReceivedSettings(r)
    PROVE  TasksInv'
<1> DEFINE m == Head(toRunner[r])
           t == m.task
           q == owner[t]
<1>1. TablesTyped
  BY DEF TasksInv
<1>2. Got(r, "settings") /\ Take(r)
  BY DEF ReceivedSettings
<1>3. /\ ChannelsKeep /\ toRunner' \in [Runners -> Seq(MessagesToRunner)]
      /\ m \in MessagesToRunner /\ m.type = "settings"
  BY <1>1, <1>2, TakeKeeps
<1>4. t \in TaskIds
  BY <1>3, TaskOfMessage
<1>5. /\ UNCHANGED <<brokerVars, answer, toBroker>>
      /\ toBroker' \in [Runners -> Seq(MessagesToBroker)]
      /\ canSendOffers' \in [Runners -> BOOLEAN] /\ isShuttingDown' \in [Runners -> BOOLEAN]
  BY <1>1 DEF ReceivedSettings, TablesTyped
<1>6. CASE UNCHANGED <<runningTasks, executions>>
  BY <1>3, <1>5, <1>6, RunnerSide
<1>7. CASE /\ SetTask(r, t, "running")
           /\ executions' = [executions EXCEPT ![q] = @ + 1]
  <2>1. /\ toRunner[r] \in Seq(MessagesToRunner) /\ toRunner[r] # <<>>
        /\ toRunner' = [toRunner EXCEPT ![r] = Tail(toRunner[r])]
    BY <1>1, <1>2 DEF TablesTyped, Got, Take
  <2>2. 1 \in DOMAIN toRunner[r] /\ toRunner[r][1] = m
    BY <2>1
  <2> HIDE DEF m, t
  <2>3. q \in Requests /\ answer[q] \notin Unanswered /\ executions[q] = 0
    BY <1>3, <2>2 DEF TasksInv, SettingsInv, SettingsBeforeStart, IsSettings, t
  <2>4. accepting[t] = Nothing
    BY <1>3, <1>4, <2>2 DEF TasksInv, SettingsInv, AcceptedNotStarted, IsSettings, t
  <2> HIDE DEF q
  <2>5. executions' \in [Requests -> Nat] /\ executions'[q] = 1
        /\ \A p \in Requests : p # q => executions'[p] = executions[p]
    BY <1>1, <1>7, <2>3 DEF TablesTyped
  <2>6. TablesTyped'
    BY <1>1, <1>3, <1>5, <2>5 DEF TablesTyped, RunnerInv, brokerVars
  <2>7. UNCHANGED <<accepting, tasks, owner, pendingRequests, acceptInProgress, known,
                    pendingOffers, answer>>
    BY <1>5 DEF brokerVars
  <2>8. RequestsInv'
    BY <2>7 DEF TasksInv, RequestsInv, OffersOfKnown, PendingUnanswered, AcceptIsOwners,
                OneAcceptOrTask, OrphanMeansExpired
  <2>9. ASSUME NEW s \in Runners, NEW i \in DOMAIN toRunner'[s],
               toRunner'[s][i].type = "settings"
        PROVE  /\ \E j \in DOMAIN toRunner[s] : toRunner[s][j] = toRunner'[s][i]
               /\ owner[toRunner'[s][i].task] # q
    <3>1. PICK j \in DOMAIN toRunner[s] : toRunner[s][j] = toRunner'[s][i] /\ (s # r \/ j # 1)
      <4>1. CASE s = r
        <5> DEFINE x == toRunner[r]
        <5>1. x \in Seq(MessagesToRunner) /\ x # <<>> /\ toRunner'[r] = Tail(x)
          BY <1>1, <2>1 DEF TablesTyped
        <5> HIDE DEF x
        <5>2. \A k \in DOMAIN Tail(x) : k + 1 \in DOMAIN x /\ x[k + 1] = Tail(x)[k] /\ k + 1 # 1
          BY <5>1
        <5> QED BY <2>9, <4>1, <5>1, <5>2 DEF x
      <4>2. CASE s # r
        <5>1. toRunner'[s] = toRunner[s]
          BY <1>1, <2>1, <4>2 DEF TablesTyped
        <5> QED BY <4>2, <5>1
      <4> QED BY <4>1, <4>2
    <3>2. owner[toRunner[s][j].task] # owner[toRunner[r][1].task]
      BY <1>3, <2>2, <2>9, <3>1 DEF TasksInv, SettingsInv, SettingsOnce, IsSettings
    <3> QED BY <2>2, <3>1, <3>2 DEF q, t
  <2>10. \A s \in Runners, u \in TaskIds : s # r \/ u # t =>
           runningTasks'[s][u] = runningTasks[s][u]
    BY <1>1, <1>7 DEF SetTask, TablesTyped
  <2>11. AcceptedNotStarted'
    <3> SUFFICES ASSUME NEW u \in TaskIds, NEW s \in Runners, accepting'[u] # Nothing
                 PROVE  /\ runningTasks'[s][u] \in {"none", "waitingForSettings"}
                        /\ \A i \in DOMAIN toRunner'[s] :
                             toRunner'[s][i].type = "settings" => toRunner'[s][i].task # u
      BY DEF AcceptedNotStarted, IsSettings
    <3>1. accepting[u] # Nothing /\ u # t
      BY <2>4, <2>7
    <3>2. /\ runningTasks[s][u] \in {"none", "waitingForSettings"}
          /\ \A i \in DOMAIN toRunner[s] :
               toRunner[s][i].type = "settings" => toRunner[s][i].task # u
      BY <3>1 DEF TasksInv, SettingsInv, AcceptedNotStarted, IsSettings
    <3> QED BY <2>9, <2>10, <3>1, <3>2
  <2>12. SettingsBeforeStart'
    <3> SUFFICES ASSUME NEW s \in Runners, NEW i \in DOMAIN toRunner'[s],
                        toRunner'[s][i].type = "settings"
                 PROVE  LET p == owner'[toRunner'[s][i].task] IN
                        p \in Requests /\ answer'[p] \notin Unanswered /\ executions'[p] = 0
      BY DEF SettingsBeforeStart, IsSettings
    <3>1. PICK j \in DOMAIN toRunner[s] : toRunner[s][j] = toRunner'[s][i]
      BY <2>9
    <3>2. LET p == owner[toRunner[s][j].task] IN
          p \in Requests /\ answer[p] \notin Unanswered /\ executions[p] = 0
      BY <3>1 DEF TasksInv, SettingsInv, SettingsBeforeStart, IsSettings
    <3>3. owner[toRunner'[s][i].task] # q
      BY <2>9
    <3> QED BY <2>5, <2>7, <3>1, <3>2, <3>3
  <2>13. SettingsOnce'
    BY <1>1, <1>3, <2>6, <2>7, SettingsOnceKept DEF TasksInv, SettingsInv
  <2>14. StartedOnce'
    <3>1. ASSUME NEW p \in Requests
          PROVE  executions'[p] <= 1 /\ (answer'[p] \in Unanswered => executions'[p] = 0)
      <4>1. CASE p = q
        BY <2>3, <2>5, <2>7, <4>1
      <4>2. CASE p # q
        BY <2>5, <2>7, <4>2 DEF TasksInv, SettingsInv, StartedOnce
      <4> QED BY <4>1, <4>2
    <3> QED BY <3>1 DEF StartedOnce
  <2>15. SettingsAreExpected'
    <3> SUFFICES ASSUME NEW s \in Runners, NEW i \in DOMAIN toRunner'[s],
                        toRunner'[s][i].type = "settings"
                 PROVE  runningTasks'[s][toRunner'[s][i].task] \in {"none", "waitingForSettings"}
      BY DEF SettingsAreExpected, Range
    <3>1. PICK j \in DOMAIN toRunner[s] : toRunner[s][j] = toRunner'[s][i]
      BY <2>9
    <3>2. toRunner[s][j] \in MessagesToRunner
      BY <1>1 DEF TablesTyped
    <3>3. toRunner[s][j].task \in TaskIds
      BY <3>1, <3>2, TaskOfMessage
    <3>4. toRunner'[s][i].task # t
      BY <2>9 DEF q
    <3>5. runningTasks[s][toRunner[s][j].task] \in {"none", "waitingForSettings"}
      BY <3>1 DEF TasksInv, SettingsInv, SettingsAreExpected, Range
    <3> QED BY <2>10, <3>1, <3>3, <3>4, <3>5
  <2> QED BY <2>6, <2>8, <2>11, <2>12, <2>13, <2>14, <2>15 DEF TasksInv, SettingsInv
<1> QED BY <1>6, <1>7 DEF ReceivedSettings

-----------------------------------------------------------------------------
(* Steps of the broker *)

\* A request is pending when it is in the queue.
LEMMA ContainsIs == \A s \in Seq(Requests) : \A q : Contains(s, q) <=> q \in Range(s)
BY DEF Contains, Range

\* A step of the broker that sends no settings.
LEMMA BrokerSide ==
    ASSUME TasksInv, TablesTyped', RequestsInv', ChannelsKeep,
           UNCHANGED <<owner, executions, runningTasks>>,
           \A q \in Requests : answer[q] \notin Unanswered => answer'[q] \notin Unanswered,
           \A t \in TaskIds : accepting'[t] # Nothing => accepting[t] # Nothing
    PROVE  TasksInv'
<1>1. SettingsInv'
  BY SettingsKept DEF TasksInv
<1> QED BY <1>1 DEF TasksInv

\* An accept that is rejected or times out.
LEMMA AcceptFailedTasks ==
    ASSUME TasksInv, NEW t \in TaskIds, accepting[t] # Nothing, AcceptFailed(t),
           UNCHANGED <<known, pendingOffers, pendingRequests, tasks, isDraining, owner, toRunner,
                       runnerVars, answer>>,
           toBroker' \in [Runners -> Seq(MessagesToBroker)]
    PROVE  TasksInv'
<1>1. TablesTyped /\ UNCHANGED <<openOffers, runningTasks, canSendOffers, isShuttingDown, executions>>
  BY DEF TasksInv, runnerVars
<1>2. /\ accepting' = [accepting EXCEPT ![t] = Nothing]
      /\ acceptInProgress' = acceptInProgress \ {accepting[t].request}
  BY DEF AcceptFailed
<1>3. TablesTyped'
  BY <1>1, <1>2 DEF TablesTyped
<1>4. /\ accepting'[t] = Nothing
      /\ \A u \in TaskIds : u # t => accepting'[u] = accepting[u]
  BY <1>1, <1>2 DEF TablesTyped
<1>5. AcceptIsOwners'
  <2> SUFFICES ASSUME NEW u \in TaskIds, accepting'[u] # Nothing
               PROVE  LET q == accepting'[u].request IN
                      /\ q = owner'[u] /\ q \in acceptInProgress'
                      /\ Contains(pendingRequests', q) \/ answer'[q] = "expired"
    BY DEF AcceptIsOwners
  <2>1. u # t /\ accepting'[u] = accepting[u] /\ accepting[u] # Nothing
    BY <1>4
  <2>2. accepting[u].request # accepting[t].request
    BY <2>1 DEF TasksInv, RequestsInv, OneAcceptOrTask
  <2>3. LET q == accepting[u].request IN
        /\ q = owner[u] /\ q \in acceptInProgress
        /\ Contains(pendingRequests, q) \/ answer[q] = "expired"
    BY <2>1 DEF TasksInv, RequestsInv, AcceptIsOwners
  <2> QED BY <1>2, <2>1, <2>2, <2>3
<1>6. OneAcceptOrTask'
  BY <1>4 DEF TasksInv, RequestsInv, OneAcceptOrTask
<1>7. OffersOfKnown' /\ PendingUnanswered' /\ OrphanMeansExpired'
  BY DEF TasksInv, RequestsInv, OffersOfKnown, PendingUnanswered, OrphanMeansExpired
<1>8. ChannelsKeep
  BY <1>1, ChannelsUnchanged
<1>9. RequestsInv'
  BY <1>5, <1>6, <1>7 DEF RequestsInv
<1>10. \A u \in TaskIds : accepting'[u] # Nothing => accepting[u] # Nothing
  BY <1>4
<1> QED BY <1>1, <1>3, <1>8, <1>9, <1>10, BrokerSide

\* handleRequestTimeout(): the request is no longer pending, and expired.
LEMMA RequestTimeoutTasks ==
    ASSUME TasksInv, NEW q \in Requests, HandleRequestTimeout(q)
    PROVE  TasksInv'
<1>1. TablesTyped
  BY DEF TasksInv
<1>2. /\ pendingRequests' = Without(pendingRequests, {q})
      /\ answer' = [answer EXCEPT ![q] = "expired"]
      /\ Contains(pendingRequests, q)
      /\ UNCHANGED <<known, pendingOffers, acceptInProgress, accepting, tasks, isDraining, owner,
                     toRunner, toBroker, openOffers, runningTasks, canSendOffers, isShuttingDown,
                     executions>>
  BY DEF HandleRequestTimeout, RequestsWithout, Expired, runnerVars
<1>3. pendingRequests \in Seq(Requests)
  BY <1>1 DEF TablesTyped
<1>4. /\ pendingRequests' \in Seq(Requests)
      /\ Range(pendingRequests') = Range(pendingRequests) \ {q}
  BY <1>2, <1>3, WithoutIs
<1>5. TablesTyped'
  BY <1>1, <1>2, <1>4 DEF TablesTyped
<1>6. /\ answer'[q] = "expired"
      /\ \A p \in Requests : p # q => answer'[p] = answer[p]
  BY <1>1, <1>2 DEF TablesTyped
<1>7. Range(pendingRequests) \subseteq Requests
  BY <1>3 DEF Range
<1>8. PendingUnanswered'
  BY <1>4, <1>6, <1>7 DEF TasksInv, RequestsInv, PendingUnanswered
<1>9. AcceptIsOwners'
  <2> SUFFICES ASSUME NEW u \in TaskIds, accepting'[u] # Nothing
               PROVE  LET p == accepting'[u].request IN
                      /\ p = owner'[u] /\ p \in acceptInProgress'
                      /\ Contains(pendingRequests', p) \/ answer'[p] = "expired"
    BY DEF AcceptIsOwners
  <2> DEFINE p == accepting[u].request
  <2>1. /\ p = owner[u] /\ p \in acceptInProgress
        /\ Contains(pendingRequests, p) \/ answer[p] = "expired"
    BY <1>2 DEF TasksInv, RequestsInv, AcceptIsOwners
  <2>2. p \in Requests
    BY <1>1, <2>1 DEF TablesTyped
  <2> HIDE DEF p
  <2>3. Contains(pendingRequests', p) \/ answer'[p] = "expired"
    BY <1>3, <1>4, <1>6, <2>1, <2>2, ContainsIs
  <2> QED BY <1>2, <2>1, <2>3 DEF p
<1>10. OrphanMeansExpired'
  <2> SUFFICES ASSUME NEW u \in TaskIds, tasks'[u] # Nothing
               PROVE  answer'[tasks'[u].request] \in {"assigned", "expired"}
    BY DEF OrphanMeansExpired
  <2>1. tasks[u] \in Assignments /\ tasks'[u] = tasks[u]
    BY <1>1, <1>2 DEF TablesTyped
  <2>2. tasks[u].request \in Requests
    BY <2>1 DEF Assignments
  <2> QED BY <1>6, <2>1, <2>2 DEF TasksInv, RequestsInv, OrphanMeansExpired
<1>11. OffersOfKnown' /\ OneAcceptOrTask'
  BY <1>2 DEF TasksInv, RequestsInv, OffersOfKnown, OneAcceptOrTask
<1>12. ChannelsKeep
  BY <1>1, <1>2, ChannelsUnchanged
<1>13. RequestsInv'
  BY <1>8, <1>9, <1>10, <1>11 DEF RequestsInv
<1>14. \A p \in Requests : answer[p] \notin Unanswered => answer'[p] \notin Unanswered
  BY <1>6 DEF Unanswered
<1> QED BY <1>2, <1>5, <1>12, <1>13, <1>14, BrokerSide

\* A task ends: its requester is told, if it waits, and the task is forgotten.
LEMMA TaskEndTasks ==
    ASSUME TasksInv, NEW t \in TaskIds, tasks[t] # Nothing,
           NEW s \in {"done", "error", "cancelled"}, Answer(t, s),
           tasks' = [tasks EXCEPT ![t] = Nothing],
           UNCHANGED <<known, pendingOffers, pendingRequests, acceptInProgress, accepting,
                       isDraining, owner, runnerVars>>,
           ChannelsKeep, toRunner' \in [Runners -> Seq(MessagesToRunner)],
           toBroker' \in [Runners -> Seq(MessagesToBroker)]
    PROVE  TasksInv'
<1>1. TablesTyped /\ UNCHANGED <<openOffers, runningTasks, canSendOffers, isShuttingDown, executions>>
  BY DEF TasksInv, runnerVars
<1> DEFINE q == tasks[t].request
<1>2. tasks[t] \in Assignments
  BY <1>1 DEF TablesTyped
<1>3. q \in Requests
  BY <1>2 DEF Assignments
<1>4. answer' = IF answer[q] = "assigned" THEN [answer EXCEPT ![q] = s] ELSE answer
  BY DEF Answer
<1>5. /\ tasks'[t] = Nothing
      /\ \A u \in TaskIds : u # t => tasks'[u] = tasks[u]
  BY <1>1 DEF TablesTyped
<1>6. \A u \in TaskIds : accepting[u] # Nothing => accepting[u].request # q
  BY DEF TasksInv, RequestsInv, OneAcceptOrTask
<1>7. \A u \in TaskIds : u # t /\ tasks[u] # Nothing => tasks[u].request # q
  BY DEF TasksInv, RequestsInv, OneAcceptOrTask
<1> HIDE DEF q
<1>8. TablesTyped'
  BY <1>1, <1>3, <1>4 DEF TablesTyped
<1>9. /\ \A p \in Requests : p # q => answer'[p] = answer[p]
      /\ answer'[q] = answer[q] \/ (answer[q] = "assigned" /\ answer'[q] = s)
  BY <1>1, <1>3, <1>4 DEF TablesTyped
<1>10. PendingUnanswered'
  <2>1. \A p \in Range(pendingRequests) : p \in Requests /\ answer[p] = "pending"
    BY <1>1 DEF TasksInv, RequestsInv, PendingUnanswered, TablesTyped, Range
  <2> QED BY <1>9, <2>1 DEF PendingUnanswered
<1>11. AcceptIsOwners'
  <2> SUFFICES ASSUME NEW u \in TaskIds, accepting[u] # Nothing
               PROVE  answer'[accepting[u].request] = answer[accepting[u].request]
    BY DEF TasksInv, RequestsInv, AcceptIsOwners
  <2>1. accepting[u] \in Assignments
    BY <1>1 DEF TablesTyped
  <2>2. accepting[u].request \in Requests /\ accepting[u].request # q
    BY <1>6, <2>1 DEF Assignments
  <2> QED BY <1>9, <2>2
<1>12. OneAcceptOrTask'
  BY <1>5 DEF TasksInv, RequestsInv, OneAcceptOrTask
<1>13. OrphanMeansExpired'
  <2> SUFFICES ASSUME NEW u \in TaskIds, tasks'[u] # Nothing
               PROVE  answer'[tasks'[u].request] \in {"assigned", "expired"}
    BY DEF OrphanMeansExpired
  <2>1. u # t /\ tasks'[u] = tasks[u] /\ tasks[u] # Nothing
    BY <1>5
  <2>2. tasks[u] \in Assignments
    BY <1>1, <2>1 DEF TablesTyped
  <2>3. tasks[u].request \in Requests /\ tasks[u].request # q
    BY <1>7, <2>1, <2>2 DEF Assignments
  <2>4. answer[tasks[u].request] \in {"assigned", "expired"}
    BY <2>1 DEF TasksInv, RequestsInv, OrphanMeansExpired
  <2> QED BY <1>9, <2>1, <2>3, <2>4
<1>14. OffersOfKnown'
  BY DEF TasksInv, RequestsInv, OffersOfKnown
<1>15. RequestsInv'
  BY <1>10, <1>11, <1>12, <1>13, <1>14 DEF RequestsInv
<1>16. \A p \in Requests : answer[p] \notin Unanswered => answer'[p] \notin Unanswered
  BY <1>9 DEF Unanswered
<1> QED BY <1>1, <1>8, <1>15, <1>16, BrokerSide

\* A runner registers.
LEMMA RegisterRunnerTasks ==
    ASSUME TasksInv, NEW r \in Runners, RegisterRunner(r)
    PROVE  TasksInv'
<1>1. TablesTyped
  BY DEF TasksInv
<1>2. TablesTyped'
  BY <1>1 DEF TablesTyped, RegisterRunner
<1>3. RequestsInv'
  BY DEF TasksInv, RequestsInv, OffersOfKnown, PendingUnanswered, AcceptIsOwners,
         OneAcceptOrTask, OrphanMeansExpired, RegisterRunner
<1>4. ChannelsKeep
  BY <1>1, ChannelsUnchanged DEF RegisterRunner
<1>5. UNCHANGED <<owner, executions, runningTasks, answer, accepting>>
  BY DEF RegisterRunner
<1> QED BY <1>2, <1>3, <1>4, <1>5, BrokerSide

\* startDraining() tells the runners.
LEMMA StartDrainingTasks ==
    ASSUME TasksInv, StartDraining
    PROVE  TasksInv'
<1> DEFINE m == Message("drain", Nothing, Nothing)
<1>1. TablesTyped
  BY DEF TasksInv
<1>2. m \in MessagesToRunner /\ m.type # "settings"
  BY DEF Message, MessagesToRunner
<1>3. toRunner' = [r \in Runners |-> IF r \in known THEN Append(toRunner[r], m) ELSE toRunner[r]]
  BY DEF StartDraining
<1> HIDE DEF m
<1>4. toRunner \in [Runners -> Seq(MessagesToRunner)]
  BY <1>1 DEF TablesTyped
<1>5. toRunner' \in [Runners -> Seq(MessagesToRunner)]
  BY <1>2, <1>3, <1>4
<1>6. ChannelsKeep
  <2> SUFFICES ASSUME NEW r \in Runners
               PROVE  \A i \in DOMAIN toRunner'[r] : toRunner'[r][i].type = "settings" =>
                        i + 0 \in DOMAIN toRunner[r] /\ toRunner[r][i + 0] = toRunner'[r][i]
    BY DEF ChannelsKeep
  <2> DEFINE x == toRunner[r]
  <2>1. x \in Seq(MessagesToRunner) /\ toRunner'[r] \in {x, Append(x, m)}
    BY <1>3, <1>4
  <2> HIDE DEF x
  <2>2. \A i \in DOMAIN Append(x, m) : Append(x, m)[i].type = "settings" =>
          i + 0 \in DOMAIN x /\ x[i + 0] = Append(x, m)[i]
    BY <1>2, <2>1
  <2>3. \A i \in DOMAIN x : i + 0 \in DOMAIN x /\ x[i + 0] = x[i]
    BY <2>1
  <2>4. CASE toRunner'[r] = x
    BY <2>3, <2>4 DEF x
  <2>5. CASE toRunner'[r] = Append(x, m)
    BY <2>2, <2>5 DEF x
  <2> QED BY <2>1, <2>4, <2>5
<1>7. /\ isDraining' = TRUE
      /\ UNCHANGED <<known, pendingOffers, pendingRequests, acceptInProgress, accepting, tasks,
                     owner, toBroker, openOffers, runningTasks, canSendOffers, isShuttingDown,
                     executions, answer>>
  BY DEF StartDraining, runnerVars
<1>8. TablesTyped'
  BY <1>1, <1>5, <1>7 DEF TablesTyped
<1>9. RequestsInv'
  BY <1>7 DEF TasksInv, RequestsInv, OffersOfKnown, PendingUnanswered, AcceptIsOwners,
              OneAcceptOrTask, OrphanMeansExpired
<1> QED BY <1>6, <1>7, <1>8, <1>9, BrokerSide

\* The connection of a runner is lost: its offers and tasks go, the requesters
\* that wait for one are told, and accepts it owes stay open.
LEMMA RunnerGoneTasks ==
    ASSUME TasksInv, RunnerInv', NEW r \in Runners, RunnerGone(r)
    PROVE  TasksInv'
<1> DEFINE mine == TasksOf(r)
<1>1. TablesTyped
  BY DEF TasksInv
<1>2. /\ known' = known \ {r} /\ pendingOffers' = OffersWithout(r)
      /\ tasks' = [t \in TaskIds |-> IF t \in mine THEN Nothing ELSE tasks[t]]
      /\ answer' = [q \in Requests |->
                      IF answer[q] = "assigned" /\ \E t \in mine : tasks[t].request = q
                      THEN "error" ELSE answer[q]]
      /\ toRunner' = [toRunner EXCEPT ![r] = <<>>]
      /\ toBroker' = [toBroker EXCEPT ![r] = <<>>]
      /\ runningTasks' = [runningTasks EXCEPT ![r] = [t \in TaskIds |-> "none"]]
      /\ canSendOffers' = [canSendOffers EXCEPT ![r] = FALSE]
      /\ isShuttingDown' = [isShuttingDown EXCEPT ![r] = FALSE]
      /\ UNCHANGED <<pendingRequests, acceptInProgress, accepting, isDraining, owner, executions>>
  BY DEF RunnerGone
<1>3. pendingOffers' \in Seq(Offers) /\ \A o \in Range(pendingOffers') :
        o \in Range(pendingOffers) /\ o.runner # r
  <2> DEFINE gone == [runner : {r}, offer : OfferIds]
  <2>1. pendingOffers \in Seq(Offers) /\ pendingOffers' = Without(pendingOffers, gone)
    BY <1>1, <1>2 DEF TablesTyped, OffersWithout
  <2> HIDE DEF gone
  <2>2. pendingOffers' \in Seq(Offers) /\ Range(pendingOffers') = Range(pendingOffers) \ gone
    BY <2>1, WithoutIs
  <2>3. \A o \in Range(pendingOffers) : o \in Offers
    BY <2>1 DEF Range
  <2>4. \A o \in Offers : o \notin gone => o.runner # r
    BY DEF Offers, gone
  <2> QED BY <2>2, <2>3, <2>4
<1>4. mine \subseteq TaskIds /\ \A t \in mine : tasks[t] # Nothing
  BY DEF TasksOf
<1> HIDE DEF mine
<1>5. TablesTyped'
  <2>1. /\ toRunner' \in [Runners -> Seq(MessagesToRunner)]
        /\ toBroker' \in [Runners -> Seq(MessagesToBroker)]
    BY <1>1, <1>2 DEF TablesTyped
  <2>2. /\ tasks' \in [TaskIds -> Assignments \cup {Nothing}]
        /\ answer' \in [Requests -> {"idle", "pending", "assigned", "done", "error", "cancelled",
                                     "expired"}]
    BY <1>1, <1>2 DEF TablesTyped
  <2>3. canSendOffers' \in [Runners -> BOOLEAN] /\ isShuttingDown' \in [Runners -> BOOLEAN]
    BY <1>1, <1>2 DEF TablesTyped
  <2> QED BY <1>1, <1>2, <1>3, <2>1, <2>2, <2>3 DEF TablesTyped, RunnerInv
<1>6. \A u \in TaskIds : tasks'[u] # Nothing =>
        u \notin mine /\ tasks'[u] = tasks[u] /\ tasks[u] # Nothing
  BY <1>2
<1>7. \A p \in Requests :
        \/ answer'[p] = answer[p]
        \/ /\ answer[p] = "assigned" /\ answer'[p] = "error"
           /\ \E t \in mine : tasks[t].request = p
  BY <1>2
<1>8. OffersOfKnown'
  BY <1>2, <1>3 DEF TasksInv, RequestsInv, OffersOfKnown
<1>9. PendingUnanswered'
  <2>1. \A p \in Range(pendingRequests) : p \in Requests /\ answer[p] = "pending"
    BY <1>1 DEF TasksInv, RequestsInv, PendingUnanswered, TablesTyped, Range
  <2> QED BY <1>2, <1>7, <2>1 DEF PendingUnanswered
<1>10. AcceptIsOwners'
  <2> SUFFICES ASSUME NEW u \in TaskIds, accepting[u] # Nothing
               PROVE  answer'[accepting[u].request] = answer[accepting[u].request]
    BY <1>2 DEF TasksInv, RequestsInv, AcceptIsOwners
  <2>1. accepting[u] \in Assignments
    BY <1>1 DEF TablesTyped
  <2>2. accepting[u].request \in Requests
    BY <2>1 DEF Assignments
  <2>3. \A t \in mine : tasks[t].request # accepting[u].request
    BY <1>4 DEF TasksInv, RequestsInv, OneAcceptOrTask
  <2> QED BY <1>7, <2>2, <2>3
<1>11. OneAcceptOrTask'
  BY <1>2, <1>6 DEF TasksInv, RequestsInv, OneAcceptOrTask
<1>12. OrphanMeansExpired'
  <2> SUFFICES ASSUME NEW u \in TaskIds, tasks'[u] # Nothing
               PROVE  answer'[tasks'[u].request] \in {"assigned", "expired"}
    BY DEF OrphanMeansExpired
  <2>1. u \notin mine /\ tasks'[u] = tasks[u] /\ tasks[u] # Nothing
    BY <1>6
  <2>2. tasks[u] \in Assignments
    BY <1>1, <2>1 DEF TablesTyped
  <2>3. tasks[u].request \in Requests
    BY <2>2 DEF Assignments
  <2>4. \A t \in mine : tasks[t].request # tasks[u].request
    BY <1>4, <2>1 DEF TasksInv, RequestsInv, OneAcceptOrTask
  <2>5. answer[tasks[u].request] \in {"assigned", "expired"}
    BY <2>1 DEF TasksInv, RequestsInv, OrphanMeansExpired
  <2> QED BY <1>7, <2>1, <2>3, <2>4, <2>5
<1>13. RequestsInv'
  BY <1>8, <1>9, <1>10, <1>11, <1>12 DEF RequestsInv
<1>14. ChannelsKeep
  <2> SUFFICES ASSUME NEW s \in Runners
               PROVE  \A i \in DOMAIN toRunner'[s] : toRunner'[s][i].type = "settings" =>
                        i + 0 \in DOMAIN toRunner[s] /\ toRunner[s][i + 0] = toRunner'[s][i]
    BY DEF ChannelsKeep
  <2>1. toRunner \in [Runners -> Seq(MessagesToRunner)]
    BY <1>1 DEF TablesTyped
  <2>2. CASE s = r
    <3>1. toRunner'[s] = <<>>
      BY <1>2, <2>1, <2>2
    <3> QED BY <3>1
  <2>3. CASE s # r
    <3>1. toRunner'[s] = toRunner[s] /\ toRunner[s] \in Seq(MessagesToRunner)
      BY <1>2, <2>1, <2>3
    <3> QED BY <3>1
  <2> QED BY <2>2, <2>3
<1>15. \A s \in Runners, t \in TaskIds :
         runningTasks'[s][t] \notin NotStarted => runningTasks[s][t] \notin NotStarted
  BY <1>1, <1>2 DEF TablesTyped, NotStarted
<1>16. \A p \in Requests : answer[p] \notin Unanswered => answer'[p] \notin Unanswered
  BY <1>7 DEF Unanswered
<1>17. SettingsInv'
  BY <1>1, <1>2, <1>5, <1>14, <1>15, <1>16, SettingsKept DEF TasksInv
<1> QED BY <1>5, <1>13, <1>17 DEF TasksInv

\* acceptOffer() goes on after the runner's accept: the task exists, and no
\* other accept or task has its request; the requester is told, and sends its
\* settings, only if it still waits.
LEMMA AcceptRequests ==
    ASSUME TasksInv, NEW t \in TaskIds, NEW a, a = accepting[t], a # Nothing,
           accepting' = [accepting EXCEPT ![t] = Nothing], tasks' = [tasks EXCEPT ![t] = a],
           UNCHANGED <<known, pendingOffers, owner>>,
           \/ /\ Contains(pendingRequests, a.request)
              /\ pendingRequests' = RequestsWithout(a.request)
              /\ acceptInProgress' = acceptInProgress \ {a.request}
              /\ answer' = [answer EXCEPT ![a.request] = "assigned"]
           \/ /\ ~Contains(pendingRequests, a.request)
              /\ UNCHANGED <<pendingRequests, acceptInProgress, answer>>
    PROVE  RequestsInv' /\ pendingRequests' \in Seq(Requests)
<1> DEFINE q == a.request
<1>1. TablesTyped
  BY DEF TasksInv
<1>2. a \in Assignments
  BY <1>1 DEF TablesTyped
<1>3. q \in Requests
  BY <1>2 DEF Assignments
<1>4. /\ accepting'[t] = Nothing /\ tasks'[t] = a
      /\ \A u \in TaskIds : u # t => accepting'[u] = accepting[u] /\ tasks'[u] = tasks[u]
  BY <1>1 DEF TablesTyped
<1>5. \A u \in TaskIds : u # t =>
        /\ accepting[u] # Nothing => accepting[u].request # q
        /\ tasks[u] # Nothing => tasks[u].request # q
  BY DEF TasksInv, RequestsInv, OneAcceptOrTask
<1>6. Contains(pendingRequests, q) \/ answer[q] = "expired"
  BY DEF TasksInv, RequestsInv, AcceptIsOwners
<1>7. pendingRequests \in Seq(Requests)
  BY <1>1 DEF TablesTyped
<1>8. /\ pendingRequests' \in Seq(Requests)
      /\ Range(pendingRequests') = Range(pendingRequests) \ {q}
      /\ answer'[q] \in {"assigned", "expired"}
      /\ \A p \in Requests : p # q => answer'[p] = answer[p]
      /\ acceptInProgress \ {q} \subseteq acceptInProgress'
  <2>1. CASE Contains(pendingRequests, q)
    <3>1. /\ pendingRequests' = Without(pendingRequests, {q})
          /\ answer' = [answer EXCEPT ![q] = "assigned"]
          /\ acceptInProgress' = acceptInProgress \ {q}
      BY <2>1 DEF RequestsWithout
    <3> HIDE DEF q
    <3>2. /\ pendingRequests' \in Seq(Requests)
          /\ Range(pendingRequests') = Range(pendingRequests) \ {q}
      BY <1>7, <3>1, WithoutIs
    <3>3. answer'[q] = "assigned" /\ \A p \in Requests : p # q => answer'[p] = answer[p]
      BY <1>1, <1>3, <3>1 DEF TablesTyped
    <3> QED BY <3>1, <3>2, <3>3
  <2>2. CASE ~Contains(pendingRequests, q)
    <3>1. UNCHANGED <<pendingRequests, acceptInProgress, answer>>
      BY <2>2
    <3>2. q \notin Range(pendingRequests)
      BY <1>7, <2>2, ContainsIs
    <3> QED BY <1>6, <1>7, <2>2, <3>1, <3>2
  <2> QED BY <2>1, <2>2
<1> HIDE DEF q
<1>9. OffersOfKnown'
  BY DEF TasksInv, RequestsInv, OffersOfKnown
<1>10. PendingUnanswered'
  <2>1. \A p \in Range(pendingRequests) : p \in Requests /\ answer[p] = "pending"
    BY <1>7 DEF TasksInv, RequestsInv, PendingUnanswered, Range
  <2> QED BY <1>8, <2>1 DEF PendingUnanswered
<1>11. AcceptIsOwners'
  <2> SUFFICES ASSUME NEW u \in TaskIds, accepting'[u] # Nothing
               PROVE  LET p == accepting'[u].request IN
                      /\ p = owner'[u] /\ p \in acceptInProgress'
                      /\ Contains(pendingRequests', p) \/ answer'[p] = "expired"
    BY DEF AcceptIsOwners
  <2> DEFINE p == accepting[u].request
  <2>1. u # t /\ accepting'[u] = accepting[u] /\ accepting[u] # Nothing /\ p # q
    BY <1>4, <1>5
  <2>2. /\ p = owner[u] /\ p \in acceptInProgress
        /\ Contains(pendingRequests, p) \/ answer[p] = "expired"
    BY <2>1 DEF TasksInv, RequestsInv, AcceptIsOwners
  <2>3. p \in Requests
    BY <1>1, <2>2 DEF TablesTyped
  <2> HIDE DEF p
  <2>4. Contains(pendingRequests', p) \/ answer'[p] = "expired"
    BY <1>7, <1>8, <2>1, <2>2, <2>3, ContainsIs
  <2> QED BY <1>8, <2>1, <2>2, <2>4 DEF p
<1>12. OneAcceptOrTask'
  <2>1. \A u \in TaskIds : u # t => /\ accepting'[u] # Nothing => accepting'[u].request # q
                                    /\ tasks'[u] # Nothing => tasks'[u].request # q
    BY <1>4, <1>5
  <2>2. tasks'[t].request = q
    BY <1>4 DEF q
  <2> SUFFICES ASSUME NEW u \in TaskIds, NEW v \in TaskIds
               PROVE  /\ accepting'[u] # Nothing /\ accepting'[v] # Nothing
                         /\ accepting'[u].request = accepting'[v].request => u = v
                      /\ tasks'[u] # Nothing /\ tasks'[v] # Nothing
                         /\ tasks'[u].request = tasks'[v].request => u = v
                      /\ accepting'[u] # Nothing /\ tasks'[v] # Nothing =>
                           accepting'[u].request # tasks'[v].request
    BY DEF OneAcceptOrTask
  <2>3. CASE u # t /\ v # t
    BY <1>4, <2>3 DEF TasksInv, RequestsInv, OneAcceptOrTask
  <2>4. CASE u = t
    BY <1>4, <2>1, <2>2, <2>4
  <2>5. CASE v = t
    BY <1>4, <2>1, <2>2, <2>5
  <2> QED BY <2>3, <2>4, <2>5
<1>13. OrphanMeansExpired'
  <2> SUFFICES ASSUME NEW u \in TaskIds, tasks'[u] # Nothing
               PROVE  answer'[tasks'[u].request] \in {"assigned", "expired"}
    BY DEF OrphanMeansExpired
  <2>1. CASE u = t
    BY <1>4, <1>8, <2>1 DEF q
  <2>2. CASE u # t
    <3>1. tasks'[u] = tasks[u] /\ tasks[u] # Nothing /\ tasks[u].request # q
      BY <1>4, <1>5, <2>2
    <3>2. tasks[u] \in Assignments
      BY <1>1, <3>1 DEF TablesTyped
    <3>3. tasks[u].request \in Requests
      BY <3>2 DEF Assignments
    <3>4. answer[tasks[u].request] \in {"assigned", "expired"}
      BY <3>1 DEF TasksInv, RequestsInv, OrphanMeansExpired
    <3> QED BY <1>8, <3>1, <3>3, <3>4
  <2> QED BY <2>1, <2>2
<1> QED BY <1>8, <1>9, <1>10, <1>11, <1>12, <1>13 DEF RequestsInv

\* The settings that are sent with it are the only ones of their request.
LEMMA AcceptSettings ==
    ASSUME TasksInv, TablesTyped', NEW r \in Runners, NEW t \in TaskIds, accepting[t] # Nothing,
           NEW q, q = accepting[t].request, Contains(pendingRequests, q),
           accepting' = [accepting EXCEPT ![t] = Nothing],
           answer' = [answer EXCEPT ![q] = "assigned"],
           toRunner' = [toRunner EXCEPT ![r] = Append(@, Message("settings", t, Nothing))],
           UNCHANGED <<owner, runningTasks, executions>>
    PROVE  SettingsInv'
<1> DEFINE m == Message("settings", t, Nothing)
<1>1. TablesTyped
  BY DEF TasksInv
<1>2. q \in Requests /\ owner[t] = q /\ answer[q] = "pending"
  <2>1. pendingRequests \in Seq(Requests)
    BY <1>1 DEF TablesTyped
  <2>2. q \in Range(pendingRequests)
    BY <2>1, ContainsIs
  <2>3. q \in Requests
    BY <2>1, <2>2 DEF Range
  <2> QED BY <2>2, <2>3 DEF TasksInv, RequestsInv, PendingUnanswered, AcceptIsOwners
<1>3. /\ answer'[q] = "assigned"
      /\ \A p \in Requests : p # q => answer'[p] = answer[p]
  BY <1>1, <1>2 DEF TablesTyped
<1>4. accepting'[t] = Nothing /\ \A u \in TaskIds : u # t => accepting'[u] = accepting[u]
  BY <1>1 DEF TablesTyped
<1>5. ASSUME NEW s \in Runners, NEW i \in DOMAIN toRunner[s], toRunner[s][i].type = "settings"
      PROVE  owner[toRunner[s][i].task] # q
  BY <1>2, <1>5 DEF TasksInv, SettingsInv, SettingsBeforeStart, IsSettings, Unanswered
<1>6. executions[q] = 0
  BY <1>2 DEF TasksInv, SettingsInv, StartedOnce, Unanswered
<1>7. m.type = "settings" /\ m.task = t
  BY DEF Message
<1>8. toRunner \in [Runners -> Seq(MessagesToRunner)]
  BY <1>1 DEF TablesTyped
<1> DEFINE n == Len(toRunner[r]) + 1
<1>9. ASSUME NEW s \in Runners, NEW i \in DOMAIN toRunner'[s]
      PROVE  \/ i \in DOMAIN toRunner[s] /\ toRunner'[s][i] = toRunner[s][i]
             \/ s = r /\ i = n /\ toRunner'[s][i] = m
  <2> HIDE DEF m
  <2>1. CASE s = r
    <3> DEFINE x == toRunner[r]
    <3>1. x \in Seq(MessagesToRunner) /\ toRunner'[s] = Append(x, m)
      BY <1>8, <2>1 DEF m
    <3> HIDE DEF x
    <3>2. \A j \in DOMAIN Append(x, m) :
            \/ j \in DOMAIN x /\ Append(x, m)[j] = x[j]
            \/ j = Len(x) + 1 /\ Append(x, m)[j] = m
      BY <3>1
    <3> QED BY <1>9, <2>1, <3>1, <3>2 DEF x
  <2>2. CASE s # r
    <3>1. toRunner'[s] = toRunner[s]
      BY <1>8, <2>2
    <3> QED BY <1>9, <3>1
  <2> QED BY <2>1, <2>2
<1> HIDE DEF m, n
<1>10. AcceptedNotStarted'
  <2> SUFFICES ASSUME NEW u \in TaskIds, NEW s \in Runners, accepting'[u] # Nothing
               PROVE  /\ runningTasks'[s][u] \in {"none", "waitingForSettings"}
                      /\ \A i \in DOMAIN toRunner'[s] :
                           toRunner'[s][i].type = "settings" => toRunner'[s][i].task # u
    BY DEF AcceptedNotStarted, IsSettings
  <2>1. accepting[u] # Nothing /\ u # t
    BY <1>4
  <2>2. /\ runningTasks[s][u] \in {"none", "waitingForSettings"}
        /\ \A i \in DOMAIN toRunner[s] :
             toRunner[s][i].type = "settings" => toRunner[s][i].task # u
    BY <2>1 DEF TasksInv, SettingsInv, AcceptedNotStarted, IsSettings
  <2> QED BY <1>7, <1>9, <2>1, <2>2
<1>11. SettingsBeforeStart'
  <2> SUFFICES ASSUME NEW s \in Runners, NEW i \in DOMAIN toRunner'[s],
                      toRunner'[s][i].type = "settings"
               PROVE  LET p == owner'[toRunner'[s][i].task] IN
                      p \in Requests /\ answer'[p] \notin Unanswered /\ executions'[p] = 0
    BY DEF SettingsBeforeStart, IsSettings
  <2>1. CASE i \in DOMAIN toRunner[s] /\ toRunner'[s][i] = toRunner[s][i]
    <3>1. LET p == owner[toRunner[s][i].task] IN
          p \in Requests /\ answer[p] \notin Unanswered /\ executions[p] = 0
      BY <2>1 DEF TasksInv, SettingsInv, SettingsBeforeStart, IsSettings
    <3>2. owner[toRunner[s][i].task] # q
      BY <1>5, <2>1
    <3> QED BY <1>3, <2>1, <3>1, <3>2
  <2>2. CASE toRunner'[s][i] = m
    BY <1>2, <1>3, <1>6, <1>7, <2>2 DEF Unanswered
  <2> QED BY <1>9, <2>1, <2>2
<1>12. SettingsOnce'
  <2> SUFFICES ASSUME NEW s \in Runners, NEW v \in Runners,
                      NEW i \in DOMAIN toRunner'[s], NEW j \in DOMAIN toRunner'[v],
                      toRunner'[s][i].type = "settings", toRunner'[v][j].type = "settings",
                      owner[toRunner'[s][i].task] = owner[toRunner'[v][j].task]
               PROVE  s = v /\ i = j
    BY DEF SettingsOnce, IsSettings
  <2>1. CASE /\ i \in DOMAIN toRunner[s] /\ toRunner'[s][i] = toRunner[s][i]
             /\ j \in DOMAIN toRunner[v] /\ toRunner'[v][j] = toRunner[v][j]
    BY <2>1 DEF TasksInv, SettingsInv, SettingsOnce, IsSettings
  <2>2. CASE /\ i \in DOMAIN toRunner[s] /\ toRunner'[s][i] = toRunner[s][i]
             /\ toRunner'[v][j] = m
    BY <1>2, <1>5, <1>7, <2>2
  <2>3. CASE /\ toRunner'[s][i] = m
             /\ j \in DOMAIN toRunner[v] /\ toRunner'[v][j] = toRunner[v][j]
    BY <1>2, <1>5, <1>7, <2>3
  <2>4. CASE s = r /\ i = n /\ v = r /\ j = n
    BY <2>4
  <2> QED BY <1>9, <2>1, <2>2, <2>3, <2>4
<1>13. StartedOnce'
  <2>1. ASSUME NEW p \in Requests
        PROVE  executions'[p] <= 1 /\ (answer'[p] \in Unanswered => executions'[p] = 0)
    <3>1. CASE p = q
      BY <1>6, <3>1
    <3>2. CASE p # q
      BY <1>3, <3>2 DEF TasksInv, SettingsInv, StartedOnce
    <3> QED BY <3>1, <3>2
  <2> QED BY <2>1 DEF StartedOnce
<1>14. SettingsAreExpected'
  <2> SUFFICES ASSUME NEW s \in Runners, NEW i \in DOMAIN toRunner'[s],
                      toRunner'[s][i].type = "settings"
               PROVE  runningTasks'[s][toRunner'[s][i].task] \in {"none", "waitingForSettings"}
    BY DEF SettingsAreExpected, Range
  <2>1. CASE i \in DOMAIN toRunner[s] /\ toRunner'[s][i] = toRunner[s][i]
    BY <2>1 DEF TasksInv, SettingsInv, SettingsAreExpected, Range
  <2>2. CASE toRunner'[s][i] = m
    <3>1. runningTasks[s][t] \in {"none", "waitingForSettings"}
      BY DEF TasksInv, SettingsInv, AcceptedNotStarted
    <3> QED BY <1>7, <2>2, <3>1
  <2> QED BY <1>9, <2>1, <2>2
<1> QED BY <1>10, <1>11, <1>12, <1>13, <1>14 DEF SettingsInv

\* handleRunnerAccept(), whether or not its promise is still open.
LEMMA HandleRunnerAcceptTasks ==
    ASSUME TasksInv, NEW r \in Runners, HandleRunnerAccept(r)
    PROVE  TasksInv'
<1> DEFINE t == Head(toBroker[r]).task
           a == accepting[t]
           m == Message("settings", t, Nothing)
<1>1. TablesTyped
  BY DEF TasksInv
<1>2. Received(r, "accepted") /\ Consume(r) /\ UNCHANGED runnerVars
  BY DEF HandleRunnerAccept
<1>3. /\ toBroker' \in [Runners -> Seq(MessagesToBroker)]
      /\ Head(toBroker[r]) \in MessagesToBroker /\ Head(toBroker[r]).type = "accepted"
  BY <1>1, <1>2, ReceiveTyped
<1>4. t \in TaskIds
  BY <1>3, TaskOfMessage
<1>5. UNCHANGED <<openOffers, runningTasks, canSendOffers, isShuttingDown, executions>>
  BY <1>2 DEF runnerVars
<1>6. CASE a = Nothing
  <2>1. UNCHANGED <<known, pendingOffers, pendingRequests, acceptInProgress, accepting, tasks,
                    isDraining, owner, toRunner, answer>>
    BY <1>6 DEF HandleRunnerAccept, brokerVars
  <2>2. TablesTyped'
    BY <1>1, <1>3, <1>5, <2>1 DEF TablesTyped
  <2>3. RequestsInv'
    BY <2>1 DEF TasksInv, RequestsInv, OffersOfKnown, PendingUnanswered, AcceptIsOwners,
                OneAcceptOrTask, OrphanMeansExpired
  <2>4. ChannelsKeep
    BY <1>1, <2>1, ChannelsUnchanged
  <2> QED BY <1>5, <2>1, <2>2, <2>3, <2>4, BrokerSide
<1>7. CASE a # Nothing
  <2>1. /\ accepting' = [accepting EXCEPT ![t] = Nothing]
        /\ tasks' = [tasks EXCEPT ![t] = a]
        /\ UNCHANGED <<known, pendingOffers, isDraining, owner>>
    BY <1>7 DEF HandleRunnerAccept
  <2>2. \/ /\ Contains(pendingRequests, a.request)
           /\ pendingRequests' = RequestsWithout(a.request)
           /\ acceptInProgress' = acceptInProgress \ {a.request}
           /\ answer' = [answer EXCEPT ![a.request] = "assigned"]
           /\ toRunner' = [toRunner EXCEPT ![r] = Append(@, m)]
        \/ /\ ~Contains(pendingRequests, a.request)
           /\ UNCHANGED <<pendingRequests, acceptInProgress, answer, toRunner>>
    BY <1>7 DEF HandleRunnerAccept
  <2>3. a \in Assignments
    BY <1>1, <1>4, <1>7 DEF TablesTyped
  <2>4. m \in MessagesToRunner
    BY <1>4 DEF Message, MessagesToRunner
  <2> HIDE DEF t, m
  <2>5. RequestsInv' /\ pendingRequests' \in Seq(Requests)
    BY <1>4, <1>7, <2>1, <2>2, AcceptRequests
  <2> HIDE DEF a
  <2>6. TablesTyped'
    <3>1. toRunner' \in [Runners -> Seq(MessagesToRunner)]
      <4>1. toRunner \in [Runners -> Seq(MessagesToRunner)]
        BY <1>1 DEF TablesTyped
      <4>2. Append(toRunner[r], m) \in Seq(MessagesToRunner)
        BY <2>4, <4>1
      <4> QED BY <2>2, <4>1, <4>2
    <3>2. /\ answer' \in [Requests -> {"idle", "pending", "assigned", "done", "error",
                                       "cancelled", "expired"}]
          /\ acceptInProgress' \subseteq Requests
      BY <1>1, <2>2 DEF TablesTyped
    <3>3. /\ accepting' \in [TaskIds -> Assignments \cup {Nothing}]
          /\ tasks' \in [TaskIds -> Assignments \cup {Nothing}]
      BY <1>1, <1>4, <2>1, <2>3 DEF TablesTyped
    <3> QED BY <1>1, <1>3, <1>5, <2>1, <2>5, <3>1, <3>2, <3>3 DEF TablesTyped
  <2>7. CASE Contains(pendingRequests, a.request)
    <3>1. SettingsInv'
      BY <1>4, <1>5, <1>7, <2>1, <2>2, <2>6, <2>7, AcceptSettings DEF a, m
    <3> QED BY <2>5, <2>6, <3>1 DEF TasksInv
  <2>8. CASE ~Contains(pendingRequests, a.request)
    <3>1. UNCHANGED <<answer, toRunner>>
      BY <2>2, <2>8
    <3>2. ChannelsKeep
      BY <1>1, <3>1, ChannelsUnchanged
    <3>3. \A u \in TaskIds : accepting'[u] # Nothing => accepting[u] # Nothing
      BY <1>1, <2>1 DEF TablesTyped
    <3> QED BY <1>5, <2>1, <2>5, <2>6, <3>1, <3>2, <3>3, BrokerSide
  <2> QED BY <2>7, <2>8
<1> QED BY <1>6, <1>7

\* A request or an offer put at the end of its queue.
LEMMA AppendRange ==
    ASSUME NEW S, NEW s \in Seq(S), NEW e \in S
    PROVE  Append(s, e) \in Seq(S) /\ Range(Append(s, e)) = Range(s) \cup {e}
<1>1. Append(s, e) \in Seq(S)
  OBVIOUS
<1> DEFINE y == Append(s, e)
<1>2. /\ DOMAIN s = 1..Len(s) /\ DOMAIN y = 1..(Len(s) + 1) /\ Len(s) \in Nat
      /\ y[Len(s) + 1] = e /\ \A i \in 1..Len(s) : y[i] = s[i]
  OBVIOUS
<1> HIDE DEF y
<1>3. Range(y) = Range(s) \cup {e}
  <2>1. ASSUME NEW v \in Range(y) PROVE v \in Range(s) \cup {e}
    BY <1>2 DEF Range
  <2>2. ASSUME NEW v \in Range(s) PROVE v \in Range(y)
    BY <1>2 DEF Range
  <2>3. e \in Range(y)
    BY <1>2 DEF Range
  <2> QED BY <2>1, <2>2, <2>3
<1> QED BY <1>1, <1>3 DEF y

\* settleTasks() keeps the invariant: what it accepts is pending, had no accept
\* under way and no task, and takes an id that is in no message.
LEMMA SettleKeeps ==
    ASSUME TasksInv, NEW offers, NEW requests \in Seq(Requests),
           NEW used \in SUBSET (TaskIds \ UsedTasks), SettledTo(offers, requests, used),
           UNCHANGED <<known, tasks, isDraining, runnerVars>>,
           toBroker' \in [Runners -> Seq(MessagesToBroker)],
           \A o \in Range(offers) : o.runner \in known,
           Range(pendingRequests) \subseteq Range(requests),
           \A p \in Range(requests) : answer'[p] = "pending",
           answer' \in [Requests -> {"idle", "pending", "assigned", "done", "error", "cancelled",
                                     "expired"}],
           \A p \in Requests : answer[p] # "idle" => answer'[p] = answer[p]
    PROVE  TasksInv'
<1>1. TablesTyped /\ UNCHANGED <<openOffers, runningTasks, canSendOffers, isShuttingDown, executions>>
  BY DEF TasksInv, runnerVars
<1>2. TablesTyped'
  BY <1>1 DEF TablesTyped, SettledTo
<1>3. pendingRequests' = requests /\ pendingRequests \in Seq(Requests)
  BY <1>1 DEF TablesTyped, SettledTo
<1>4. OffersOfKnown' /\ PendingUnanswered'
  BY <1>3 DEF SettledTo, OffersOfKnown, PendingUnanswered
<1>5. ASSUME NEW t \in TaskIds \ used
      PROVE  accepting'[t] = accepting[t] /\ owner'[t] = owner[t]
  BY DEF SettledTo
<1>6. ASSUME NEW t \in used
      PROVE  /\ accepting'[t].request = owner'[t]
             /\ accepting'[t].request \in Range(requests)
             /\ accepting'[t].request \in Requests
             /\ accepting'[t].request \in acceptInProgress' \ acceptInProgress
  <2>1. accepting'[t] \in Assignments
    BY DEF SettledTo
  <2> QED BY <2>1 DEF SettledTo, Assignments
<1>7. acceptInProgress \subseteq acceptInProgress'
  BY DEF SettledTo
<1>8. ASSUME NEW t \in TaskIds, accepting[t] # Nothing
      PROVE  LET q == accepting[t].request IN
             /\ q = owner[t] /\ q \in acceptInProgress /\ q \in Requests
             /\ q \in Range(pendingRequests) \/ answer[q] = "expired"
  <2>1. accepting[t] \in Assignments
    BY <1>1, <1>8 DEF TablesTyped
  <2>2. accepting[t].request \in Requests
    BY <2>1 DEF Assignments
  <2> QED BY <1>3, <1>8, <2>2, ContainsIs DEF TasksInv, RequestsInv, AcceptIsOwners
<1>9. AcceptIsOwners'
  <2> SUFFICES ASSUME NEW t \in TaskIds, accepting'[t] # Nothing
               PROVE  LET q == accepting'[t].request IN
                      /\ q = owner'[t] /\ q \in acceptInProgress'
                      /\ Contains(pendingRequests', q) \/ answer'[q] = "expired"
    BY DEF AcceptIsOwners
  <2>1. CASE t \in used
    BY <1>3, <1>6, <2>1, ContainsIs
  <2>2. CASE t \notin used
    <3> DEFINE q == accepting[t].request
    <3>1. accepting'[t] = accepting[t] /\ owner'[t] = owner[t] /\ accepting[t] # Nothing
      BY <1>5, <2>2
    <3>2. /\ q = owner[t] /\ q \in acceptInProgress /\ q \in Requests
          /\ q \in Range(pendingRequests) \/ answer[q] = "expired"
      BY <1>8, <3>1
    <3> HIDE DEF q
    <3>3. Contains(requests, q) \/ answer'[q] = "expired"
      BY <3>2, ContainsIs
    <3> QED BY <1>3, <1>7, <3>1, <3>2, <3>3 DEF q
  <2> QED BY <2>1, <2>2
<1>10. ASSUME NEW t \in TaskIds, tasks[t] # Nothing
       PROVE  /\ tasks[t].request \in Requests
              /\ answer'[tasks[t].request] \in {"assigned", "expired"}
  <2>1. tasks[t] \in Assignments
    BY <1>1, <1>10 DEF TablesTyped
  <2>2. tasks[t].request \in Requests
    BY <2>1 DEF Assignments
  <2>3. answer[tasks[t].request] \in {"assigned", "expired"}
    BY <1>10 DEF TasksInv, RequestsInv, OrphanMeansExpired
  <2> QED BY <2>2, <2>3
<1>11. OrphanMeansExpired'
  BY <1>10 DEF OrphanMeansExpired
<1>12. OneAcceptOrTask'
  <2>1. ASSUME NEW t \in TaskIds, NEW u \in TaskIds, accepting'[t] # Nothing,
               accepting'[u] # Nothing, accepting'[t].request = accepting'[u].request
        PROVE  t = u
    <3>1. CASE t \in used /\ u \in used
      BY <2>1, <3>1 DEF SettledTo
    <3>2. CASE t \notin used /\ u \notin used
      BY <1>5, <2>1, <3>2 DEF TasksInv, RequestsInv, OneAcceptOrTask
    <3>3. CASE t \in used /\ u \notin used
      BY <1>5, <1>6, <1>8, <2>1, <3>3
    <3>4. CASE t \notin used /\ u \in used
      BY <1>5, <1>6, <1>8, <2>1, <3>4
    <3> QED BY <3>1, <3>2, <3>3, <3>4
  <2>2. ASSUME NEW t \in TaskIds, NEW u \in TaskIds, accepting'[t] # Nothing, tasks'[u] # Nothing
        PROVE  accepting'[t].request # tasks'[u].request
    <3>1. CASE t \in used
      BY <1>6, <1>10, <2>2, <3>1
    <3>2. CASE t \notin used
      BY <1>5, <2>2, <3>2 DEF TasksInv, RequestsInv, OneAcceptOrTask
    <3> QED BY <3>1, <3>2
  <2>3. ASSUME NEW t \in TaskIds, NEW u \in TaskIds, tasks'[t] # Nothing, tasks'[u] # Nothing,
               tasks'[t].request = tasks'[u].request
        PROVE  t = u
    BY <2>3 DEF TasksInv, RequestsInv, OneAcceptOrTask
  <2> QED BY <2>1, <2>2, <2>3 DEF OneAcceptOrTask
<1>13. RequestsInv'
  BY <1>4, <1>9, <1>11, <1>12 DEF RequestsInv
<1>14. ChannelsKeep
  <2> SUFFICES ASSUME NEW r \in Runners, NEW i \in DOMAIN toRunner'[r],
                      toRunner'[r][i].type = "settings"
               PROVE  i + 0 \in DOMAIN toRunner[r] /\ toRunner[r][i + 0] = toRunner'[r][i]
    BY DEF ChannelsKeep
  <2> DEFINE x == toRunner[r]
             y == toRunner'[r]
  <2>1. x \in Seq(MessagesToRunner) /\ y \in Seq(MessagesToRunner)
    BY <1>1, <1>2 DEF TablesTyped
  <2>2. /\ Len(x) <= Len(y) /\ \A k \in 1..Len(x) : y[k] = x[k]
        /\ \A k \in (Len(x) + 1)..Len(y) : y[k].type = "accept"
    BY DEF SettledTo
  <2>3. i \in DOMAIN y /\ y[i].type = "settings"
    OBVIOUS
  <2> HIDE DEF x, y
  <2>4. i \in 1..Len(x)
    <3>1. i \in 1..Len(y) /\ Len(x) \in Nat /\ Len(y) \in Nat
      BY <2>1, <2>3
    <3>2. i \notin (Len(x) + 1)..Len(y)
      BY <2>2, <2>3
    <3> QED BY <3>1, <3>2
  <2>5. i + 0 \in DOMAIN x /\ x[i + 0] = y[i]
    BY <2>1, <2>2, <2>4
  <2> QED BY <2>5 DEF x, y
<1>15. ASSUME NEW r \in Runners, NEW i \in DOMAIN toRunner[r], IsSettings(r, i)
       PROVE  owner'[toRunner[r][i].task] = owner[toRunner[r][i].task]
  <2>1. toRunner[r] \in Seq(MessagesToRunner)
    BY <1>1 DEF TablesTyped
  <2>2. toRunner[r][i] \in MessagesToRunner /\ toRunner[r][i] \in Range(toRunner[r])
    BY <2>1 DEF Range
  <2>3. toRunner[r][i].task \in TaskIds
    BY <1>15, <2>2, TaskOfMessage DEF IsSettings
  <2>4. toRunner[r][i].task \in UsedTasks
    BY <2>2, <2>3 DEF UsedTasks
  <2> QED BY <1>5, <2>3, <2>4
<1>16. \A p \in Requests : answer[p] \notin Unanswered => answer'[p] \notin Unanswered
  BY DEF Unanswered
<1>17. \A t \in TaskIds : accepting'[t] # Nothing => accepting[t] # Nothing \/ t \notin UsedTasks
  BY <1>5
<1>18. SettingsInv'
  BY <1>1, <1>2, <1>14, <1>15, <1>16, <1>17, SettingsKept DEF TasksInv
<1> QED BY <1>2, <1>13, <1>18 DEF TasksInv

\* A request comes in: it is refused while the broker drains, and otherwise
\* pending and matched at once where it can be.
LEMMA TaskRequestedTasks ==
    ASSUME TasksInv, NEW q \in Requests, TaskRequested(q)
    PROVE  TasksInv'
<1>1. TablesTyped /\ answer[q] = "idle" /\ UNCHANGED <<toBroker, runnerVars>>
  BY DEF TasksInv, TaskRequested
<1>2. pendingRequests \in Seq(Requests) /\ pendingOffers \in Seq(Offers)
  BY <1>1 DEF TablesTyped
<1>3. ASSUME NEW v, answer' = [answer EXCEPT ![q] = v]
      PROVE  /\ answer'[q] = v
             /\ \A p \in Requests : p # q => answer'[p] = answer[p]
  BY <1>1, <1>3 DEF TablesTyped
<1>4. q \notin Range(pendingRequests)
  BY <1>1 DEF TasksInv, RequestsInv, PendingUnanswered
<1>5. CASE isDraining
  <2>1. /\ answer' = [answer EXCEPT ![q] = "expired"]
        /\ UNCHANGED <<known, pendingOffers, pendingRequests, acceptInProgress, accepting, tasks,
                       isDraining, owner, toRunner>>
    BY <1>5 DEF TaskRequested, Expired, brokerVars
  <2>2. UNCHANGED <<openOffers, runningTasks, canSendOffers, isShuttingDown, executions>>
    BY <1>1 DEF runnerVars
  <2>3. TablesTyped'
    BY <1>1, <2>1, <2>2 DEF TablesTyped
  <2>4. /\ answer'[q] = "expired"
        /\ \A p \in Requests : p # q => answer'[p] = answer[p]
    BY <1>3, <2>1
  <2>5. PendingUnanswered'
    <3>1. \A p \in Range(pendingRequests) : p \in Requests /\ answer[p] = "pending"
      BY <1>2 DEF TasksInv, RequestsInv, PendingUnanswered, Range
    <3> QED BY <1>4, <2>1, <2>4, <3>1 DEF PendingUnanswered
  <2>6. AcceptIsOwners'
    <3> SUFFICES ASSUME NEW u \in TaskIds, accepting[u] # Nothing
                 PROVE  LET p == accepting[u].request IN
                        /\ p = owner[u] /\ p \in acceptInProgress
                        /\ Contains(pendingRequests, p) \/ answer'[p] = "expired"
      BY <2>1 DEF AcceptIsOwners
    <3>1. LET p == accepting[u].request IN
          /\ p = owner[u] /\ p \in acceptInProgress
          /\ Contains(pendingRequests, p) \/ answer[p] = "expired"
      BY DEF TasksInv, RequestsInv, AcceptIsOwners
    <3>2. accepting[u].request \in Requests
      BY <1>1, <3>1 DEF TablesTyped
    <3> QED BY <2>4, <3>1, <3>2
  <2>7. OrphanMeansExpired'
    <3> SUFFICES ASSUME NEW u \in TaskIds, tasks[u] # Nothing
                 PROVE  answer'[tasks[u].request] \in {"assigned", "expired"}
      BY <2>1 DEF OrphanMeansExpired
    <3>1. tasks[u] \in Assignments
      BY <1>1 DEF TablesTyped
    <3>2. tasks[u].request \in Requests
      BY <3>1 DEF Assignments
    <3>3. answer[tasks[u].request] \in {"assigned", "expired"}
      BY DEF TasksInv, RequestsInv, OrphanMeansExpired
    <3> QED BY <2>4, <3>2, <3>3
  <2>8. OffersOfKnown' /\ OneAcceptOrTask'
    BY <2>1 DEF TasksInv, RequestsInv, OffersOfKnown, OneAcceptOrTask
  <2>9. RequestsInv'
    BY <2>5, <2>6, <2>7, <2>8 DEF RequestsInv
  <2>10. ChannelsKeep
    BY <1>1, <2>1, ChannelsUnchanged
  <2>11. \A p \in Requests : answer[p] \notin Unanswered => answer'[p] \notin Unanswered
    BY <2>4 DEF Unanswered
  <2> QED BY <2>1, <2>2, <2>3, <2>9, <2>10, <2>11, BrokerSide
<1>6. CASE ~isDraining
  <2> DEFINE requests == Append(pendingRequests, q)
  <2>1. /\ answer' = [answer EXCEPT ![q] = "pending"]
        /\ SettleTasks(pendingOffers, requests) /\ UNCHANGED <<known, tasks, isDraining>>
    BY <1>6 DEF TaskRequested
  <2>2. requests \in Seq(Requests) /\ Range(requests) = Range(pendingRequests) \cup {q}
    BY <1>2, AppendRange
  <2> HIDE DEF requests
  <2>3. PICK used \in SUBSET (TaskIds \ UsedTasks) : SettledTo(pendingOffers, requests, used)
    BY <1>1, <1>2, <2>1, <2>2, SettleTasksSettles
  <2>4. /\ answer'[q] = "pending"
        /\ \A p \in Requests : p # q => answer'[p] = answer[p]
    BY <1>3, <2>1
  <2>5. answer' \in [Requests -> {"idle", "pending", "assigned", "done", "error", "cancelled",
                                  "expired"}]
    BY <1>1, <2>1 DEF TablesTyped
  <2>6. \A p \in Range(requests) : answer'[p] = "pending"
    <3>1. \A p \in Range(pendingRequests) : p \in Requests /\ answer[p] = "pending"
      BY <1>2 DEF TasksInv, RequestsInv, PendingUnanswered, Range
    <3> QED BY <2>2, <2>4, <3>1
  <2>7. \A p \in Requests : answer[p] # "idle" => answer'[p] = answer[p]
    BY <1>1, <2>4
  <2>8. \A o \in Range(pendingOffers) : o.runner \in known
    BY DEF TasksInv, RequestsInv, OffersOfKnown
  <2>9. toBroker' \in [Runners -> Seq(MessagesToBroker)]
    BY <1>1 DEF TablesTyped
  <2>10. Range(pendingRequests) \subseteq Range(requests)
    BY <2>2
  <2> QED BY <1>1, <2>1, <2>2, <2>3, <2>5, <2>6, <2>7, <2>8, <2>9, <2>10, SettleKeeps
<1> QED BY <1>5, <1>6

\* An offer comes in and may be matched at once.
LEMMA TaskOfferedTasks ==
    ASSUME TasksInv, NEW r \in Runners, TaskOffered(r)
    PROVE  TasksInv'
<1> DEFINE o == [runner |-> r, offer |-> Head(toBroker[r]).offer]
           offers == Append(pendingOffers, o)
<1>1. TablesTyped /\ Received(r, "offer") /\ Consume(r)
  BY DEF TasksInv, TaskOffered
<1>2. pendingRequests \in Seq(Requests) /\ pendingOffers \in Seq(Offers)
  BY <1>1 DEF TablesTyped
<1>3. /\ toBroker' \in [Runners -> Seq(MessagesToBroker)]
      /\ Head(toBroker[r]) \in MessagesToBroker /\ Head(toBroker[r]).type = "offer"
  BY <1>1, ReceiveTyped
<1>4. o \in Offers /\ o.runner \in known
  <2>1. Head(toBroker[r]).offer \in OfferIds
    BY <1>3, TaskOfMessage
  <2> QED BY <1>1, <2>1 DEF Offers, Received
<1>5. SettleTasks(offers, pendingRequests)
  BY DEF TaskOffered
<1>6. UNCHANGED <<known, tasks, isDraining, runnerVars, answer>>
  BY DEF TaskOffered
<1> HIDE DEF o
<1>7. offers \in Seq(Offers) /\ Range(offers) = Range(pendingOffers) \cup {o}
  BY <1>2, <1>4, AppendRange
<1> HIDE DEF offers
<1>8. PICK used \in SUBSET (TaskIds \ UsedTasks) : SettledTo(offers, pendingRequests, used)
  BY <1>1, <1>2, <1>5, <1>7, SettleTasksSettles
<1>9. \A p \in Range(offers) : p.runner \in known
  BY <1>4, <1>7 DEF TasksInv, RequestsInv, OffersOfKnown
<1>10. \A p \in Range(pendingRequests) : answer'[p] = "pending"
  BY <1>6 DEF TasksInv, RequestsInv, PendingUnanswered
<1>11. answer' \in [Requests -> {"idle", "pending", "assigned", "done", "error", "cancelled",
                                 "expired"}]
  BY <1>1, <1>6 DEF TablesTyped
<1> QED BY <1>2, <1>3, <1>6, <1>8, <1>9, <1>10, <1>11, SettleKeeps

\* A step of the broker that only takes a message in.
LEMMA IgnoredTasks ==
    ASSUME TasksInv, UNCHANGED <<brokerVars, toRunner, runnerVars, answer>>,
           toBroker' \in [Runners -> Seq(MessagesToBroker)]
    PROVE  TasksInv'
<1>1. UNCHANGED <<known, pendingOffers, pendingRequests, acceptInProgress, accepting, tasks,
                  isDraining, owner, toRunner, openOffers, runningTasks, canSendOffers,
                  isShuttingDown, executions, answer>>
  BY DEF brokerVars, runnerVars
<1>2. TablesTyped
  BY DEF TasksInv
<1>3. TablesTyped'
  BY <1>1, <1>2 DEF TablesTyped
<1>4. RequestsInv'
  BY <1>1 DEF TasksInv, RequestsInv, OffersOfKnown, PendingUnanswered, AcceptIsOwners,
              OneAcceptOrTask, OrphanMeansExpired
<1>5. ChannelsKeep
  BY <1>1, <1>2, ChannelsUnchanged
<1> QED BY <1>1, <1>3, <1>4, <1>5, BrokerSide

\* A reject, for an accept that is open or one that timed out.
LEMMA HandleRunnerRejectTasks ==
    ASSUME TasksInv, NEW r \in Runners, HandleRunnerReject(r)
    PROVE  TasksInv'
<1> DEFINE t == Head(toBroker[r]).task
<1>1. TablesTyped /\ Received(r, "rejected") /\ Consume(r)
  BY DEF TasksInv, HandleRunnerReject
<1>2. /\ toBroker' \in [Runners -> Seq(MessagesToBroker)]
      /\ Head(toBroker[r]) \in MessagesToBroker /\ Head(toBroker[r]).type = "rejected"
  BY <1>1, ReceiveTyped
<1>3. t \in TaskIds
  BY <1>2, TaskOfMessage
<1>4. UNCHANGED <<known, pendingOffers, pendingRequests, tasks, isDraining, owner, toRunner,
                  runnerVars, answer>>
  BY DEF HandleRunnerReject
<1>5. CASE accepting[t] = Nothing
  <2>1. UNCHANGED <<accepting, acceptInProgress>>
    BY <1>5 DEF HandleRunnerReject
  <2>2. UNCHANGED <<brokerVars, toRunner, runnerVars, answer>>
    BY <1>4, <2>1 DEF brokerVars
  <2> QED BY <1>2, <2>2, IgnoredTasks
<1>6. CASE accepting[t] # Nothing
  <2>1. AcceptFailed(t)
    BY <1>6 DEF HandleRunnerReject
  <2> HIDE DEF t
  <2> QED BY <1>2, <1>3, <1>4, <1>6, <2>1, AcceptFailedTasks
<1> QED BY <1>5, <1>6

\* A result or an error, for a task the broker still holds or one it has given up.
LEMMA HandleTaskEndTasks ==
    ASSUME TasksInv, NEW r \in Runners, NEW type \in {"done", "error"}, HandleTaskEnd(r, type)
    PROVE  TasksInv'
<1> DEFINE t == Head(toBroker[r]).task
<1>1. TablesTyped /\ Received(r, type) /\ Consume(r)
  BY DEF TasksInv, HandleTaskEnd
<1>2. /\ toBroker' \in [Runners -> Seq(MessagesToBroker)]
      /\ Head(toBroker[r]) \in MessagesToBroker /\ Head(toBroker[r]).type = type
  BY <1>1, ReceiveTyped
<1>3. t \in TaskIds
  BY <1>2, TaskOfMessage
<1>4. UNCHANGED <<known, pendingOffers, pendingRequests, acceptInProgress, accepting,
                  isDraining, owner, toRunner, runnerVars>>
  BY DEF HandleTaskEnd
<1>5. CASE tasks[t] = Nothing
  <2>1. UNCHANGED <<tasks, answer>>
    BY <1>5 DEF HandleTaskEnd
  <2>2. UNCHANGED <<brokerVars, toRunner, runnerVars, answer>>
    BY <1>4, <2>1 DEF brokerVars
  <2> QED BY <1>2, <2>2, IgnoredTasks
<1>6. CASE tasks[t] # Nothing
  <2>1. Answer(t, type) /\ tasks' = [tasks EXCEPT ![t] = Nothing]
    BY <1>6 DEF HandleTaskEnd
  <2>2. ChannelsKeep /\ toRunner' \in [Runners -> Seq(MessagesToRunner)]
    BY <1>1, <1>4, ChannelsUnchanged DEF TablesTyped
  <2> HIDE DEF t
  <2> QED BY <1>2, <1>3, <1>4, <1>6, <2>1, <2>2, TaskEndTasks
<1> QED BY <1>5, <1>6

\* The task timer of the broker and the requester's cancel: the task is given
\* up and its runner told.
LEMMA GiveUpTasks ==
    ASSUME TasksInv, NEW t \in TaskIds, HandleTaskTimeout(t) \/ CancelTask(t)
    PROVE  TasksInv'
<1> DEFINE m == Message("cancel", t, Nothing)
           r == tasks[t].runner
<1>1. TablesTyped
  BY DEF TasksInv
<1>2. PICK s \in {"error", "cancelled"} : Answer(t, s)
  BY DEF HandleTaskTimeout, CancelTask
<1>3. /\ tasks[t] # Nothing /\ tasks' = [tasks EXCEPT ![t] = Nothing]
      /\ toRunner' = [toRunner EXCEPT ![r] = Append(@, m)]
      /\ UNCHANGED <<known, pendingOffers, pendingRequests, acceptInProgress, accepting,
                     isDraining, owner, toBroker, runnerVars>>
  BY DEF HandleTaskTimeout, CancelTask
<1>4. tasks[t] \in Assignments
  BY <1>1, <1>3 DEF TablesTyped
<1>5. r \in Runners
  BY <1>4 DEF Assignments
<1>6. m \in MessagesToRunner /\ m.type # "settings"
  BY DEF Message, MessagesToRunner
<1>7. ChannelsKeep /\ toRunner' \in [Runners -> Seq(MessagesToRunner)]
  <2> HIDE DEF m, r
  <2> QED BY <1>1, <1>3, <1>5, <1>6, SendKeeps
<1>8. toBroker' \in [Runners -> Seq(MessagesToBroker)]
  BY <1>1, <1>3 DEF TablesTyped
<1> HIDE DEF m, r
<1> QED BY <1>2, <1>3, <1>7, <1>8, TaskEndTasks

-----------------------------------------------------------------------------
(* The broker's invariant *)

\* At the start the broker knows no runner and no request.
LEMMA TasksInvInit == BrokerInit => TasksInv
<1> SUFFICES ASSUME BrokerInit PROVE TasksInv
  OBVIOUS
<1>1. TablesTyped
  <2>1. /\ known \subseteq Runners /\ isDraining \in BOOLEAN
        /\ pendingOffers \in Seq(Offers) /\ pendingRequests \in Seq(Requests)
        /\ acceptInProgress \subseteq Requests
    <3>1. /\ known = {} /\ acceptInProgress = {}
          /\ pendingOffers = <<>> /\ pendingRequests = <<>>
      BY DEF BrokerInit
    <3>2. isDraining \in BOOLEAN
      BY Zenon DEF BrokerInit
    <3> QED BY <3>1, <3>2
  <2>2. /\ accepting \in [TaskIds -> Assignments \cup {Nothing}]
        /\ tasks \in [TaskIds -> Assignments \cup {Nothing}]
        /\ owner \in [TaskIds -> Requests \cup {Nothing}]
    BY DEF BrokerInit
  <2>3. /\ toRunner \in [Runners -> Seq(MessagesToRunner)]
        /\ toBroker \in [Runners -> Seq(MessagesToBroker)]
    BY DEF BrokerInit
  <2>4. /\ openOffers \in [Runners -> SUBSET OfferIds]
        /\ runningTasks \in [Runners -> [TaskIds -> TaskStatus]]
        /\ canSendOffers \in [Runners -> BOOLEAN] /\ isShuttingDown \in [Runners -> BOOLEAN]
    BY DEF BrokerInit, TaskStatus
  <2>5. /\ answer \in [Requests -> {"idle", "pending", "assigned", "done", "error", "cancelled",
                                    "expired"}]
        /\ executions \in [Requests -> Nat]
    BY DEF BrokerInit
  <2> QED BY <2>1, <2>2, <2>3, <2>4, <2>5 DEF TablesTyped
<1>2. RequestsInv
  <2>1. Range(pendingOffers) = {} /\ Range(pendingRequests) = {}
    BY DEF BrokerInit, Range
  <2>2. \A t \in TaskIds : accepting[t] = Nothing /\ tasks[t] = Nothing
    BY DEF BrokerInit
  <2> QED BY <2>1, <2>2 DEF RequestsInv, OffersOfKnown, PendingUnanswered, AcceptIsOwners,
                            OneAcceptOrTask, OrphanMeansExpired
<1>3. SettingsInv
  <2>1. \A r \in Runners : DOMAIN toRunner[r] = {} /\ Range(toRunner[r]) = {}
    BY DEF BrokerInit, Range
  <2>2. \A t \in TaskIds : accepting[t] = Nothing
    BY DEF BrokerInit
  <2>3. \A q \in Requests : executions[q] = 0
    BY DEF BrokerInit
  <2> QED BY <2>1, <2>2, <2>3 DEF SettingsInv, AcceptedNotStarted, SettingsBeforeStart,
                                  SettingsOnce, StartedOnce, SettingsAreExpected
<1> QED BY <1>1, <1>2, <1>3 DEF TasksInv

\* Every step of the broker, of a runner and of their timers preserves it.
LEMMA TasksInvNext == TasksInv /\ RunnerInv /\ RunnerInv' /\ [Next]_vars => TasksInv'
<1> SUFFICES ASSUME TasksInv, RunnerInv, RunnerInv', [Next]_vars PROVE TasksInv'
  OBVIOUS
<1>1. toBroker \in [Runners -> Seq(MessagesToBroker)]
  BY DEF TasksInv, TablesTyped
<1>2. CASE UNCHANGED vars
  <2>1. UNCHANGED <<brokerVars, toRunner, toBroker, runnerVars, answer>>
    BY <1>2 DEF vars
  <2> QED BY <1>1, <2>1, IgnoredTasks
<1>3. ASSUME NEW q \in Requests, TaskRequested(q) \/ HandleRequestTimeout(q)
      PROVE  TasksInv'
  BY <1>3, TaskRequestedTasks, RequestTimeoutTasks
<1>4. ASSUME NEW t \in TaskIds, AcceptTimeout(t) PROVE TasksInv'
  BY <1>1, <1>4, AcceptFailedTasks DEF AcceptTimeout
<1>5. ASSUME NEW t \in TaskIds, HandleTaskTimeout(t) \/ CancelTask(t) PROVE TasksInv'
  BY <1>5, GiveUpTasks
<1>6. ASSUME NEW r \in Runners, RegisterRunner(r) PROVE TasksInv'
  BY <1>6, RegisterRunnerTasks
<1>7. ASSUME NEW r \in Runners, Disconnect(r) \/ CloseRunner(r) PROVE TasksInv'
  BY <1>7, RunnerGoneTasks DEF Disconnect, CloseRunner
<1>8. ASSUME NEW r \in Runners, BrokerReceives(r) PROVE TasksInv'
  BY <1>8, TaskOfferedTasks, HandleRunnerAcceptTasks, HandleRunnerRejectTasks,
     HandleTaskEndTasks DEF BrokerReceives
<1>9. ASSUME NEW r \in Runners, RunnerReceives(r) PROVE TasksInv'
  BY <1>9, OfferAcceptedTasks, TaskCancelledTasks, ReceivedSettingsTasks, RunnerIdleTasks
     DEF RunnerReceives
<1>10. ASSUME NEW r \in Runners, OfferInterval(r) \/ StopRunner(r) PROVE TasksInv'
  BY <1>10, RunnerIdleTasks
<1>11. ASSUME NEW r \in Runners, NEW t \in TaskIds, TaskTimedOut(r, t) \/ TaskExecuted(r, t)
       PROVE  TasksInv'
  BY <1>11, TaskEndsTasks
<1>12. CASE StartDraining
  BY <1>12, StartDrainingTasks
<1> QED BY <1>2, <1>3, <1>4, <1>5, <1>6, <1>7, <1>8, <1>9, <1>10, <1>11, <1>12 DEF Next

\* The tables of broker, requesters and runners stay consistent, in any order of
\* messages, timers, lost connections and restarts of runners.
THEOREM BrokerInvariant == Spec => []TasksInv
BY RunnerInvInit, RunnerInvNext, TasksInvInit, TasksInvNext, PTL DEF Spec

\* BrokerTypeOK: deregisterRunner() leaves no offer of a runner that is gone.
THEOREM BrokerTypes == Spec => []BrokerTypeOK
<1>1. TasksInv => BrokerTypeOK
  <2> SUFFICES ASSUME TasksInv PROVE BrokerTypeOK
    OBVIOUS
  <2>1. TablesTyped
    BY DEF TasksInv
  <2>2. \A o \in Range(pendingOffers) : o.runner \in known /\ o.offer \in OfferIds
    <3>1. pendingOffers \in Seq(Offers)
      BY <2>1 DEF TablesTyped
    <3>2. \A o \in Range(pendingOffers) : o \in Offers
      BY <3>1 DEF Range
    <3> QED BY <3>2 DEF TasksInv, RequestsInv, OffersOfKnown, Offers
  <2>3. Range(pendingRequests) \subseteq Requests
    <3>1. pendingRequests \in Seq(Requests)
      BY <2>1 DEF TablesTyped
    <3> QED BY <3>1 DEF Range
  <2>4. \A t \in TaskIds : \A a \in {accepting[t], tasks[t]} \ {Nothing} :
          a.request \in Requests /\ a.runner \in Runners
    <3>1. \A t \in TaskIds : \A a \in {accepting[t], tasks[t]} \ {Nothing} : a \in Assignments
      BY <2>1 DEF TablesTyped
    <3>2. \A a \in Assignments : a.request \in Requests /\ a.runner \in Runners
      BY DEF Assignments
    <3> QED BY <3>1, <3>2
  <2> QED BY <2>1, <2>2, <2>3, <2>4 DEF BrokerTypeOK, TablesTyped
<1> QED BY <1>1, BrokerInvariant, PTL

\* OrphanMeansExpired: a task without a requester is that of a request which
\* expired while its accept was under way, however acceptOffer()'s awaits and
\* the timers interleave.
THEOREM OrphansAreExpired == Spec => []OrphanMeansExpired
<1>1. TasksInv => OrphanMeansExpired
  BY DEF TasksInv, RequestsInv
<1> QED BY <1>1, BrokerInvariant, PTL

\* ExecutedOnce: through rejects, timeouts, lost connections and retries, the
\* code of a request is started at most once.
THEOREM CodeStartsOnce == Spec => []ExecutedOnce
<1>1. TasksInv => ExecutedOnce
  BY DEF TasksInv, SettingsInv, StartedOnce, ExecutedOnce
<1> QED BY <1>1, BrokerInvariant, PTL

\* SettingsAreExpected: the states of which receivedSettings() says "These states
\* should never happen" do not happen.
THEOREM SettingsExpected == Spec => []SettingsAreExpected
<1>1. TasksInv => SettingsAreExpected
  BY DEF TasksInv, SettingsInv
<1> QED BY <1>1, BrokerInvariant, PTL
=============================================================================
