-------------------------- MODULE TestRunnerProofs --------------------------
(***************************************************************************)
(* Proofs about evaluation runs, for any number of runs, cases and         *)
(* cancels: the status of a run that ended is final, a run that ended      *)
(* without a fault leaves no case pending, the gate keeps its accounts     *)
(* when an abort evicts cases, and with an effective concurrency of 1 a    *)
(* case that is over holds no slot.                                        *)
(***************************************************************************)
EXTENDS TestRunner, ConcurrencyControlProofs

\* At the start nothing has been seeded.
LEMMA EvalInvInit == TestRunnerInit => EvalInv
BY TestRunnerAssumption
   DEF TestRunnerInit, EvalInv, EvalTypeOK, CasesOK, CaseOK, ListensWhileAcquiring,
       EndedIsTerminal, Pending, Terminal, InFlight

-----------------------------------------------------------------------------
(* executeTestRun() and the callbacks of its cases *)

\* The abort controller is registered; no row is written.
LEMMA StartRunEvalInv ==
    ASSUME EvalInv, NEW u \in Runs, StartRun(u)
    PROVE  EvalInv'
<1> USE TestRunnerAssumption
<1>1. EvalTypeOK'
  BY DEF EvalInv, EvalTypeOK, StartRun, caseVars, Pending, Terminal, InFlight
<1>2. CasesOK'
  BY DEF EvalInv, EvalTypeOK, CasesOK, CaseOK, ListensWhileAcquiring, StartRun, caseVars, Pending
<1>3. ListensWhileAcquiring'
  BY DEF EvalInv, EvalTypeOK, CasesOK, CaseOK, ListensWhileAcquiring, StartRun, caseVars
<1>4. EndedIsTerminal'
  BY DEF EvalInv, EvalTypeOK, EndedIsTerminal, StartRun, caseVars, Terminal, Pending
<1> QED BY <1>1, <1>2, <1>3, <1>4 DEF EvalInv

\* The run's row says running; nothing has been seeded yet.
LEMMA MarkAsRunningEvalInv ==
    ASSUME EvalInv, NEW u \in Runs, MarkAsRunning(u)
    PROVE  EvalInv'
<1> USE TestRunnerAssumption
<1>1. EvalTypeOK'
  BY DEF EvalInv, EvalTypeOK, MarkAsRunning, caseVars, Pending, Terminal, InFlight
<1>2. CasesOK'
  BY DEF EvalInv, EvalTypeOK, CasesOK, CaseOK, ListensWhileAcquiring, MarkAsRunning, caseVars, Pending
<1>3. ListensWhileAcquiring'
  BY DEF EvalInv, EvalTypeOK, CasesOK, CaseOK, ListensWhileAcquiring, MarkAsRunning, caseVars
<1>4. EndedIsTerminal'
  BY DEF EvalInv, EvalTypeOK, EndedIsTerminal, MarkAsRunning, caseVars, Terminal, Pending
<1> QED BY <1>1, <1>2, <1>3, <1>4 DEF EvalInv

\* One row per case of the run; the cases of other runs keep theirs.
LEMMA SeedCasesEvalInv ==
    ASSUME EvalInv, NEW u \in Runs, SeedCases(u)
    PROVE  EvalInv'
<1> USE TestRunnerAssumption
<1>1. EvalTypeOK'
  BY DEF EvalInv, EvalTypeOK, SeedCases, Pending, Terminal, InFlight
<1>2. CasesOK'
  BY DEF EvalInv, EvalTypeOK, CasesOK, CaseOK, ListensWhileAcquiring, SeedCases, Pending
<1>3. ListensWhileAcquiring'
  BY DEF EvalInv, EvalTypeOK, CasesOK, CaseOK, ListensWhileAcquiring, SeedCases
<1>4. EndedIsTerminal'
  BY DEF EvalInv, EvalTypeOK, EndedIsTerminal, SeedCases, Terminal, Pending
<1> QED BY <1>1, <1>2, <1>3, <1>4 DEF EvalInv

\* The run ends before a case exists.
LEMMA FetchFailsEvalInv ==
    ASSUME EvalInv, NEW u \in Runs, FetchFails(u)
    PROVE  EvalInv'
<1> USE TestRunnerAssumption
<1>1. EvalTypeOK'
  BY DEF EvalInv, EvalTypeOK, FetchFails, Close, caseVars, Pending, Terminal, InFlight
<1>2. CasesOK'
  BY DEF EvalInv, EvalTypeOK, CasesOK, CaseOK, ListensWhileAcquiring, FetchFails, Close, caseVars, Pending
<1>3. ListensWhileAcquiring'
  BY DEF EvalInv, EvalTypeOK, CasesOK, CaseOK, ListensWhileAcquiring, FetchFails, Close, caseVars
<1>4. EndedIsTerminal'
  BY DEF EvalInv, EvalTypeOK, EndedIsTerminal, FetchFails, Close, caseVars, Terminal, Pending
<1> QED BY <1>1, <1>2, <1>3, <1>4 DEF EvalInv

\* All callbacks returned: the sweep, or the rows the cases wrote, leave none pending.
LEMMA EndRunEvalInv ==
    ASSUME EvalInv, NEW u \in Runs, EndRun(u)
    PROVE  EvalInv'
<1> USE TestRunnerAssumption
<1>1. EvalTypeOK'
  BY DEF EvalInv, EvalTypeOK, EndRun, Close, Cases, Swept, Pending, Terminal, InFlight
<1>2. CasesOK'
  BY DEF EvalInv, EvalTypeOK, CasesOK, CaseOK, ListensWhileAcquiring, EndRun, Close, Cases, Swept, Pending
<1>3. ListensWhileAcquiring'
  BY DEF EvalInv, EvalTypeOK, CasesOK, CaseOK, ListensWhileAcquiring, EndRun, Close, Cases, Swept
<1>4. EndedIsTerminal'
  BY DEF EvalInv, EvalTypeOK, EndedIsTerminal, EndRun, Close, Cases, Swept, Terminal, Pending
<1> QED BY <1>1, <1>2, <1>3, <1>4 DEF EvalInv

\* A case begins, or returns at once when the run has been aborted.
LEMMA StartCaseEvalInv ==
    ASSUME EvalInv, NEW c \in Callers, StartCase(c)
    PROVE  EvalInv'
<1> USE TestRunnerAssumption
<1>1. EvalTypeOK'
  BY DEF EvalInv, EvalTypeOK, StartCase, runVars, Pending, Terminal, InFlight
<1>2. CasesOK'
  BY DEF EvalInv, EvalTypeOK, CasesOK, CaseOK, ListensWhileAcquiring, StartCase, runVars, Pending
<1>3. ListensWhileAcquiring'
  BY DEF EvalInv, EvalTypeOK, CasesOK, CaseOK, ListensWhileAcquiring, StartCase, runVars
<1>4. EndedIsTerminal'
  BY DEF EvalInv, EvalTypeOK, EndedIsTerminal, StartCase, runVars, Terminal, Pending
<1> QED BY <1>1, <1>2, <1>3, <1>4 DEF EvalInv

\* A case is claimed, or has been canceled meanwhile.
LEMMA ClaimCaseEvalInv ==
    ASSUME EvalInv, NEW c \in Callers, ClaimCase(c)
    PROVE  EvalInv'
<1> USE TestRunnerAssumption
<1>1. EvalTypeOK'
  BY DEF EvalInv, EvalTypeOK, ClaimCase, runVars, Pending, Terminal, InFlight
<1>2. CasesOK'
  BY DEF EvalInv, EvalTypeOK, CasesOK, CaseOK, ListensWhileAcquiring, ClaimCase, runVars, Pending
<1>3. ListensWhileAcquiring'
  BY DEF EvalInv, EvalTypeOK, CasesOK, CaseOK, ListensWhileAcquiring, ClaimCase, runVars
<1>4. EndedIsTerminal'
  BY DEF EvalInv, EvalTypeOK, EndedIsTerminal, ClaimCase, runVars, Terminal, Pending
<1> QED BY <1>1, <1>2, <1>3, <1>4 DEF EvalInv

\* A case joins the queue and listens.
LEMMA AcquireEvalInv ==
    ASSUME EvalInv, NEW c \in Callers, Acquire(c)
    PROVE  EvalInv'
<1> USE TestRunnerAssumption
<1>1. EvalTypeOK'
  BY DEF EvalInv, EvalTypeOK, Acquire, runVars, Pending, Terminal, InFlight
<1>2. CasesOK'
  BY DEF EvalInv, EvalTypeOK, CasesOK, CaseOK, ListensWhileAcquiring, Acquire, runVars, Pending
<1>3. ListensWhileAcquiring'
  BY DEF EvalInv, EvalTypeOK, CasesOK, CaseOK, ListensWhileAcquiring, Acquire, runVars
<1>4. EndedIsTerminal'
  BY DEF EvalInv, EvalTypeOK, EndedIsTerminal, Acquire, runVars, Terminal, Pending
<1> QED BY <1>1, <1>2, <1>3, <1>4 DEF EvalInv

\* A case has its slot: it runs, or returns it when the run has been aborted.
LEMMA ProceedEvalInv ==
    ASSUME EvalInv, NEW c \in Callers, Proceed(c)
    PROVE  EvalInv'
<1> USE TestRunnerAssumption
<1>1. EvalTypeOK'
  BY DEF EvalInv, EvalTypeOK, Proceed, runVars, Pending, Terminal, InFlight
<1>2. CasesOK'
  BY DEF EvalInv, EvalTypeOK, CasesOK, CaseOK, ListensWhileAcquiring, Proceed, runVars, Pending
<1>3. ListensWhileAcquiring'
  BY DEF EvalInv, EvalTypeOK, CasesOK, CaseOK, ListensWhileAcquiring, Proceed, runVars
<1>4. EndedIsTerminal'
  BY DEF EvalInv, EvalTypeOK, EndedIsTerminal, Proceed, runVars, Terminal, Pending
<1> QED BY <1>1, <1>2, <1>3, <1>4 DEF EvalInv

\* A case ends; without an abort its row has been written.
LEMMA FinishCaseEvalInv ==
    ASSUME EvalInv, NEW c \in Callers, FinishCase(c)
    PROVE  EvalInv'
<1> USE TestRunnerAssumption
<1>1. EvalTypeOK'
  BY DEF EvalInv, EvalTypeOK, FinishCase, runVars, Pending, Terminal, InFlight
<1>2. CasesOK'
  BY DEF EvalInv, EvalTypeOK, CasesOK, CaseOK, ListensWhileAcquiring, FinishCase, runVars, Pending
<1>3. ListensWhileAcquiring'
  BY DEF EvalInv, EvalTypeOK, CasesOK, CaseOK, ListensWhileAcquiring, FinishCase, runVars
<1>4. EndedIsTerminal'
  BY DEF EvalInv, EvalTypeOK, EndedIsTerminal, FinishCase, runVars, Terminal, Pending
<1> QED BY <1>1, <1>2, <1>3, <1>4 DEF EvalInv

\* A user cancels a case that has not begun.
LEMMA CancelCaseEvalInv ==
    ASSUME EvalInv, NEW c \in Callers, CancelCase(c)
    PROVE  EvalInv'
<1> USE TestRunnerAssumption
<1>1. EvalTypeOK'
  BY DEF EvalInv, EvalTypeOK, CancelCase, runVars, Pending, Terminal, InFlight
<1>2. CasesOK'
  BY DEF EvalInv, EvalTypeOK, CasesOK, CaseOK, ListensWhileAcquiring, CancelCase, runVars, Pending
<1>3. ListensWhileAcquiring'
  BY DEF EvalInv, EvalTypeOK, CasesOK, CaseOK, ListensWhileAcquiring, CancelCase, runVars
<1>4. EndedIsTerminal'
  BY DEF EvalInv, EvalTypeOK, EndedIsTerminal, CancelCase, runVars, Terminal, Pending
<1> QED BY <1>1, <1>2, <1>3, <1>4 DEF EvalInv

\* A case that throws fails its run, of which nothing is promised then; a run
\* that a case outlived has failed already.
LEMMA CaseThrowsEvalInv ==
    ASSUME EvalInv, NEW c \in Callers, CaseThrows(c)
    PROVE  EvalInv'
<1> USE TestRunnerAssumption
<1> DEFINE u == RunOf[c]
<1>1. EvalTypeOK'
  BY DEF EvalInv, EvalTypeOK, CaseThrows, Close, Pending, Terminal, InFlight
<1>2. CasesOK'
  <2>1. /\ UNCHANGED <<caseRow, aborted>> /\ stage' = [stage EXCEPT ![c] = "finished"]
        /\ stage[c] \in {"claiming", "claimed", "running"}
    BY DEF CaseThrows
  <2>2. /\ CaseOK(runStage[u], runStatus[u], aborted[u], caseRow[c], stage[c])
        /\ u \in Runs
        /\ runStage[u] \in {"off", "marking", "fetching", "fanout", "ended"}
    BY DEF EvalInv, EvalTypeOK, CasesOK
  <2>3. runStage[u] = "fanout" \/ (runStage[u] = "ended" /\ runStatus[u] = "error")
    BY <2>1, <2>2 DEF CaseOK
  <2>4. /\ runStage'[u] = "ended" /\ runStatus'[u] = "error"
        /\ \A v \in Runs : v # u => runStage'[v] = runStage[v] /\ runStatus'[v] = runStatus[v]
    <3>1. /\ u \in Runs
          /\ runStage \in [Runs -> {"off", "marking", "fetching", "fanout", "ended"}]
          /\ runStatus \in [Runs -> Pending \cup Terminal]
      BY DEF EvalInv, EvalTypeOK
    <3>2. CASE runStage[u] = "fanout"
      <4>1. /\ runStatus' = [runStatus EXCEPT ![u] = "error"]
            /\ runStage' = [runStage EXCEPT ![u] = "ended"]
        BY <3>2 DEF CaseThrows, Close
      <4> HIDE DEF u
      <4> QED BY <3>1, <4>1
    <3>3. CASE runStage[u] # "fanout"
      <4>1. UNCHANGED <<runStatus, runStage>>
        BY <3>3 DEF CaseThrows
      <4> QED BY <2>3, <3>3, <4>1
    <3> QED BY <3>2, <3>3
  <2>5. ASSUME NEW d \in Callers
        PROVE  CaseOK(runStage[RunOf[d]], runStatus[RunOf[d]], aborted[RunOf[d]], caseRow[d],
                      stage[d])'
    <3>1. CASE RunOf[d] = u
      BY <2>4, <3>1 DEF CaseOK
    <3>2. CASE RunOf[d] # u
      <4>1. d # c /\ RunOf[d] \in Runs
        BY <3>2
      <4>2. stage'[d] = stage[d]
        BY <2>1, <4>1 DEF EvalInv, EvalTypeOK
      <4>3. CaseOK(runStage[RunOf[d]], runStatus[RunOf[d]], aborted[RunOf[d]], caseRow[d],
                   stage[d])
        BY DEF EvalInv, CasesOK
      <4> QED BY <2>1, <2>4, <3>2, <4>1, <4>2, <4>3 DEF CaseOK
    <3> QED BY <3>1, <3>2
  <2> QED BY <2>5 DEF CasesOK
<1>3. ListensWhileAcquiring'
  BY DEF EvalInv, EvalTypeOK, ListensWhileAcquiring, CaseThrows
<1>4. EndedIsTerminal'
  BY DEF EvalInv, EvalTypeOK, EndedIsTerminal, CaseThrows, Close, Terminal, Pending
<1> QED BY <1>1, <1>2, <1>3, <1>4 DEF EvalInv

-----------------------------------------------------------------------------
(* Cancellation *)

\* The abort signal ends cases of its own run only, and only cases that had
\* been claimed: those that listen, and the one that saw the flag.
LEMMA AbortEvalInv ==
    ASSUME EvalInv, NEW u \in Runs, NEW except,
           \A c \in Callers : c \in except => RunOf[c] = u /\ stage[c] = "claimed",
           Abort(u, except), UNCHANGED <<runStatus, runStage, caseRow>>
    PROVE  EvalInv'
<1> USE TestRunnerAssumption
<1>1. /\ aborted' = [aborted EXCEPT ![u] = TRUE]
      /\ listening' = [c \in Callers |-> listening[c] /\ RunOf[c] # u]
      /\ stage' \in [Callers -> InFlight \cup {"off", "queued", "finished"}]
      /\ \A c \in Callers :
           \/ stage'[c] = stage[c]
           \/ RunOf[c] = u /\ stage[c] \in {"claimed", "acquiring"} /\ stage'[c] = "finished"
      /\ \A c \in Callers : RunOf[c] # u => stage'[c] = stage[c]
  BY DEF Abort, Loses, EvalInv, EvalTypeOK, ListensWhileAcquiring
<1>2. EvalTypeOK'
  BY <1>1 DEF EvalInv, EvalTypeOK
<1>3. CasesOK'
  <2> SUFFICES ASSUME NEW c \in Callers
               PROVE  CaseOK(runStage[RunOf[c]], runStatus[RunOf[c]], aborted[RunOf[c]],
                             caseRow[c], stage[c])'
    BY DEF CasesOK
  <2>1. /\ CaseOK(runStage[RunOf[c]], runStatus[RunOf[c]], aborted[RunOf[c]], caseRow[c],
                  stage[c])
        /\ RunOf[c] \in Runs
    BY DEF EvalInv, CasesOK
  <2>2. CASE stage'[c] = stage[c]
    <3>1. aborted'[RunOf[c]] = aborted[RunOf[c]] \/ aborted'[RunOf[c]] = TRUE
      BY <1>1, <2>1 DEF EvalInv, EvalTypeOK
    <3> QED BY <2>1, <2>2, <3>1 DEF CaseOK
  <2>3. CASE /\ RunOf[c] = u /\ stage[c] \in {"claimed", "acquiring"}
             /\ stage'[c] = "finished"
    <3>1. aborted'[RunOf[c]] = TRUE
      BY <1>1, <2>3 DEF EvalInv, EvalTypeOK
    <3> QED BY <2>1, <2>3, <3>1 DEF CaseOK
  <2> QED BY <1>1, <2>2, <2>3
<1>4. ListensWhileAcquiring'
  BY <1>1 DEF EvalInv, EvalTypeOK, ListensWhileAcquiring
<1>5. EndedIsTerminal'
  BY DEF EvalInv, EndedIsTerminal
<1> QED BY <1>2, <1>3, <1>4, <1>5 DEF EvalInv

\* A main without the controller writes the row of a run that is still active,
\* and sweeps its cases.
LEMMA CancelRowEvalInv ==
    ASSUME EvalInv, NEW u \in Runs, Cancellable(u),
           runStatus' = [runStatus EXCEPT ![u] = "cancelled"], caseRow' = Swept(u),
           UNCHANGED <<runStage, aborted, stage, listening>>
    PROVE  EvalInv'
<1> USE TestRunnerAssumption
<1>1. EvalTypeOK'
  BY DEF EvalInv, EvalTypeOK, Swept, Pending, Terminal
<1>2. runStage[u] # "ended"
  BY DEF EvalInv, EndedIsTerminal, Cancellable, Terminal, Pending
<1>3. CasesOK'
  <2> SUFFICES ASSUME NEW c \in Callers
               PROVE  CaseOK(runStage[RunOf[c]], runStatus[RunOf[c]], aborted[RunOf[c]],
                             caseRow[c], stage[c])'
    BY DEF CasesOK
  <2>1. /\ CaseOK(runStage[RunOf[c]], runStatus[RunOf[c]], aborted[RunOf[c]], caseRow[c],
                  stage[c])
        /\ RunOf[c] \in Runs
    BY DEF EvalInv, CasesOK
  <2>2. CASE RunOf[c] = u
    <3>1. caseRow'[c] = caseRow[c] \/ (caseRow[c] \in Pending /\ caseRow'[c] = "cancelled")
      BY DEF Swept
    <3> QED BY <1>2, <2>1, <2>2, <3>1 DEF CaseOK, Pending
  <2>3. CASE RunOf[c] # u
    <3>1. caseRow'[c] = caseRow[c] /\ runStatus'[RunOf[c]] = runStatus[RunOf[c]]
      BY <2>1, <2>3 DEF Swept, EvalInv, EvalTypeOK
    <3> QED BY <2>1, <3>1 DEF CaseOK
  <2> QED BY <2>2, <2>3
<1>4. ListensWhileAcquiring'
  BY DEF EvalInv, ListensWhileAcquiring
<1>5. EndedIsTerminal'
  BY <1>2 DEF EvalInv, EvalTypeOK, EndedIsTerminal, Terminal
<1> QED BY <1>1, <1>3, <1>4, <1>5 DEF EvalInv

-----------------------------------------------------------------------------
(* The invariant *)

\* Every step of every run, of its cases and of those who cancel preserves it.
LEMMA EvalInvNext == EvalInv /\ [Next]_vars => EvalInv'
<1> SUFFICES ASSUME EvalInv, [Next]_vars PROVE EvalInv'
  OBVIOUS
<1>1. ASSUME UNCHANGED <<runStatus, runStage, aborted, caseRow, stage, listening>>
      PROVE  EvalInv'
  BY <1>1 DEF EvalInv, EvalTypeOK, CasesOK, CaseOK, ListensWhileAcquiring, EndedIsTerminal
<1>2. CASE UNCHANGED vars
  BY <1>1, <1>2 DEF vars, runVars, caseVars
<1>3. ASSUME NEW u \in Runs, StartRun(u) \/ RunStep(u) PROVE EvalInv'
  BY <1>3, StartRunEvalInv, MarkAsRunningEvalInv, SeedCasesEvalInv, FetchFailsEvalInv,
     EndRunEvalInv DEF RunStep
<1>4. ASSUME NEW u \in Runs, CancelTestRun(u) PROVE EvalInv'
  <2>1. CASE control[u]
    <3>1. Abort(u, {}) /\ UNCHANGED <<runStatus, runStage, caseRow>>
      BY <1>4, <2>1 DEF CancelTestRun
    <3> QED BY <3>1, AbortEvalInv
  <2>2. CASE ~control[u]
    <3>1. /\ Cancellable(u)
          /\ runStatus' = [runStatus EXCEPT ![u] = "cancelled"] /\ caseRow' = Swept(u)
          /\ UNCHANGED <<runStage, aborted, stage, listening>>
      BY <1>4, <2>2 DEF CancelTestRun
    <3> QED BY <3>1, CancelRowEvalInv
  <2> QED BY <2>1, <2>2
<1>5. ASSUME NEW u \in Runs, CancelOnForeignMain(u) PROVE EvalInv'
  BY <1>5, CancelRowEvalInv DEF CancelOnForeignMain
<1>6. ASSUME NEW u \in Runs, DeliverCancel(u) PROVE EvalInv'
  <2>1. CASE control[u]
    <3>1. Abort(u, {}) /\ UNCHANGED <<runStatus, runStage, caseRow>>
      BY <1>6, <2>1 DEF DeliverCancel
    <3> QED BY <3>1, AbortEvalInv
  <2>2. CASE ~control[u]
    BY <1>1, <1>6, <2>2 DEF DeliverCancel
  <2> QED BY <2>1, <2>2
<1>7. ASSUME NEW c \in Callers, PollCancellation(c) PROVE EvalInv'
  <2>1. RunOf[c] \in Runs
    BY TestRunnerAssumption
  <2>2. /\ Abort(RunOf[c], {c}) /\ UNCHANGED <<runStatus, runStage, caseRow>>
        /\ \A d \in Callers : d \in {c} => RunOf[d] = RunOf[c] /\ stage[d] = "claimed"
    BY <1>7 DEF PollCancellation
  <2> QED BY <2>1, <2>2, AbortEvalInv
<1>8. ASSUME NEW c \in Callers, CaseStep(c) \/ CancelCase(c) PROVE EvalInv'
  BY <1>7, <1>8, StartCaseEvalInv, ClaimCaseEvalInv, CaseThrowsEvalInv, AcquireEvalInv,
     ProceedEvalInv, FinishCaseEvalInv, CancelCaseEvalInv DEF CaseStep
<1> QED BY <1>2, <1>3, <1>4, <1>5, <1>6, <1>8 DEF Next

\* The rows, callbacks and stages of every run go together.
THEOREM EvalInvariant == Spec => []EvalInv
BY EvalInvInit, EvalInvNext, PTL DEF Spec

\* EndedRunHasNoPendingCase for any number of runs and cases: whoever cancels,
\* and whenever, a run that ends without a fault has no pending row left.
THEOREM NoCaseStaysPending == Spec => []EndedRunHasNoPendingCase
<1>1. EvalInv => EndedRunHasNoPendingCase
  BY TestRunnerAssumption
     DEF EvalInv, CasesOK, CaseOK, EndedRunHasNoPendingCase, Cases
<1> QED BY <1>1, EvalInvariant, PTL

\* EndedRunIsFinal for any number of runs and cases: no cancel, late broadcast
\* or case that outlives its run changes the status of a run that is over.
THEOREM EndedIsFinal == Spec => EndedRunIsFinal
<1>1. ASSUME EvalInv, [Next]_vars, NEW u \in Runs, runStage[u] = "ended"
      PROVE  runStatus'[u] = runStatus[u]
  <2>1. runStatus \in [Runs -> Pending \cup Terminal] /\ RunOf \in [Callers -> Runs]
    BY <1>1, TestRunnerAssumption DEF EvalInv, EvalTypeOK
  <2>2. ~Cancellable(u)
    BY <1>1 DEF EvalInv, EndedIsTerminal, Cancellable, Terminal, Pending
  <2>3. CASE UNCHANGED vars
    BY <2>3 DEF vars, runVars
  <2>4. ASSUME NEW v \in Runs, StartRun(v) \/ RunStep(v)
        PROVE  runStatus'[u] = runStatus[u]
    BY <1>1, <2>1, <2>4 DEF RunStep, StartRun, MarkAsRunning, SeedCases, FetchFails, EndRun,
                            Close
  <2>5. ASSUME NEW v \in Runs, CancelTestRun(v) \/ CancelOnForeignMain(v) \/ DeliverCancel(v)
        PROVE  runStatus'[u] = runStatus[u]
    BY <2>1, <2>2, <2>5 DEF CancelTestRun, CancelOnForeignMain, DeliverCancel
  <2>6. ASSUME NEW c \in Callers, CaseStep(c) \/ CancelCase(c)
        PROVE  runStatus'[u] = runStatus[u]
    BY <1>1, <2>1, <2>6 DEF CaseStep, CancelCase, StartCase, ClaimCase, CaseThrows, Close,
                            PollCancellation, Acquire, Proceed, FinishCase, runVars
  <2> QED BY <1>1, <2>3, <2>4, <2>5, <2>6 DEF Next
<1>2. EvalInv /\ [Next]_vars =>
        [\A u \in Runs : runStage[u] = "ended" => runStatus'[u] = runStatus[u]]_vars
  BY <1>1
<1> QED BY <1>2, EvalInvariant, PTL DEF Spec, EndedRunIsFinal

-----------------------------------------------------------------------------
(* The gate under evaluation runs *)

\* Every caller here is an evaluation case.
LEMMA CasesUseEvaluation == \A c \in Callers : QueueOf(c) = "evaluation"
BY TestRunnerAssumption DEF QueueOf, GetQueue

\* What GateInv says of the evaluation queue, said of a queue in the middle of
\* an abort.
InOrder(g) ==
    /\ g.queue \in Seq(Callers) /\ g.capacity \in Int
    /\ g.promise \in [Callers -> PromiseStates]
    /\ WaitersIn(g.queue, g.promise, "evaluation")
    /\ Len(g.queue) <= (IF g.capacity < 0 THEN -g.capacity ELSE 0)

\* Slots left, held and asked for.
Slots(g) == g.capacity + Cardinality(HoldersIn(g.promise, "evaluation")) + Len(g.queue)

\* From g to h promises only change by a waiter being woken or evicted.
OnlyWaitersMove(g, h) ==
    \A d \in Callers : h.promise[d] # g.promise[d] =>
        g.promise[d] = "waiting" /\ h.promise[d] \in {"granted", "evicted"}

\* A queue without one of its entries still holds waiters, each once.
LEMMA SpliceKeepsWaiters ==
    ASSUME NEW q \in Seq(Callers), NEW pr \in [Callers -> PromiseStates], NEW t,
           WaitersIn(q, pr, t), NEW x \in 1..Len(q)
    PROVE  WaitersIn(RemoveAt(q, x), [pr EXCEPT ![q[x]] = "evicted"], t)
<1> DEFINE r == RemoveAt(q, x)
           pr1 == [pr EXCEPT ![q[x]] = "evicted"]
           at(j) == IF j < x THEN j ELSE j + 1
<1>1. /\ r \in Seq(Callers) /\ Len(r) = Len(q) - 1 /\ Len(q) \in Nat
      /\ \A j \in 1..(Len(q) - 1) : r[j] = q[at(j)]
  BY RemoveAtFacts
<1> HIDE DEF r
<1>2. ASSUME NEW j \in 1..Len(r)
      PROVE  at(j) \in 1..Len(q) /\ at(j) # x /\ r[j] = q[at(j)]
  <2>1. j \in 1..(Len(q) - 1)
    BY <1>1
  <2>2. at(j) \in 1..Len(q) /\ at(j) # x
    BY <1>1, <2>1
  <2> QED BY <1>1, <2>1, <2>2
<1>3. ASSUME NEW j \in 1..Len(r), NEW k \in 1..Len(r), at(j) = at(k)
      PROVE  j = k
  BY <1>1, <1>3
<1> HIDE DEF at
<1>4. ASSUME NEW j \in 1..Len(r)
      PROVE  pr1[r[j]] = "waiting" /\ QueueOf(r[j]) = t
  <2>1. r[j] \in Callers
    BY <1>1, ElementOfSeq
  <2>2. r[j] = q[at(j)] /\ at(j) \in 1..Len(q) /\ at(j) # x
    BY <1>2
  <2>3. q[at(j)] # q[x] /\ pr[q[at(j)]] = "waiting" /\ QueueOf(q[at(j)]) = t
    BY <2>2 DEF WaitersIn
  <2> QED BY <2>1, <2>2, <2>3
<1>5. ASSUME NEW j \in 1..Len(r), NEW k \in 1..Len(r), r[j] = r[k]
      PROVE  j = k
  <2> DEFINE J == at(j)
             K == at(k)
  <2>1. J \in 1..Len(q) /\ K \in 1..Len(q) /\ q[J] = q[K]
    BY <1>2, <1>5
  <2> HIDE DEF J, K
  <2>2. J = K
    BY <2>1 DEF WaitersIn
  <2> QED BY <1>3, <2>2 DEF J, K
<1> QED BY <1>4, <1>5 DEF WaitersIn, r

\* Waking the first waiter leaves a queue of waiters, each once.
LEMMA ShiftKeepsWaiters ==
    ASSUME NEW q \in Seq(Callers), q # <<>>, NEW pr \in [Callers -> PromiseStates], NEW t,
           WaitersIn(q, pr, t)
    PROVE  /\ Head(q) \in Callers /\ pr[Head(q)] = "waiting" /\ QueueOf(Head(q)) = t
           /\ Tail(q) \in Seq(Callers) /\ Len(q) \in Nat /\ Len(Tail(q)) = Len(q) - 1
           /\ WaitersIn(Tail(q), [pr EXCEPT ![Head(q)] = "granted"], t)
<1> DEFINE h == Head(q)
           r == Tail(q)
           pr1 == [pr EXCEPT ![h] = "granted"]
<1>1. /\ h = q[1] /\ h \in Callers /\ r \in Seq(Callers)
      /\ Len(q) \in Nat /\ Len(q) >= 1 /\ Len(r) = Len(q) - 1
      /\ \A j \in 1..(Len(q) - 1) : r[j] = q[j + 1]
  BY TailFacts
<1>2. pr[h] = "waiting" /\ QueueOf(h) = t
  BY <1>1 DEF WaitersIn
<1> HIDE DEF h, r
<1>3. ASSUME NEW j \in 1..Len(r)
      PROVE  pr1[r[j]] = "waiting" /\ QueueOf(r[j]) = t
  <2>1. j + 1 \in 1..Len(q) /\ j + 1 # 1 /\ 1 \in 1..Len(q) /\ r[j] = q[j + 1]
    BY <1>1
  <2>2. q[j + 1] \in Callers
    BY <2>1, ElementOfSeq
  <2>3. q[j + 1] # q[1] /\ pr[q[j + 1]] = "waiting" /\ QueueOf(q[j + 1]) = t
    BY <2>1 DEF WaitersIn
  <2> QED BY <1>1, <2>1, <2>2, <2>3
<1>4. ASSUME NEW j \in 1..Len(r), NEW k \in 1..Len(r), r[j] = r[k]
      PROVE  j = k
  <2>1. j + 1 \in 1..Len(q) /\ k + 1 \in 1..Len(q) /\ q[j + 1] = q[k + 1]
    BY <1>1, <1>4
  <2>2. j + 1 = k + 1
    BY <2>1 DEF WaitersIn
  <2> QED BY <2>2
<1>5. WaitersIn(r, pr1, t)
  BY <1>3, <1>4 DEF WaitersIn
<1> QED BY <1>1, <1>2, <1>5 DEF h, r

\* remove() in the middle of an abort keeps the queue in order and the total of
\* its slots, and moves nobody but waiters; the one it removes is evicted.
LEMMA EvictFromFacts ==
    ASSUME NEW g, InOrder(g), NEW c \in Callers
    PROVE  LET h == EvictFrom(g, c) IN
           /\ InOrder(h) /\ Slots(h) = Slots(g) /\ OnlyWaitersMove(g, h)
           /\ isEnabled /\ Contains(g.queue, c) => h.promise[c] = "evicted"
           /\ \A d \in Callers : d # c => h.promise[d] \in {g.promise[d], "granted"}
<1> DEFINE h == EvictFrom(g, c)
<1> SUFFICES /\ InOrder(h) /\ Slots(h) = Slots(g) /\ OnlyWaitersMove(g, h)
             /\ isEnabled /\ Contains(g.queue, c) => h.promise[c] = "evicted"
             /\ \A d \in Callers : d # c => h.promise[d] \in {g.promise[d], "granted"}
  BY Zenon
<1>1. CASE ~isEnabled \/ ~Contains(g.queue, c)
  <2>1. h = g
    BY <1>1 DEF EvictFrom
  <2> HIDE DEF h
  <2> QED BY <1>1, <2>1 DEF OnlyWaitersMove
<1>2. CASE isEnabled /\ Contains(g.queue, c)
  <2> DEFINE x == CHOOSE i \in DOMAIN g.queue : g.queue[i] = c
             q == RemoveAt(g.queue, x)
             pr == [g.promise EXCEPT ![c] = "evicted"]
  <2>1. g.queue \in Seq(Callers) /\ Len(g.queue) \in Nat /\ DOMAIN g.queue = 1..Len(g.queue)
    BY LenProperties DEF InOrder
  <2>2. x \in 1..Len(g.queue) /\ g.queue[x] = c
    BY <1>2, <2>1 DEF Contains
  <2>3. /\ h.queue = (IF q = <<>> THEN q ELSE Tail(q))
        /\ h.capacity = g.capacity + 1
        /\ h.promise = (IF q = <<>> THEN pr ELSE [pr EXCEPT ![Head(q)] = "granted"])
    BY <1>2 DEF EvictFrom
  <2> HIDE DEF x, h
  <2>4. /\ q \in Seq(Callers) /\ Len(q) = Len(g.queue) - 1 /\ WaitersIn(q, pr, "evaluation")
    BY <2>1, <2>2, RemoveAtFacts, SpliceKeepsWaiters DEF InOrder
  <2> HIDE DEF q
  <2>5. pr \in [Callers -> PromiseStates] /\ pr[c] = "evicted" /\ g.promise[c] = "waiting"
    BY <2>2 DEF InOrder, PromiseStates, WaitersIn
  <2>6. Cardinality(HoldersIn(pr, "evaluation")) = Cardinality(HoldersIn(g.promise, "evaluation"))
    <3>1. "evicted" \in PromiseStates \ {"granted"}
      BY DEF PromiseStates
    <3> QED BY <2>5, <3>1, LeaveRemovesHolder DEF InOrder
  <2>7. /\ Cardinality(HoldersIn(pr, "evaluation")) \in Nat
        /\ g.capacity \in Int
        /\ Len(g.queue) <= (IF g.capacity < 0 THEN -g.capacity ELSE 0)
    BY HoldersFinite DEF InOrder
  <2>8. CASE q = <<>>
    <3>1. h.queue = q /\ h.promise = pr /\ h.capacity = g.capacity + 1 /\ Len(q) = 0
      BY <2>3, <2>8
    <3>2. InOrder(h)
      <4>1. Len(q) <= (IF g.capacity + 1 < 0 THEN -(g.capacity + 1) ELSE 0)
        BY <2>7, <3>1
      <4> QED BY <2>4, <2>5, <2>7, <3>1, <4>1 DEF InOrder
    <3>3. Slots(h) = Slots(g)
      <4> DEFINE a == Cardinality(HoldersIn(pr, "evaluation"))
                 l == Len(g.queue)
                 k == g.capacity
      <4>1. a \in Nat /\ l = 1 /\ k \in Int
        BY <2>1, <2>4, <2>7, <3>1
      <4>2. Slots(h) = k + 1 + a + 0
        BY <3>1 DEF Slots
      <4>3. Slots(g) = k + a + l
        BY <2>6 DEF Slots
      <4> HIDE DEF a, l, k
      <4>4. k + 1 + a + 0 = k + a + l
        BY <4>1
      <4> QED BY <4>2, <4>3, <4>4
    <3>4. OnlyWaitersMove(g, h)
      BY <2>5, <3>1 DEF OnlyWaitersMove, InOrder
    <3> QED BY <2>5, <3>1, <3>2, <3>3, <3>4 DEF InOrder
  <2>9. CASE q # <<>>
    <3> DEFINE w == Head(q)
               pr2 == [pr EXCEPT ![w] = "granted"]
    <3>1. h.queue = Tail(q) /\ h.promise = pr2 /\ h.capacity = g.capacity + 1
      BY <2>3, <2>9
    <3>2. /\ w \in Callers /\ pr[w] = "waiting" /\ QueueOf(w) = "evaluation"
          /\ Tail(q) \in Seq(Callers) /\ Len(q) \in Nat /\ Len(Tail(q)) = Len(q) - 1
          /\ WaitersIn(Tail(q), pr2, "evaluation")
      BY <2>4, <2>5, <2>9, ShiftKeepsWaiters
    <3>3. w # c /\ g.promise[w] = "waiting"
      BY <2>5, <3>2 DEF InOrder
    <3>4. Cardinality(HoldersIn(pr2, "evaluation")) =
            Cardinality(HoldersIn(pr, "evaluation")) + 1
      BY <2>5, <3>2, GrantAddsHolder
    <3>5. pr2 \in [Callers -> PromiseStates]
      BY <2>5, <3>2 DEF PromiseStates
    <3>6. \A d \in Callers : pr2[d] = IF d = w THEN "granted" ELSE IF d = c THEN "evicted"
                                      ELSE g.promise[d]
      BY <2>5, <3>2, <3>3 DEF InOrder
    <3> HIDE DEF w, pr2, pr
    <3>7. InOrder(h)
      <4>1. Len(Tail(q)) <= (IF g.capacity + 1 < 0 THEN -(g.capacity + 1) ELSE 0)
        BY <2>1, <2>4, <2>7, <3>2
      <4> QED BY <2>7, <3>1, <3>2, <3>5, <4>1 DEF InOrder
    <3>8. Slots(h) = Slots(g)
      <4> DEFINE a == Cardinality(HoldersIn(pr, "evaluation"))
                 b == Cardinality(HoldersIn(pr2, "evaluation"))
                 l == Len(g.queue)
                 m == Len(Tail(q))
                 k == g.capacity
      <4>1. a \in Nat /\ b = a + 1 /\ l \in Nat /\ m = l - 2 /\ k \in Int
        BY <2>1, <2>4, <2>7, <3>2, <3>4
      <4>2. Slots(h) = k + 1 + b + m
        BY <3>1 DEF Slots
      <4>3. Slots(g) = k + a + l
        BY <2>6 DEF Slots
      <4> HIDE DEF a, b, l, m, k
      <4>4. k + 1 + b + m = k + a + l
        BY <4>1
      <4> QED BY <4>2, <4>3, <4>4
    <3>9. OnlyWaitersMove(g, h)
      BY <2>5, <3>1, <3>3, <3>6 DEF OnlyWaitersMove
    <3> QED BY <3>1, <3>3, <3>6, <3>7, <3>8, <3>9
  <2> QED BY <2>8, <2>9
<1> QED BY <1>1, <1>2

\* A set of natural numbers that is not empty has a least element.
LEMMA LeastNumber ==
    ASSUME NEW T \in SUBSET Nat, T # {}
    PROVE  \E x \in T : \A y \in T : x <= y
<1> DEFINE R == OpToRel(<, Nat)
<1>1. IsWellFoundedOn(R, Nat)
  BY NatLessThanWellFounded
<1>2. \A x, y \in Nat : <<y, x>> \in R <=> y < x
  BY DEF OpToRel
<1> HIDE DEF R
<1>3. PICK x \in T : \A y \in T : ~(<<y, x>> \in R)
  BY <1>1, WFMin
<1>4. \A y \in T : ~(y < x)
  BY <1>2, <1>3
<1> QED BY <1>4

\* The evaluation queue as the abort finds it, and what its i-th entry makes of g.
Before == [queue |-> queue["evaluation"], capacity |-> capacity["evaluation"],
           promise |-> promise]
Turn(u, g, i) ==
    IF Loses(u, queue["evaluation"][i]) THEN EvictFrom(g, queue["evaluation"][i]) ELSE g

\* f[i] is the evaluation queue after the first i entries have had their turn.
IsAfter(f, u) ==
    f = [i \in 0..Len(queue["evaluation"]) |-> IF i = 0 THEN Before ELSE Turn(u, f[i - 1], i)]

\* The recursion of Evicted defines a function.
LEMMA AfterExists ==
    ASSUME queue["evaluation"] \in Seq(Callers), NEW u
    PROVE  \E f : IsAfter(f, u)
<1> DEFINE n == Len(queue["evaluation"])
           Upto(k) == \E f : f = [i \in 0..k |-> IF i = 0 THEN Before ELSE Turn(u, f[i - 1], i)]
           T == {k \in 0..n : ~Upto(k)}
<1>1. n \in Nat
  BY LenProperties
<1> HIDE DEF n
<1>2. ASSUME T # {} PROVE FALSE
  <2>1. PICK k \in T : \A j \in T : k <= j
    <3>1. T \in SUBSET Nat
      BY <1>1
    <3> HIDE DEF T
    <3> QED BY <1>2, <3>1, LeastNumber
  <2>2. k \in 0..n /\ ~Upto(k)
    OBVIOUS
  <2>3. k # 0
    <3> DEFINE f == [i \in 0..0 |-> Before]
    <3>1. f = [i \in 0..0 |-> IF i = 0 THEN Before ELSE Turn(u, f[i - 1], i)]
      OBVIOUS
    <3>2. Upto(0)
      BY <3>1
    <3> QED BY <2>2, <3>2
  <2>4. k - 1 \in 0..n /\ ~(k <= k - 1)
    BY <1>1, <2>2, <2>3
  <2>5. Upto(k - 1)
    <3> HIDE DEF Upto
    <3> QED BY <2>1, <2>4
  <2>6. PICK f : f = [i \in 0..(k - 1) |-> IF i = 0 THEN Before ELSE Turn(u, f[i - 1], i)]
    BY <2>5
  <2> DEFINE h == [i \in 0..k |-> IF i = k THEN Turn(u, f[k - 1], k) ELSE f[i]]
  <2>7. ASSUME NEW i \in 0..k
        PROVE  h[i] = IF i = 0 THEN Before ELSE Turn(u, h[i - 1], i)
    <3>1. CASE i = k
      <4>1. h[i] = Turn(u, f[k - 1], k) /\ h[i - 1] = f[k - 1]
        BY <1>1, <2>2, <2>3, <3>1
      <4> QED BY <2>3, <3>1, <4>1
    <3>2. CASE i # k
      <4>1. i \in 0..(k - 1) /\ h[i] = f[i]
        BY <1>1, <2>2, <3>2
      <4>2. f[i] = IF i = 0 THEN Before ELSE Turn(u, f[i - 1], i)
        BY <2>6, <4>1
      <4>3. i # 0 => i - 1 \in 0..k /\ i - 1 # k
        BY <1>1, <2>2, <4>1
      <4>4. i # 0 => h[i - 1] = f[i - 1]
        BY <4>3
      <4> QED BY <4>1, <4>2, <4>4
    <3> QED BY <3>1, <3>2
  <2>8. h = [i \in 0..k |-> h[i]]
    OBVIOUS
  <2> HIDE DEF h
  <2>9. h = [i \in 0..k |-> IF i = 0 THEN Before ELSE Turn(u, h[i - 1], i)]
    BY <2>7, <2>8
  <2> QED BY <2>2, <2>9
<1>3. Upto(n)
  <2> HIDE DEF Upto
  <2> QED BY <1>1, <1>2
<1> QED BY <1>3 DEF IsAfter, n

\* Evicted is what the last turn leaves.
LEMMA EvictedIs ==
    ASSUME queue["evaluation"] \in Seq(Callers), NEW u
    PROVE  \E f : /\ Evicted(u) = f[Len(queue["evaluation"])] /\ f[0] = Before
                  /\ \A i \in 1..Len(queue["evaluation"]) : f[i] = Turn(u, f[i - 1], i)
<1> DEFINE f == CHOOSE f : IsAfter(f, u)
<1>1. Len(queue["evaluation"]) \in Nat
  BY LenProperties
<1>2. IsAfter(f, u)
  BY AfterExists
<1>3. Evicted(u) = f[Len(queue["evaluation"])]
  BY DEF Evicted, IsAfter, Turn, Before
<1> HIDE DEF f
<1>4. f[0] = Before
  BY <1>1, <1>2 DEF IsAfter
<1>5. ASSUME NEW i \in 1..Len(queue["evaluation"]) PROVE f[i] = Turn(u, f[i - 1], i)
  <2>1. i \in 0..Len(queue["evaluation"]) /\ i # 0
    BY <1>1
  <2> QED BY <1>2, <2>1 DEF IsAfter
<1> QED BY <1>3, <1>4, <1>5

\* An abort leaves the evaluation queue in order, however many cases it evicts:
\* no slot is lost or made up, and nobody moves but waiters.
LEMMA EvictedFacts ==
    ASSUME GateInv, NEW u
    PROVE  /\ InOrder(Evicted(u)) /\ Slots(Evicted(u)) = Slots(Before)
           /\ OnlyWaitersMove(Before, Evicted(u))
<1> DEFINE q == queue["evaluation"]
           n == Len(q)
<1>1. q \in Seq(Callers) /\ n \in Nat
  BY LenProperties DEF GateInv, GateTypeOK, QueueTypes
<1>2. PICK f : /\ Evicted(u) = f[n] /\ f[0] = Before
               /\ \A i \in 1..n : f[i] = Turn(u, f[i - 1], i)
  BY <1>1, EvictedIs
<1> DEFINE Good(g) == InOrder(g) /\ Slots(g) = Slots(Before) /\ OnlyWaitersMove(Before, g)
           T == {i \in 0..n : ~Good(f[i])}
<1>3. Good(Before)
  <2>1. Before.queue = q /\ Before.capacity = capacity["evaluation"] /\ Before.promise = promise
    BY DEF Before
  <2>2. InOrder(Before)
    BY <2>1 DEF InOrder, GateInv, GateTypeOK, QueueTypes, QueueHoldsWaiters, BacklogCovered
  <2> QED BY <2>2 DEF OnlyWaitersMove
<1>4. ASSUME NEW g, Good(g), NEW i \in 1..n PROVE Good(Turn(u, g, i))
  <2>1. q[i] \in Callers
    BY <1>1, ElementOfSeq
  <2>2. CASE ~Loses(u, q[i])
    <3>1. Turn(u, g, i) = g
      BY <2>2 DEF Turn
    <3> QED BY <1>4, <3>1
  <2>3. CASE Loses(u, q[i])
    <3>1. Turn(u, g, i) = EvictFrom(g, q[i])
      BY <2>3 DEF Turn
    <3> DEFINE h == EvictFrom(g, q[i])
    <3>2. InOrder(h) /\ Slots(h) = Slots(g) /\ OnlyWaitersMove(g, h)
      BY <1>4, <2>1, EvictFromFacts
    <3> HIDE DEF h
    <3>3. OnlyWaitersMove(Before, h)
      BY <1>4, <3>2 DEF OnlyWaitersMove
    <3> QED BY <1>4, <3>1, <3>2, <3>3 DEF h
  <2> QED BY <2>2, <2>3
<1> HIDE DEF Good, n
<1>5. T = {}
  <2> SUFFICES ASSUME T # {} PROVE FALSE
    OBVIOUS
  <2>1. PICK k \in T : \A j \in T : k <= j
    <3>1. T \in SUBSET Nat
      BY <1>1
    <3> HIDE DEF T
    <3> QED BY <3>1, LeastNumber
  <2>2. k \in 0..n /\ ~Good(f[k])
    OBVIOUS
  <2>3. k # 0
    BY <1>2, <1>3, <2>2
  <2>4. k \in 1..n /\ k - 1 \in 0..n /\ ~(k <= k - 1)
    BY <1>1, <2>2, <2>3
  <2>5. Good(f[k - 1])
    BY <2>1, <2>4
  <2>6. f[k] = Turn(u, f[k - 1], k)
    BY <1>2, <2>4
  <2> QED BY <1>4, <2>2, <2>4, <2>5, <2>6
<1>6. Good(f[n])
  BY <1>1, <1>5
<1> QED BY <1>2, <1>6 DEF Good

\* When only c can lose its race, c is evicted and nobody else.
LEMMA EvictedOne ==
    ASSUME GateInv, isEnabled, NEW u, NEW c \in Callers, Loses(u, c),
           \A d \in Callers : Loses(u, d) => d = c, Contains(queue["evaluation"], c)
    PROVE  Evicted(u).promise[c] = "evicted"
<1> DEFINE q == queue["evaluation"]
           n == Len(q)
           h == EvictFrom(Before, c)
<1>1. q \in Seq(Callers) /\ n \in Nat /\ WaitersIn(q, promise, "evaluation")
  BY LenProperties DEF GateInv, GateTypeOK, QueueTypes, QueueHoldsWaiters
<1>2. PICK f : /\ Evicted(u) = f[n] /\ f[0] = Before
               /\ \A i \in 1..n : f[i] = Turn(u, f[i - 1], i)
  BY <1>1, EvictedIs
<1>3. PICK k \in 1..n : q[k] = c
  BY DEF Contains
<1> DEFINE Good(i, g) == g = IF i < k THEN Before ELSE h
           T == {i \in 0..n : ~Good(i, f[i])}
<1>4. ASSUME NEW i \in 1..n, Good(i - 1, f[i - 1]) PROVE Good(i, f[i])
  <2>1. q[i] \in Callers /\ f[i] = Turn(u, f[i - 1], i)
    BY <1>1, <1>2, ElementOfSeq
  <2> HIDE DEF h
  <2>2. CASE i = k
    <3>1. i - 1 < k /\ ~(i < k)
      BY <1>1, <2>2
    <3>2. f[i - 1] = Before
      BY <1>4, <3>1
    <3> QED BY <1>3, <2>1, <2>2, <3>1, <3>2 DEF Turn, h
  <2>3. CASE i # k
    <3>1. q[i] # c
      BY <1>1, <1>3, <2>3 DEF WaitersIn
    <3>2. f[i] = f[i - 1]
      BY <2>1, <3>1 DEF Turn
    <3>3. i - 1 < k <=> i < k
      BY <1>1, <2>3
    <3> QED BY <1>4, <3>2, <3>3
  <2> QED BY <2>2, <2>3
<1>5. Good(0, f[0])
  <2> HIDE DEF h
  <2>1. 0 < k
    BY <1>1
  <2> QED BY <1>2, <2>1
<1> HIDE DEF Good, n
<1>6. T = {}
  <2> SUFFICES ASSUME T # {} PROVE FALSE
    OBVIOUS
  <2>1. PICK j \in T : \A i \in T : j <= i
    <3>1. T \in SUBSET Nat
      BY <1>1
    <3> HIDE DEF T
    <3> QED BY <3>1, LeastNumber
  <2>2. j \in 0..n /\ ~Good(j, f[j])
    OBVIOUS
  <2>3. j # 0
    BY <1>5, <2>2
  <2>4. j \in 1..n /\ j - 1 \in 0..n /\ ~(j <= j - 1)
    BY <1>1, <2>2, <2>3
  <2>5. Good(j - 1, f[j - 1])
    BY <2>1, <2>4
  <2> QED BY <1>4, <2>2, <2>4, <2>5
<1>7. Good(n, f[n])
  BY <1>1, <1>6
<1>8. f[n] = h
  BY <1>1, <1>7 DEF Good
<1>9. h.promise[c] = "evicted"
  <2>1. Before.queue = q /\ Before.capacity = capacity["evaluation"] /\ Before.promise = promise
    BY DEF Before
  <2>2. InOrder(Before)
    BY <2>1 DEF InOrder, GateInv, GateTypeOK, QueueTypes, QueueHoldsWaiters, BacklogCovered
  <2>3. Contains(Before.queue, c)
    BY <2>1
  <2> QED BY <2>2, <2>3, EvictFromFacts
<1> QED BY <1>2, <1>8, <1>9

\* One firing of the abort signal keeps the gate's invariant.
LEMMA AbortGateInv ==
    ASSUME GateInv, NEW u, NEW except, Abort(u, except)
    PROVE  GateInv'
<1> DEFINE g == Evicted(u)
           q == queue["evaluation"]
<1>1. /\ queue \in [QueueTypes -> Seq(Callers)] /\ capacity \in [QueueTypes -> Int]
      /\ promise \in [Callers -> PromiseStates]
      /\ "evaluation" \in QueueTypes /\ "production" \in QueueTypes
      /\ QueueTypes = {"production", "evaluation"}
  BY DEF GateInv, GateTypeOK, QueueTypes
<1>2. /\ queue' = [queue EXCEPT !["evaluation"] = g.queue]
      /\ capacity' = [capacity EXCEPT !["evaluation"] = g.capacity]
      /\ promise' = g.promise
      /\ UNCHANGED <<isEnabled, evalQueueResolved, limits, disabled>>
  BY DEF Abort
<1>3. InOrder(g) /\ Slots(g) = Slots(Before) /\ OnlyWaitersMove(Before, g)
  BY EvictedFacts
<1>4. /\ Before.queue = q /\ Before.capacity = capacity["evaluation"]
      /\ Before.promise = promise
  BY DEF Before
<1> HIDE DEF g
<1>5. /\ g.queue \in Seq(Callers) /\ g.capacity \in Int
      /\ g.promise \in [Callers -> PromiseStates]
      /\ WaitersIn(g.queue, g.promise, "evaluation")
      /\ Len(g.queue) <= (IF g.capacity < 0 THEN -g.capacity ELSE 0)
  BY <1>3 DEF InOrder
<1>6. /\ queue'["evaluation"] = g.queue /\ queue'["production"] = queue["production"]
      /\ capacity'["evaluation"] = g.capacity
      /\ capacity'["production"] = capacity["production"]
      /\ queue' \in [QueueTypes -> Seq(Callers)] /\ capacity' \in [QueueTypes -> Int]
  BY <1>1, <1>2, <1>5
<1>7. \A d \in Callers : promise'[d] # promise[d] =>
        promise[d] = "waiting" /\ promise'[d] \in {"granted", "evicted"}
  BY <1>2, <1>3, <1>4 DEF OnlyWaitersMove
<1>8. GateTypeOK'
  BY <1>2, <1>5, <1>6 DEF GateInv, GateTypeOK
<1>9. LimitsFinal' /\ EnabledUntilDisabled'
  BY <1>2 DEF GateInv, LimitsFinal, EnabledUntilDisabled, BaseCapacity
<1>10. FreeMeansUngated'
  <2>1. \A d \in Callers : promise'[d] = "free" => promise[d] = "free"
    BY <1>7
  <2> QED BY <1>2, <2>1 DEF GateInv, FreeMeansUngated
<1>11. SlotMeansQueue'
  <2>1. \A d \in Callers : promise'[d] \in {"granted", "waiting"} =>
          promise[d] \in {"granted", "waiting"}
    BY <1>7
  <2> QED BY <1>2, <2>1 DEF GateInv, SlotMeansQueue
<1>12. QueueHoldsWaiters'
  <2>1. WaitersIn(queue'["evaluation"], promise', "evaluation")
    BY <1>2, <1>5, <1>6
  <2>2. WaitersIn(queue'["production"], promise', "production")
    <3>1. WaitersIn(queue["production"], promise, "production")
      BY <1>1 DEF GateInv, QueueHoldsWaiters
    <3>2. ASSUME NEW i \in 1..Len(queue["production"]) PROVE FALSE
      <4>1. queue["production"][i] \in Callers
        BY <1>1, ElementOfSeq
      <4>2. QueueOf(queue["production"][i]) = "production"
        BY <3>1 DEF WaitersIn
      <4> QED BY <4>1, <4>2, CasesUseEvaluation
    <3> QED BY <1>6, <3>2 DEF WaitersIn
  <2> QED BY <1>1, <2>1, <2>2 DEF QueueHoldsWaiters
<1>13. BacklogCovered'
  BY <1>1, <1>5, <1>6 DEF GateInv, BacklogCovered
<1>14. SlotsAccounted'
  <2> SUFFICES ASSUME ~disabled, NEW t \in QueueTypes
               PROVE  capacity'[t] + Cardinality(HoldersIn(promise', t)) + Len(queue'[t]) =
                        BaseCapacity(t)
    BY <1>2 DEF SlotsAccounted, Holders, HoldersIn, BaseCapacity
  <2>1. capacity[t] + Cardinality(HoldersIn(promise, t)) + Len(queue[t]) = BaseCapacity(t)
    BY DEF GateInv, SlotsAccounted, Holders, HoldersIn
  <2>2. CASE t = "evaluation"
    <3>1. Slots(g) = capacity'[t] + Cardinality(HoldersIn(promise', t)) + Len(queue'[t])
      BY <1>2, <1>6, <2>2 DEF Slots
    <3>2. Slots(Before) = capacity[t] + Cardinality(HoldersIn(promise, t)) + Len(queue[t])
      BY <1>4, <2>2 DEF Slots
    <3> QED BY <1>3, <2>1, <3>1, <3>2
  <2>3. CASE t = "production"
    <3>1. HoldersIn(promise', t) = HoldersIn(promise, t)
      BY <2>3, CasesUseEvaluation DEF HoldersIn
    <3> QED BY <1>6, <2>1, <2>3, <3>1
  <2> QED BY <1>1, <2>2, <2>3
<1> QED BY <1>8, <1>9, <1>10, <1>11, <1>12, <1>13, <1>14 DEF GateInv

\* Every step of a run or of a case is a step of the gate, leaves it alone, or
\* is the abort of one run.
LEMMA EvalStepsGate ==
    ASSUME [Next]_vars
    PROVE  [GateNext]_gateVars \/ \E u \in Runs : \E except : Abort(u, except)
<1> DEFINE Aborts == \E u \in Runs : \E except : Abort(u, except)
<1>1. ASSUME NEW u \in Runs,
             StartRun(u) \/ RunStep(u) \/ CancelTestRun(u) \/ CancelOnForeignMain(u)
               \/ DeliverCancel(u)
      PROVE  UNCHANGED gateVars \/ Aborts
  <2>1. CASE StartRun(u) \/ RunStep(u) \/ CancelOnForeignMain(u)
    BY <2>1 DEF StartRun, RunStep, MarkAsRunning, SeedCases, FetchFails, EndRun,
                CancelOnForeignMain
  <2>2. CASE CancelTestRun(u) \/ DeliverCancel(u)
    <3>1. UNCHANGED gateVars \/ Abort(u, {})
      BY <2>2 DEF CancelTestRun, DeliverCancel
    <3> QED BY <3>1
  <2> QED BY <1>1, <2>1, <2>2
<1>2. ASSUME NEW c \in Callers, CaseStep(c) \/ CancelCase(c)
      PROVE  UNCHANGED gateVars \/ Throttle(c) \/ Release(c) \/ Aborts
  <2>1. CASE PollCancellation(c)
    <3>1. RunOf[c] \in Runs /\ Abort(RunOf[c], {c})
      BY <2>1, TestRunnerAssumption DEF PollCancellation
    <3> QED BY <3>1
  <2>2. CASE StartCase(c) \/ ClaimCase(c) \/ CaseThrows(c) \/ CancelCase(c)
    BY <2>2 DEF StartCase, ClaimCase, CaseThrows, CancelCase
  <2>3. CASE Acquire(c) \/ Proceed(c) \/ FinishCase(c)
    BY <2>3 DEF Acquire, Proceed, FinishCase
  <2> QED BY <1>2, <2>1, <2>2, <2>3 DEF CaseStep
<1> HIDE DEF Aborts
<1>3. [GateNext]_gateVars \/ Aborts
  <2>1. ASSUME NEW c \in Callers, CaseStep(c) \/ CancelCase(c)
        PROVE  [GateNext]_gateVars \/ Aborts
    <3>1. CASE Throttle(c) \/ Release(c)
      BY <3>1 DEF GateNext
    <3> QED BY <1>2, <2>1, <3>1
  <2>2. CASE Next
    <3>1. CASE \E c \in Callers : CaseStep(c) \/ CancelCase(c)
      BY <2>1, <3>1
    <3>2. CASE \E u \in Runs : StartRun(u) \/ RunStep(u) \/ CancelTestRun(u)
                               \/ CancelOnForeignMain(u) \/ DeliverCancel(u)
      BY <1>1, <3>2
    <3> QED BY <2>2, <3>1, <3>2 DEF Next
  <2>3. CASE UNCHANGED vars
    BY <2>3 DEF vars
  <2> QED BY <2>2, <2>3
<1> QED BY <1>3 DEF Aborts

\* The gate's invariant survives evaluation runs of any concurrency: what their
\* cases take, give back and abandon when a run is aborted.
THEOREM GateUnderEvaluation == Spec => []GateInv
<1>1. TestRunnerInit => GateInv
  BY GateInvInit DEF TestRunnerInit
<1>2. ASSUME GateInv, [Next]_vars PROVE GateInv'
  <2>1. CASE [GateNext]_gateVars
    BY <1>2, <2>1, GateInvNext
  <2>2. CASE \E u \in Runs : \E except : Abort(u, except)
    BY <1>2, <2>2, AbortGateInv
  <2> QED BY <1>2, <2>1, <2>2, EvalStepsGate
<1> QED BY <1>1, <1>2, PTL DEF Spec

\* An abort that evicts several cases at once loses no slot and makes none up:
\* what is left, held and asked for adds up to the limit.  (A slot may be held
\* by a case that is over, unless the effective concurrency is 1: see below.)
THEOREM EvaluationConservesSlots == Spec => []CapacityConserved
<1>1. GateInv => CapacityConserved
  BY DEF GateInv, SlotsAccounted, CapacityConserved, LimitsFinal
<1> QED BY <1>1, GateUnderEvaluation, PTL

\* Nor does it strand the cases of other runs: nobody queues while fewer cases
\* than the limit hold a slot.
THEOREM EvaluationKeepsQueueMoving == Spec => []NoIdleCapacity
BY QueueNeedsHolders, GateUnderEvaluation, PTL

-----------------------------------------------------------------------------
(* The slot of a case that is over, with an effective concurrency of 1 *)

\* What SlotInv says of one case, by its stage and its promise.
SlotOK(st, pr) ==
    /\ st \in {"off", "queued", "claiming", "claimed"} => pr = "idle"
    /\ pr = "waiting" => st = "acquiring"
    /\ st = "finished" => pr # "granted"

\* SlotInv, case by case.
LEMMA SlotInvParts ==
    SlotInv <=> /\ ~disabled /\ OneInFlight
                /\ \A c \in Callers : SlotOK(stage[c], promise[c])
BY DEF SlotInv, AsksOnceClaimed, FinishedCaseHoldsNoSlot, SlotOK

\* The same of the state after a step.
LEMMA SlotInvAfter ==
    ASSUME ~disabled', OneInFlight', \A c \in Callers : SlotOK(stage'[c], promise'[c])
    PROVE  SlotInv'
BY DEF SlotInv, AsksOnceClaimed, FinishedCaseHoldsNoSlot, SlotOK

\* A step that takes no case into flight keeps one per run.
LEMMA OneInFlightKept ==
    ASSUME OneInFlight, \A d \in Callers : stage'[d] \in InFlight => stage[d] \in InFlight
    PROVE  OneInFlight'
BY DEF OneInFlight, InFlight

\* throttle() answers its caller and nobody else.
LEMMA ThrottlePromises ==
    ASSUME GateInv, NEW c \in Callers, Throttle(c)
    PROVE  /\ disabled' = disabled /\ promise'[c] \in {"waiting", "granted", "free"}
           /\ \A d \in Callers : d # c => promise'[d] = promise[d]
<1>1. promise \in [Callers -> PromiseStates]
  BY DEF GateInv, GateTypeOK
<1>2. PICK x \in {"waiting", "granted", "free"} : promise' = [promise EXCEPT ![c] = x]
  <2>1. CASE Gated(c)'
    <3>1. Enqueue(QueueOf(c), c)
      BY <2>1 DEF Throttle
    <3> QED BY <3>1 DEF Enqueue
  <2>2. CASE ~Gated(c)'
    BY <2>2 DEF Throttle
  <2> QED BY <2>1, <2>2
<1> QED BY <1>1, <1>2 DEF Throttle

\* release() ends the reservation of its caller and may wake one waiter.
LEMMA ReleasePromises ==
    ASSUME GateInv, NEW c \in Callers, Release(c)
    PROVE  /\ disabled' = disabled /\ promise'[c] = "done"
           /\ \A d \in Callers : d # c /\ promise'[d] # promise[d] =>
                promise[d] = "waiting" /\ promise'[d] = "granted"
<1> DEFINE pr == [promise EXCEPT ![c] = "done"]
           t == QueueOf(c)
           q == queue[t]
<1>1. promise \in [Callers -> PromiseStates] /\ promise[c] \in {"granted", "free"}
  BY DEF GateInv, GateTypeOK, Release
<1>2. CASE ~Gated(c)'
  <2>1. promise' = pr
    BY <1>2 DEF Release
  <2> QED BY <1>1, <2>1 DEF Release
<1>3. CASE Gated(c)'
  <2>1. Dequeue(t, pr) /\ t \in QueueTypes
    BY <1>3 DEF Release, Gated
  <2>2. q \in Seq(Callers) /\ WaitersIn(q, promise, t)
    BY <2>1 DEF GateInv, GateTypeOK, QueueHoldsWaiters
  <2>3. promise' = IF q = <<>> THEN pr ELSE [pr EXCEPT ![Head(q)] = "granted"]
    BY <2>1 DEF Dequeue, ResolveNext
  <2>4. CASE q = <<>>
    <3>1. promise' = pr
      BY <2>3, <2>4
    <3> QED BY <1>1, <3>1 DEF Release
  <2>5. CASE q # <<>>
    <3> DEFINE w == Head(q)
    <3>1. w \in Callers /\ promise[w] = "waiting"
      BY <1>1, <2>2, <2>5, ShiftKeepsWaiters
    <3>2. promise' = [pr EXCEPT ![w] = "granted"] /\ w # c
      BY <1>1, <2>3, <2>5, <3>1
    <3> HIDE DEF w
    <3> QED BY <1>1, <3>1, <3>2 DEF Release
  <2> QED BY <2>4, <2>5
<1> QED BY <1>2, <1>3

\* With one case of a run in flight, the abort evicts the one that loses its
\* race, and the slot that the eviction hands on goes to a case of another run,
\* or to one that does not listen and will notice it.
LEMMA AbortSlotInv ==
    ASSUME GateInv, EvalInv, SlotInv, NEW u \in Runs, NEW except, Abort(u, except),
           \A c \in Callers : c \in except => RunOf[c] = u /\ stage[c] = "claimed"
    PROVE  SlotInv'
<1> DEFINE g == Evicted(u)
           q == queue["evaluation"]
           Ends(c) == Loses(u, c) /\ Contains(q, c)
<1>1. /\ promise' = g.promise /\ disabled' = disabled
      /\ stage' = [c \in Callers |-> IF Ends(c) \/ c \in except THEN "finished" ELSE stage[c]]
  BY DEF Abort
<1>2. \A d \in Callers : promise'[d] # promise[d] =>
        promise[d] = "waiting" /\ promise'[d] \in {"granted", "evicted"}
  BY <1>1, EvictedFacts DEF OnlyWaitersMove, Before
<1>3. \A d \in Callers : SlotOK(stage[d], promise[d])
  BY SlotInvParts
<1>4. ASSUME NEW c \in Callers, Ends(c) PROVE promise'[c] = "evicted"
  <2>1. \A d \in Callers : Loses(u, d) => d = c
    <3> SUFFICES ASSUME NEW d \in Callers, Loses(u, d) PROVE d = c
      OBVIOUS
    <3>1. /\ RunOf[c] = u /\ RunOf[d] = u
          /\ stage[c] = "acquiring" /\ stage[d] = "acquiring"
      BY <1>4 DEF Loses, EvalInv, ListensWhileAcquiring
    <3> QED BY <3>1 DEF SlotInv, OneInFlight, InFlight
  <2>2. isEnabled
    <3>1. WaitersIn(q, promise, "evaluation") /\ "evaluation" \in QueueTypes
      BY DEF GateInv, QueueHoldsWaiters, QueueTypes
    <3>2. promise[c] = "waiting" /\ QueueOf(c) = "evaluation"
      BY <1>4, <3>1 DEF Contains, WaitersIn
    <3>3. limits["evaluation"] > 0
      BY <3>2 DEF GateInv, SlotMeansQueue
    <3> QED BY <3>1, <3>3 DEF GateInv, EnabledUntilDisabled, SlotInv
  <2>3. g.promise[c] = "evicted"
    BY <1>4, <2>1, <2>2, EvictedOne
  <2> QED BY <1>1, <2>3
<1>5. ASSUME NEW c \in Callers PROVE SlotOK(stage'[c], promise'[c])
  <2>1. CASE Ends(c)
    BY <1>1, <1>4, <2>1 DEF SlotOK
  <2>2. CASE c \in except
    <3>1. stage'[c] = "finished" /\ stage[c] = "claimed"
      BY <1>1, <2>2
    <3>2. promise[c] = "idle"
      BY <1>3, <3>1 DEF SlotOK
    <3> QED BY <1>2, <3>1, <3>2 DEF SlotOK
  <2>3. CASE ~Ends(c) /\ c \notin except
    <3>1. stage'[c] = stage[c]
      BY <1>1, <2>3
    <3>2. SlotOK(stage[c], promise[c])
      BY <1>3
    <3>3. promise'[c] = promise[c] \/ (promise[c] = "waiting" /\ promise'[c] \in {"granted", "evicted"})
      BY <1>2
    <3> QED BY <3>1, <3>2, <3>3 DEF SlotOK
  <2> QED BY <2>1, <2>2, <2>3
<1>6. OneInFlight'
  <2>1. \A d \in Callers : stage'[d] \in InFlight => stage[d] \in InFlight
    <3> HIDE DEF Ends
    <3> QED BY <1>1 DEF InFlight
  <2> QED BY <2>1, OneInFlightKept DEF SlotInv
<1>7. ~disabled'
  BY <1>1 DEF SlotInv
<1> QED BY <1>5, <1>6, <1>7, SlotInvAfter

\* Steps that touch neither the gate nor a callback.
LEMMA QuietSlotInv ==
    ASSUME SlotInv, UNCHANGED <<gateVars, stage>>
    PROVE  SlotInv'
BY DEF SlotInv, AsksOnceClaimed, OneInFlight, FinishedCaseHoldsNoSlot, gateVars, InFlight

\* The callbacks of a run that is seeded have not begun: none of its cases has
\* asked for a slot.
LEMMA SeedCasesSlotInv ==
    ASSUME EvalInv, SlotInv, NEW u \in Runs, SeedCases(u)
    PROVE  SlotInv'
<1>1. /\ stage' = [c \in Callers |-> IF RunOf[c] = u THEN "queued" ELSE stage[c]]
      /\ promise' = promise /\ disabled' = disabled /\ runStage[u] = "fetching"
  BY DEF SeedCases, gateVars
<1>2. \A c \in Callers : SlotOK(stage[c], promise[c])
  BY SlotInvParts
<1>3. ASSUME NEW c \in Callers PROVE SlotOK(stage'[c], promise'[c])
  <2>1. CASE RunOf[c] = u
    <3>1. stage[c] = "off"
      BY <1>1, <2>1 DEF EvalInv, CasesOK, CaseOK
    <3>2. promise[c] = "idle"
      BY <1>2, <3>1 DEF SlotOK
    <3>3. stage'[c] = "queued"
      BY <1>1, <2>1
    <3> QED BY <1>1, <3>2, <3>3 DEF SlotOK
  <2>2. CASE RunOf[c] # u
    BY <1>1, <1>2, <2>2
  <2> QED BY <2>1, <2>2
<1>4. OneInFlight'
  <2>1. \A d \in Callers : stage'[d] \in InFlight => stage[d] \in InFlight
    BY <1>1 DEF InFlight
  <2> QED BY <2>1, OneInFlightKept DEF SlotInv
<1>5. ~disabled'
  BY <1>1 DEF SlotInv
<1> QED BY <1>3, <1>4, <1>5, SlotInvAfter

\* pLimit(1) lets a case in when no other case of its run is in flight.
LEMMA StartCaseSlotInv ==
    ASSUME Concurrency = 1, EvalInv, SlotInv, NEW c \in Callers, StartCase(c)
    PROVE  SlotInv'
<1>1. /\ stage[c] = "queued" /\ LimitAllows(RunOf[c]) /\ promise' = promise
      /\ disabled' = disabled
      /\ stage' = [stage EXCEPT ![c] = IF aborted[RunOf[c]] THEN "finished" ELSE "claiming"]
  BY DEF StartCase, gateVars
<1>2. stage \in [Callers -> InFlight \cup {"off", "queued", "finished"}]
  BY DEF EvalInv, EvalTypeOK
<1>3. /\ stage'[c] \in {"finished", "claiming"}
      /\ \A d \in Callers : d # c => stage'[d] = stage[d]
  BY <1>1, <1>2
<1>4. \A d \in Callers : SlotOK(stage[d], promise[d])
  BY SlotInvParts
<1>5. \A d \in Callers : SlotOK(stage'[d], promise'[d])
  BY <1>1, <1>3, <1>4 DEF SlotOK
<1>6. \A d \in Callers : RunOf[d] = RunOf[c] => stage[d] \notin InFlight
  <2> DEFINE F == {d \in Cases(RunOf[c]) : stage[d] \in InFlight}
  <2>1. IsFiniteSet(F)
    <3>1. F \subseteq Callers
      BY DEF Cases
    <3> QED BY <3>1, GateAssumption, FS_Subset
  <2>2. Cardinality(F) < 1
    BY <1>1 DEF LimitAllows
  <2>3. Cardinality(F) = 0
    BY <2>1, <2>2, FS_CardinalityType
  <2>4. F = {}
    BY <2>1, <2>3, FS_EmptySet
  <2> QED BY <2>4 DEF Cases
<1>7. OneInFlight'
  <2> SUFFICES ASSUME NEW d \in Callers, NEW e \in Callers, RunOf[d] = RunOf[e],
                      stage'[d] \in InFlight, stage'[e] \in InFlight
               PROVE  d = e
    BY DEF OneInFlight, InFlight
  <2>1. CASE RunOf[d] = RunOf[c]
    BY <1>3, <1>6, <2>1
  <2>2. CASE RunOf[d] # RunOf[c]
    <3>1. stage[d] \in InFlight /\ stage[e] \in InFlight
      BY <1>3, <2>2
    <3> QED BY <3>1 DEF SlotInv, OneInFlight
  <2> QED BY <2>1, <2>2
<1>8. ~disabled'
  BY <1>1 DEF SlotInv
<1> QED BY <1>5, <1>7, <1>8, SlotInvAfter

\* A callback moves on, or returns, without having asked for a slot.
LEMMA EarlyCaseSlotInv ==
    ASSUME EvalInv, SlotInv, NEW c \in Callers, stage[c] \in {"claiming", "claimed"},
           UNCHANGED gateVars, NEW st \in {"claimed", "finished"},
           stage' = [stage EXCEPT ![c] = st]
    PROVE  SlotInv'
<1>1. promise' = promise /\ disabled' = disabled
  BY DEF gateVars
<1>2. stage \in [Callers -> InFlight \cup {"off", "queued", "finished"}]
  BY DEF EvalInv, EvalTypeOK
<1>3. stage'[c] = st /\ \A d \in Callers : d # c => stage'[d] = stage[d]
  BY <1>2
<1>4. \A d \in Callers : SlotOK(stage[d], promise[d])
  BY SlotInvParts
<1>5. \A d \in Callers : SlotOK(stage'[d], promise'[d])
  BY <1>1, <1>3, <1>4 DEF SlotOK
<1>6. OneInFlight'
  <2>1. \A d \in Callers : stage'[d] \in InFlight => stage[d] \in InFlight
    BY <1>3 DEF InFlight
  <2> QED BY <2>1, OneInFlightKept DEF SlotInv
<1>7. ~disabled'
  BY <1>1 DEF SlotInv
<1> QED BY <1>5, <1>6, <1>7, SlotInvAfter

\* A callback that gives its slot back returns without one; who is woken by it
\* still awaits its slot.
LEMMA ReleaseSlotInv ==
    ASSUME GateInv, EvalInv, SlotInv, NEW c \in Callers, Release(c),
           stage' = [stage EXCEPT ![c] = "finished"]
    PROVE  SlotInv'
<1>1. /\ disabled' = disabled /\ promise'[c] = "done"
      /\ \A d \in Callers : d # c /\ promise'[d] # promise[d] =>
           promise[d] = "waiting" /\ promise'[d] = "granted"
  BY ReleasePromises
<1>2. stage \in [Callers -> InFlight \cup {"off", "queued", "finished"}]
  BY DEF EvalInv, EvalTypeOK
<1>3. stage'[c] = "finished" /\ \A d \in Callers : d # c => stage'[d] = stage[d]
  BY <1>2
<1>4. \A d \in Callers : SlotOK(stage[d], promise[d])
  BY SlotInvParts
<1>5. ASSUME NEW d \in Callers PROVE SlotOK(stage'[d], promise'[d])
  <2>1. CASE d = c
    BY <1>1, <1>3, <2>1 DEF SlotOK
  <2>2. CASE d # c
    BY <1>1, <1>3, <1>4, <2>2 DEF SlotOK
  <2> QED BY <2>1, <2>2
<1>6. OneInFlight'
  <2>1. \A d \in Callers : stage'[d] \in InFlight => stage[d] \in InFlight
    BY <1>3 DEF InFlight
  <2> QED BY <2>1, OneInFlightKept DEF SlotInv
<1>7. ~disabled'
  BY <1>1 DEF SlotInv
<1> QED BY <1>5, <1>6, <1>7, SlotInvAfter

\* A claimed case asks for its slot and awaits it.
LEMMA AcquireSlotInv ==
    ASSUME GateInv, EvalInv, SlotInv, NEW c \in Callers, Acquire(c)
    PROVE  SlotInv'
<1>1. /\ disabled' = disabled /\ promise'[c] \in {"waiting", "granted", "free"}
      /\ \A d \in Callers : d # c => promise'[d] = promise[d]
      /\ stage[c] = "claimed" /\ stage' = [stage EXCEPT ![c] = "acquiring"]
  BY ThrottlePromises DEF Acquire
<1>2. stage \in [Callers -> InFlight \cup {"off", "queued", "finished"}]
  BY DEF EvalInv, EvalTypeOK
<1>3. stage'[c] = "acquiring" /\ \A d \in Callers : d # c => stage'[d] = stage[d]
  BY <1>1, <1>2
<1>4. \A d \in Callers : SlotOK(stage[d], promise[d])
  BY SlotInvParts
<1>5. \A d \in Callers : SlotOK(stage'[d], promise'[d])
  BY <1>1, <1>3, <1>4 DEF SlotOK
<1>6. OneInFlight'
  <2>1. \A d \in Callers : stage'[d] \in InFlight => stage[d] \in InFlight
    BY <1>1, <1>3 DEF InFlight
  <2> QED BY <2>1, OneInFlightKept DEF SlotInv
<1>7. ~disabled'
  BY <1>1 DEF SlotInv
<1> QED BY <1>5, <1>6, <1>7, SlotInvAfter

\* A case that has its slot runs, unless its run was aborted meanwhile.
LEMMA ProceedSlotInv ==
    ASSUME GateInv, EvalInv, SlotInv, NEW c \in Callers, Proceed(c)
    PROVE  SlotInv'
<1>1. CASE aborted[RunOf[c]]
  <2>1. Release(c) /\ stage' = [stage EXCEPT ![c] = "finished"]
    BY <1>1 DEF Proceed
  <2> QED BY <2>1, ReleaseSlotInv
<1>2. CASE ~aborted[RunOf[c]]
  <2>1. /\ stage' = [stage EXCEPT ![c] = "running"] /\ promise' = promise
        /\ disabled' = disabled /\ stage[c] = "acquiring" /\ promise[c] \in {"granted", "free"}
    BY <1>2 DEF Proceed, gateVars
  <2>2. stage \in [Callers -> InFlight \cup {"off", "queued", "finished"}]
    BY DEF EvalInv, EvalTypeOK
  <2>3. stage'[c] = "running" /\ \A d \in Callers : d # c => stage'[d] = stage[d]
    BY <2>1, <2>2
  <2>4. \A d \in Callers : SlotOK(stage[d], promise[d])
    BY SlotInvParts
  <2>5. \A d \in Callers : SlotOK(stage'[d], promise'[d])
    BY <2>1, <2>3, <2>4 DEF SlotOK
  <2>6. OneInFlight'
    <3>1. \A d \in Callers : stage'[d] \in InFlight => stage[d] \in InFlight
      BY <2>1, <2>3 DEF InFlight
    <3> QED BY <3>1, OneInFlightKept DEF SlotInv
  <2>7. ~disabled'
    BY <2>1 DEF SlotInv
  <2> QED BY <2>5, <2>6, <2>7, SlotInvAfter
<1> QED BY <1>1, <1>2

\* Every step preserves SlotInv when pLimit lets one case in at a time.
LEMMA SlotInvNext ==
    ASSUME Concurrency = 1, GateInv, EvalInv, SlotInv, [Next]_vars
    PROVE  SlotInv'
<1>1. CASE UNCHANGED vars
  BY <1>1, QuietSlotInv DEF vars, caseVars
<1>2. ASSUME NEW u \in Runs, StartRun(u) \/ RunStep(u) PROVE SlotInv'
  <2>1. CASE SeedCases(u)
    BY <2>1, SeedCasesSlotInv
  <2>2. CASE ~SeedCases(u)
    <3>1. UNCHANGED <<gateVars, stage>>
      BY <1>2, <2>2 DEF StartRun, RunStep, MarkAsRunning, FetchFails, EndRun, caseVars
    <3> QED BY <3>1, QuietSlotInv
  <2> QED BY <2>1, <2>2
<1>3. ASSUME NEW u \in Runs,
             CancelTestRun(u) \/ CancelOnForeignMain(u) \/ DeliverCancel(u)
      PROVE  SlotInv'
  <2>1. UNCHANGED <<gateVars, stage>> \/ Abort(u, {})
    BY <1>3 DEF CancelTestRun, CancelOnForeignMain, DeliverCancel
  <2> QED BY <2>1, QuietSlotInv, AbortSlotInv
<1>4. ASSUME NEW c \in Callers, CaseStep(c) \/ CancelCase(c) PROVE SlotInv'
  <2>1. CASE StartCase(c)
    BY <2>1, StartCaseSlotInv
  <2>2. CASE ClaimCase(c)
    <3>1. PICK st \in {"claimed", "finished"} : stage' = [stage EXCEPT ![c] = st]
      BY <2>2 DEF ClaimCase
    <3>2. stage[c] \in {"claiming", "claimed"} /\ UNCHANGED gateVars
      BY <2>2 DEF ClaimCase
    <3> QED BY <3>1, <3>2, EarlyCaseSlotInv
  <2>3. CASE CaseThrows(c)
    <3>1. stage' = [stage EXCEPT ![c] = "finished"]
      BY <2>3 DEF CaseThrows
    <3>2. CASE stage[c] = "running"
      BY <2>3, <3>1, <3>2, ReleaseSlotInv DEF CaseThrows
    <3>3. CASE stage[c] # "running"
      <4>1. stage[c] \in {"claiming", "claimed"} /\ UNCHANGED gateVars
        BY <2>3, <3>3 DEF CaseThrows
      <4> QED BY <3>1, <4>1, EarlyCaseSlotInv
    <3> QED BY <3>2, <3>3
  <2>4. CASE PollCancellation(c)
    <3>1. RunOf[c] \in Runs
      BY TestRunnerAssumption
    <3>2. /\ Abort(RunOf[c], {c})
          /\ \A d \in Callers : d \in {c} => RunOf[d] = RunOf[c] /\ stage[d] = "claimed"
      BY <2>4 DEF PollCancellation
    <3> QED BY <3>1, <3>2, AbortSlotInv
  <2>5. CASE Acquire(c)
    BY <2>5, AcquireSlotInv
  <2>6. CASE Proceed(c)
    BY <2>6, ProceedSlotInv
  <2>7. CASE FinishCase(c)
    BY <2>7, ReleaseSlotInv DEF FinishCase
  <2>8. CASE CancelCase(c)
    BY <2>8, QuietSlotInv DEF CancelCase
  <2> QED BY <1>4, <2>1, <2>2, <2>3, <2>4, <2>5, <2>6, <2>7, <2>8 DEF CaseStep
<1> QED BY <1>1, <1>2, <1>3, <1>4 DEF Next

\* At the start nobody has asked for a slot.
LEMMA SlotInvInit == TestRunnerInit => SlotInv
BY DEF TestRunnerInit, GateInit, SlotInv, AsksOnceClaimed, OneInFlight, InFlight,
       FinishedCaseHoldsNoSlot

\* FinishedCaseHoldsNoSlot for any number of runs and cases and any limits, when
\* a run has one case in flight at a time: however a case is over, aborted ones
\* included, its slot is back in circulation.
THEOREM FinishedCasesHoldNothing ==
    ASSUME Concurrency = 1
    PROVE  Spec => []FinishedCaseHoldsNoSlot
<1>1. GateInv /\ EvalInv /\ SlotInv /\ [Next]_vars => SlotInv'
  BY SlotInvNext
<1>2. SlotInv => FinishedCaseHoldsNoSlot
  BY DEF SlotInv
<1> QED BY <1>1, <1>2, SlotInvInit, GateUnderEvaluation, EvalInvariant, PTL DEF Spec
=============================================================================
