----------------------- MODULE ActiveExecutionsProofs -----------------------
(***************************************************************************)
(* For any runs, executions and limits: one run at a time runs an          *)
(* execution, a canceled row stays canceled once its run is launched, the  *)
(* gate keeps its accounts under the registry, restarts included, and      *)
(* where no run resumes another's row no row is left running.              *)
(***************************************************************************)
EXTENDS ActiveExecutions, ConcurrencyControlProofs

\* Entries only go and attached workflows only come off.
Shrinks ==
    /\ active' \in [Execs -> Callers \cup {NoRun}]
    /\ attached' \in [Callers -> Callers \cup {NoRun}]
    /\ \A e \in Execs : active'[e] \in {active[e], NoRun}
    /\ \A q \in Callers : attached'[q] \in {attached[q], NoRun}

\* Every run goes on where it was, or is sent to save 'canceled' while in use.
OnlyCancels ==
    /\ pc' \in [Callers -> Stages] /\ result' \in [Callers -> Statuses]
    /\ \A w \in Callers :
         \/ pc'[w] = pc[w] /\ result'[w] = result[w]
         \/ InUse(w) /\ pc'[w] = "save" /\ result'[w] = "canceled"

\* The row of an execution whose creator has not updated it yet.
CreatorRow(r) ==
    /\ pc[r] = "off" => status[ExecOf[r]] = "none"
    /\ pc[r] \in {"created", "update"} => status[ExecOf[r]] \in {"new", "canceled"}

Early == {"off", "created", "update"}

-----------------------------------------------------------------------------
(* Helpers of the actions *)

\* The .finally of a settled promise takes entries away and adds none.
LEMMA SettleShrinks ==
    ASSUME RegistryTypeOK, NEW q \in Callers, Settle(q)
    PROVE  Shrinks
<1>1. CASE promise[q] = "done"
  BY <1>1 DEF Settle, Shrinks, RegistryTypeOK
<1>2. CASE promise[q] # "done"
  <2>1. ExecOf[q] \in Execs
    BY RegistryAssumption
  <2>2. CASE objStatus[q] = "waiting"
    BY <1>2, <2>2 DEF Settle, Shrinks, RegistryTypeOK
  <2>3. CASE objStatus[q] # "waiting"
    BY <1>2, <2>1, <2>3 DEF Settle, Shrinks, RegistryTypeOK
  <2> QED BY <2>2, <2>3
<1> QED BY <1>1, <1>2

\* What a stop cancels is in use.
LEMMA CancelInUse ==
    ASSUME RegistryTypeOK, NEW e \in Execs, active[e] # NoRun,
           objStatus[active[e]] # "waiting", CancelWorkflow(attached[active[e]])
    PROVE  OnlyCancels
<1> DEFINE w == attached[active[e]]
<1>1. w \in Callers \cup {NoRun} /\ active[e] \in Callers
  BY DEF RegistryTypeOK
<1>2. pc \in [Callers -> Stages] /\ result \in [Callers -> Statuses]
  BY DEF RegistryTypeOK
<1>3. CASE w # NoRun /\ pc[w] \in {"run", "save", "finalize"}
  <2>1. ExecOf[w] = e
    BY <1>1, <1>3 DEF RegistryTypeOK
  <2>2. InUse(w)
    BY <1>3, <2>1 DEF InUse, Cancelable, Executing
  <2>3. /\ pc' = [pc EXCEPT ![w] = "save"]
        /\ result' = [result EXCEPT ![w] = "canceled"]
    BY <1>3 DEF CancelWorkflow, Goto
  <2> HIDE DEF w
  <2> QED BY <1>1, <1>2, <1>3, <2>2, <2>3 DEF OnlyCancels, Stages, Statuses
<1>4. CASE ~(w # NoRun /\ pc[w] \in {"run", "save", "finalize"})
  BY <1>2, <1>4 DEF CancelWorkflow, OnlyCancels
<1> QED BY <1>3, <1>4

\* stopExecution() takes entries away and cancels what is in use.
LEMMA StopShrinks ==
    ASSUME RegistryTypeOK, NEW e \in Execs, StopExecution(e)
    PROVE  Shrinks /\ OnlyCancels
<1>1. CASE active[e] = NoRun
  BY <1>1 DEF StopExecution, Shrinks, OnlyCancels, RegistryTypeOK
<1>2. CASE active[e] # NoRun /\ objStatus[active[e]] = "waiting"
  BY <1>2 DEF StopExecution, Shrinks, OnlyCancels, RegistryTypeOK
<1>3. CASE active[e] # NoRun /\ objStatus[active[e]] # "waiting"
  <2>1. active[e] \in Callers
    BY <1>3 DEF RegistryTypeOK
  <2>2. CancelWorkflow(attached[active[e]]) /\ Settle(active[e])
    BY <1>3 DEF StopExecution
  <2> QED BY <1>3, <2>1, <2>2, SettleShrinks, CancelInUse
<1> QED BY <1>1, <1>2, <1>3

\* Taking entries away makes no run cancelable.
LEMMA ShrinkFrees ==
    ASSUME RegistryTypeOK, Shrinks, objStatus' = objStatus
    PROVE  \A w \in Callers : Cancelable(w)' => Cancelable(w)
<1> SUFFICES ASSUME NEW w \in Callers, Cancelable(w)' PROVE Cancelable(w)
  OBVIOUS
<1>1. ExecOf[w] \in Execs /\ w # NoRun
  BY RegistryAssumption
<1>2. /\ active'[ExecOf[w]] # NoRun /\ attached'[active'[ExecOf[w]]] = w
      /\ objStatus'[active'[ExecOf[w]]] # "waiting"
  BY DEF Cancelable
<1>3. active'[ExecOf[w]] = active[ExecOf[w]] /\ active[ExecOf[w]] \in Callers
  BY <1>1, <1>2 DEF Shrinks, RegistryTypeOK
<1>4. attached'[active[ExecOf[w]]] = attached[active[ExecOf[w]]]
  BY <1>1, <1>2, <1>3 DEF Shrinks
<1> QED BY <1>2, <1>3, <1>4 DEF Cancelable

-----------------------------------------------------------------------------
(* Types *)

\* Writing a row's status.
LEMMA WriteFacts ==
    ASSUME RegistryTypeOK, NEW e \in Execs, NEW s \in Statuses, Write(e, s)
    PROVE  /\ status' \in [Execs -> Statuses]
           /\ \A d \in Execs \ {e} : status'[d] = status[d]
           /\ status'[e] = IF status[e] \in {"none", "deleted"} THEN status[e] ELSE s
BY DEF Write, RegistryTypeOK

\* Moving a run on.
LEMMA GotoFacts ==
    ASSUME RegistryTypeOK, NEW r \in Callers, NEW g \in Stages, Goto(r, g)
    PROVE  /\ pc' \in [Callers -> Stages] /\ pc'[r] = g
           /\ \A w \in Callers \ {r} : pc'[w] = pc[w]
BY DEF Goto, RegistryTypeOK

\* Entries and attached workflows still match after some are taken away.
LEMMA ShrinkTypes ==
    ASSUME RegistryTypeOK, Shrinks, status' = status, objStatus' = objStatus,
           pc' \in [Callers -> Stages], result' \in [Callers -> Statuses]
    PROVE  RegistryTypeOK'
<1>1. \A e \in Execs : active'[e] # NoRun => ExecOf[active'[e]] = e
  BY DEF Shrinks, RegistryTypeOK
<1>2. \A q \in Callers : attached'[q] # NoRun => ExecOf[attached'[q]] = ExecOf[q]
  BY DEF Shrinks, RegistryTypeOK
<1> QED BY <1>1, <1>2 DEF Shrinks, RegistryTypeOK

-----------------------------------------------------------------------------
(* One run at a time *)

\* A step that puts no new run in use and no row to wait keeps the invariant.
LEMMA QuietStep ==
    ASSUME RegistryInv, RegistryTypeOK', WaitIsFinal',
           \A w \in Callers : InUse(w)' => InUse(w),
           \A e \in Execs : status'[e] = "waiting" => status[e] = "waiting",
           \A r \in Fresh : pc'[r] \in Early => pc[r] \in Early /\ CreatorRow(r)'
    PROVE  RegistryInv'
<1>1. OneInUse'
  BY DEF RegistryInv, OneInUse
<1>2. InUseNotWaiting'
  BY RegistryAssumption DEF RegistryInv, InUseNotWaiting
<1>3. CreatorIsFirst'
  BY DEF RegistryInv, CreatorIsFirst, CreatorRow, Early
<1> QED BY <1>1, <1>2, <1>3 DEF RegistryInv

\* A step that attaches nothing, starts nobody and sends no row to wait.
LEMMA CalmStep ==
    ASSUME RegistryInv, RegistryTypeOK',
           \A w \in Callers : Cancelable(w)' => Cancelable(w),
           \A w \in Callers :
             /\ pc'[w] \in Executing => InUse(w)
             /\ pc'[w] = "finalize" => pc[w] \in Executing \cup {"finalize"}
             /\ pc'[w] = "save" /\ result'[w] = "waiting" =>
                  pc[w] = "save" /\ result[w] = "waiting",
           \A e \in Execs : status'[e] = "waiting" => status[e] = "waiting",
           \A r \in Fresh : pc'[r] \in Early => pc[r] \in Early /\ CreatorRow(r)'
    PROVE  RegistryInv'
<1>1. WaitIsFinal'
  BY DEF RegistryInv, WaitIsFinal
<1>2. ASSUME NEW w \in Callers, InUse(w)' PROVE InUse(w)
  <2>1. pc'[w] \in Executing \/ (pc'[w] = "finalize" /\ Cancelable(w)')
    BY <1>2 DEF InUse
  <2> QED BY <2>1 DEF InUse
<1> QED BY <1>1, <1>2, QuietStep

\* The execution of a run in use has no creator still to update its row.
LEMMA InUseNotEarly ==
    ASSUME RegistryInv, NEW w \in Callers, InUse(w), NEW r \in Fresh, pc[r] \in Early
    PROVE  ExecOf[r] # ExecOf[w]
BY DEF RegistryInv, CreatorIsFirst, Early

\* Steps that touch neither entries nor attached workflows.
LEMMA EntriesKept ==
    ASSUME UNCHANGED <<active, attached, objStatus>>
    PROVE  \A w \in Callers : Cancelable(w)' <=> Cancelable(w)
BY DEF Cancelable

\* Types when neither entries nor attached workflows change.
LEMMA TypesKept ==
    ASSUME RegistryTypeOK, UNCHANGED <<active, attached, objStatus>>,
           status' \in [Execs -> Statuses], pc' \in [Callers -> Stages],
           result' \in [Callers -> Statuses]
    PROVE  RegistryTypeOK'
BY DEF RegistryTypeOK

\* Creating a row, reserving a slot and giving it back.
LEMMA EarlySteps ==
    ASSUME RegistryInv, NEW r \in Callers, Create(r) \/ Reserve(r) \/ UpdateRefused(r)
    PROVE  RegistryInv'
<1>a. RegistryTypeOK /\ ExecOf[r] \in Execs
  BY RegistryAssumption DEF RegistryInv
<1>b. UNCHANGED <<active, attached, objStatus, result>>
  BY DEF Create, Reserve, UpdateRefused
<1>c. \A w \in Callers : Cancelable(w)' => Cancelable(w)
  BY <1>b, EntriesKept
<1>d. PICK g \in {"created", "update", "failed"} : Goto(r, g)
  BY DEF Create, Reserve, UpdateRefused
<1>e. /\ pc' \in [Callers -> Stages] /\ pc'[r] = g
      /\ \A w \in Callers \ {r} : pc'[w] = pc[w]
  BY <1>a, <1>d, GotoFacts DEF Stages
<1>f. \A w \in Callers :
        /\ pc'[w] \in Executing => InUse(w)
        /\ pc'[w] = "finalize" => pc[w] \in Executing \cup {"finalize"}
        /\ pc'[w] = "save" /\ result'[w] = "waiting" =>
             pc[w] = "save" /\ result[w] = "waiting"
  BY <1>b, <1>e DEF InUse, Executing
<1>g. result' \in [Callers -> Statuses]
  BY <1>a, <1>b DEF RegistryTypeOK
<1>1. CASE Create(r)
  <2>1. r \in Fresh /\ pc[r] = "off" /\ pc'[r] = "created"
    BY <1>1, <1>a DEF Create, Goto, RegistryTypeOK
  <2>2. /\ status' \in [Execs -> Statuses] /\ status'[ExecOf[r]] = "new"
        /\ \A e \in Execs \ {ExecOf[r]} : status'[e] = status[e]
    BY <1>1, <1>a DEF Create, RegistryTypeOK, Statuses
  <2>3. ASSUME NEW s \in Fresh, pc'[s] \in Early PROVE pc[s] \in Early /\ CreatorRow(s)'
    <3>1. CASE s = r
      BY <2>1, <2>2, <3>1 DEF Early, CreatorRow
    <3>2. CASE s # r
      <4>1. s \in Callers /\ ExecOf[s] \in Execs /\ ExecOf[s] # ExecOf[r] /\ pc'[s] = pc[s]
        BY <1>e, <2>1, <3>2, RegistryAssumption
      <4>2. status'[ExecOf[s]] = status[ExecOf[s]]
        BY <2>2, <4>1
      <4> QED BY <2>3, <4>1, <4>2 DEF CreatorRow, RegistryInv, CreatorIsFirst
    <3> QED BY <3>1, <3>2
  <2>4. RegistryTypeOK'
    BY <1>a, <1>b, <1>e, <1>g, <2>2, TypesKept
  <2>5. \A e \in Execs : status'[e] = "waiting" => status[e] = "waiting"
    BY <2>2
  <2> QED BY <1>c, <1>f, <2>3, <2>4, <2>5, CalmStep
<1>2. CASE Reserve(r) \/ UpdateRefused(r)
  <2>1. status' = status
    BY <1>2 DEF Reserve, UpdateRefused
  <2>2. RegistryTypeOK'
    BY <1>a, <1>b, <1>e, <1>g, <2>1, TypesKept DEF RegistryTypeOK
  <2>3. r \in Fresh /\ pc'[r] \in Early => pc[r] = "created" /\ pc'[r] = "update"
    BY <1>2, <1>a, GotoFacts DEF Reserve, UpdateRefused, Early, Stages
  <2>4. ASSUME NEW s \in Fresh, pc'[s] \in Early PROVE pc[s] \in Early /\ CreatorRow(s)'
    <3>1. s \in Callers
      BY RegistryAssumption
    <3>2. CASE s = r
      BY <2>1, <2>3, <2>4, <3>2 DEF Early, CreatorRow, RegistryInv, CreatorIsFirst
    <3>3. CASE s # r
      BY <1>e, <2>1, <2>4, <3>1, <3>3 DEF CreatorRow, RegistryInv, CreatorIsFirst
    <3> QED BY <3>2, <3>3
  <2> QED BY <1>c, <1>f, <2>1, <2>2, <2>4, CalmStep
<1> QED BY <1>1, <1>2

\* Updating the row: only the creator of a new row, or one resume of a row that
\* waits, and then nobody else is in use.
LEMMA UpdateRowStep ==
    ASSUME RegistryInv, NEW r \in Callers, UpdateRow(r)
    PROVE  RegistryInv'
<1> DEFINE e == ExecOf[r]
<1>a. RegistryTypeOK /\ e \in Execs
  BY RegistryAssumption DEF RegistryInv
<1>b. UNCHANGED <<active, attached, objStatus, result>> /\ pc[r] = "update"
  BY DEF UpdateRow, Reserved
<1>c. \A w \in Callers : Cancelable(w)' <=> Cancelable(w)
  BY <1>b, EntriesKept
<1>d. /\ pc' \in [Callers -> Stages] /\ pc'[r] = "register"
      /\ \A w \in Callers \ {r} : pc'[w] = pc[w]
  BY <1>a, GotoFacts DEF UpdateRow, Stages
<1>e. /\ status' \in [Execs -> Statuses]
      /\ \A d \in Execs \ {e} : status'[d] = status[d]
      /\ status'[e] = IF status[e] \in {"none", "deleted"} THEN status[e] ELSE "running"
  BY <1>a, WriteFacts DEF UpdateRow, Statuses
<1>1. RegistryTypeOK'
  BY <1>a, <1>b, <1>d, <1>e, TypesKept DEF RegistryTypeOK
<1>2. \A w \in Callers : ExecOf[w] = e => ~InUse(w)
  <2>1. CASE r \in Fresh
    BY <1>b, <2>1 DEF RegistryInv, CreatorIsFirst
  <2>2. CASE status[e] = "waiting"
    BY <2>2 DEF RegistryInv, InUseNotWaiting
  <2> QED BY <2>1, <2>2 DEF UpdateRow, Resumable
<1>3. \A w \in Callers \ {r} : InUse(w)' <=> InUse(w)
  BY <1>c, <1>d DEF InUse
<1>4. OneInUse'
  BY <1>2, <1>3 DEF RegistryInv, OneInUse
<1>5. InUseNotWaiting'
  <2> SUFFICES ASSUME NEW w \in Callers, InUse(w)' PROVE status'[ExecOf[w]] # "waiting"
    BY DEF InUseNotWaiting
  <2>1. CASE ExecOf[w] = e
    BY <1>e, <2>1
  <2>2. CASE ExecOf[w] # e
    BY <1>3, <1>e, <2>2, RegistryAssumption DEF RegistryInv, InUseNotWaiting
  <2> QED BY <2>1, <2>2
<1>6. WaitIsFinal'
  BY <1>b, <1>c, <1>d DEF RegistryInv, WaitIsFinal
<1>7. CreatorIsFirst'
  <2> SUFFICES ASSUME NEW s \in Fresh, pc'[s] \in Early
               PROVE  /\ CreatorRow(s)'
                      /\ \A w \in Callers : ExecOf[w] = ExecOf[s] => ~InUse(w)'
    BY DEF CreatorIsFirst, CreatorRow, Early
  <2>1. s \in Callers /\ ExecOf[s] \in Execs /\ s # r /\ pc'[s] = pc[s]
    BY <1>d, RegistryAssumption DEF Early
  <2>2. ExecOf[s] # e
    <3>1. CASE r \in Fresh
      BY <2>1, <3>1, RegistryAssumption
    <3>2. CASE status[e] = "waiting"
      BY <2>1, <3>2 DEF RegistryInv, CreatorIsFirst, Early
    <3> QED BY <3>1, <3>2 DEF UpdateRow, Resumable
  <2>3. status'[ExecOf[s]] = status[ExecOf[s]]
    BY <1>e, <2>1, <2>2
  <2>4. CreatorRow(s)'
    BY <2>1, <2>3 DEF CreatorRow, RegistryInv, CreatorIsFirst
  <2>5. \A w \in Callers : ExecOf[w] = ExecOf[s] => ~InUse(w)'
    BY <1>3, <2>1, <2>2 DEF RegistryInv, CreatorIsFirst, Early
  <2> QED BY <2>4, <2>5
<1> QED BY <1>1, <1>4, <1>5, <1>6, <1>7 DEF RegistryInv

\* The entry of a run that registers has nothing attached yet.
LEMMA RegisterStep ==
    ASSUME RegistryInv, NEW r \in Callers, Register(r)
    PROVE  RegistryInv'
<1> DEFINE e == ExecOf[r]
<1>a. RegistryTypeOK /\ e \in Execs /\ r # NoRun
  BY RegistryAssumption DEF RegistryInv
<1>b. UNCHANGED <<status, result>> /\ pc[r] = "register"
  BY DEF Register
<1>c. /\ pc' \in [Callers -> Stages] /\ pc'[r] = "registered"
      /\ \A w \in Callers \ {r} : pc'[w] = pc[w]
  BY <1>a, GotoFacts DEF Register, Stages
<1>d. /\ active' \in [Execs -> Callers \cup {NoRun}] /\ active'[e] = r
      /\ \A d \in Execs \ {e} : active'[d] = active[d]
  BY <1>a DEF Register, RegistryTypeOK
<1>e. /\ objStatus' \in [Callers -> {"running", "waiting"}]
      /\ \A q \in Callers \ {r} : objStatus'[q] = objStatus[q]
  BY <1>a DEF Register, RegistryTypeOK
<1>f. /\ attached' \in [Callers -> Callers \cup {NoRun}] /\ attached'[r] = NoRun
      /\ \A q \in Callers \ {r} : attached'[q] = attached[q]
  BY <1>a DEF Register, RegistryTypeOK
<1>1. RegistryTypeOK'
  <2>1. \A d \in Execs : active'[d] # NoRun => ExecOf[active'[d]] = d
    BY <1>a, <1>d DEF RegistryTypeOK
  <2>2. \A q \in Callers : attached'[q] # NoRun => ExecOf[attached'[q]] = ExecOf[q]
    BY <1>a, <1>f DEF RegistryTypeOK
  <2> QED BY <1>a, <1>b, <1>c, <1>d, <1>e, <1>f, <2>1, <2>2 DEF RegistryTypeOK
<1>2. ASSUME NEW w \in Callers, Cancelable(w)' PROVE Cancelable(w)
  <2>1. ExecOf[w] \in Execs /\ w # NoRun
    BY RegistryAssumption
  <2>2. CASE ExecOf[w] = e
    BY <1>2, <1>d, <1>f, <2>1, <2>2 DEF Cancelable
  <2>3. CASE ExecOf[w] # e
    <3>1. active'[ExecOf[w]] = active[ExecOf[w]] /\ active[ExecOf[w]] # NoRun
      BY <1>2, <1>d, <2>1, <2>3 DEF Cancelable
    <3>2. active[ExecOf[w]] \in Callers \ {r}
      BY <1>a, <2>1, <2>3, <3>1 DEF RegistryTypeOK
    <3> QED BY <1>2, <1>e, <1>f, <3>1, <3>2 DEF Cancelable
  <2> QED BY <2>2, <2>3
<1>3. \A w \in Callers :
        /\ pc'[w] \in Executing => InUse(w)
        /\ pc'[w] = "finalize" => pc[w] \in Executing \cup {"finalize"}
        /\ pc'[w] = "save" /\ result'[w] = "waiting" =>
             pc[w] = "save" /\ result[w] = "waiting"
  BY <1>b, <1>c DEF InUse, Executing
<1>4. \A s \in Fresh : pc'[s] \in Early => pc[s] \in Early /\ CreatorRow(s)'
  BY <1>b, <1>c, RegistryAssumption DEF Early, CreatorRow, RegistryInv, CreatorIsFirst
<1> QED BY <1>1, <1>2, <1>3, <1>4, <1>b, CalmStep

\* A run in use moves on and leaves the entries alone.
LEMMA RunMovesOn ==
    ASSUME RegistryInv, NEW r \in Callers, pc[r] \in Executing \cup {"finalize"},
           UNCHANGED <<active, attached, objStatus>>,
           NEW g \in Stages \ Early, Goto(r, g),
           g \in Executing \cup {"finalize"} => pc[r] \in Executing,
           result' \in [Callers -> Statuses],
           \A w \in Callers \ {r} : result'[w] = result[w],
           g = "save" => result'[r] # "waiting",
           status' \in [Execs -> Statuses],
           \A d \in Execs \ {ExecOf[r]} : status'[d] = status[d],
           status[ExecOf[r]] # status'[ExecOf[r]] =>
               pc[r] \in Executing /\ status'[ExecOf[r]] # "waiting"
    PROVE  RegistryInv'
<1>a. RegistryTypeOK /\ ExecOf[r] \in Execs
  BY RegistryAssumption DEF RegistryInv
<1>b. /\ pc' \in [Callers -> Stages] /\ pc'[r] = g
      /\ \A w \in Callers \ {r} : pc'[w] = pc[w]
  BY <1>a, GotoFacts
<1>1. RegistryTypeOK'
  BY <1>a, <1>b, TypesKept
<1>2. \A w \in Callers : Cancelable(w)' => Cancelable(w)
  BY EntriesKept
<1>3. \A w \in Callers :
        /\ pc'[w] \in Executing => InUse(w)
        /\ pc'[w] = "finalize" => pc[w] \in Executing \cup {"finalize"}
        /\ pc'[w] = "save" /\ result'[w] = "waiting" =>
             pc[w] = "save" /\ result[w] = "waiting"
  BY <1>b DEF InUse
<1>4. \A e \in Execs : status'[e] = "waiting" => status[e] = "waiting"
  OBVIOUS
<1>5. ASSUME NEW s \in Fresh, pc'[s] \in Early PROVE pc[s] \in Early /\ CreatorRow(s)'
  <2>1. s \in Callers /\ ExecOf[s] \in Execs /\ s # r /\ pc'[s] = pc[s]
    BY <1>5, <1>b, RegistryAssumption
  <2>2. status'[ExecOf[s]] = status[ExecOf[s]]
    <3>1. CASE pc[r] \in Executing
      <4>1. ExecOf[s] # ExecOf[r]
        BY <1>5, <2>1, <3>1, InUseNotEarly DEF InUse
      <4> QED BY <2>1, <4>1
    <3>2. CASE pc[r] \notin Executing
      BY <2>1, <3>2
    <3> QED BY <3>1, <3>2
  <2> QED BY <1>5, <2>1, <2>2 DEF CreatorRow, RegistryInv, CreatorIsFirst
<1> QED BY <1>1, <1>2, <1>3, <1>4, <1>5, CalmStep

\* The steps of run() and runMainProcess() that leave the entries alone.
LEMMA MainSteps ==
    ASSUME RegistryInv, NEW r \in Callers,
           FailExecution(r) \/ Preflight(r) \/ StartMain(r) \/ Finish(r)
    PROVE  RegistryInv'
<1>a. RegistryTypeOK /\ ExecOf[r] \in Execs
  BY RegistryAssumption DEF RegistryInv
<1>b. status \in [Execs -> Statuses] /\ result \in [Callers -> Statuses]
  BY <1>a DEF RegistryTypeOK
<1>1. CASE FailExecution(r)
  <2>1. /\ result' = [result EXCEPT ![r] = "error"] /\ Goto(r, "save") /\ pc[r] = "registered"
        /\ UNCHANGED <<status, active, attached, objStatus>>
    BY <1>1 DEF FailExecution, FailedRunStatus
  <2>2. result' \in [Callers -> Statuses] /\ result'[r] = "error"
        /\ \A w \in Callers \ {r} : result'[w] = result[w]
    BY <1>b, <2>1 DEF Statuses
  <2>3. "save" \in Stages \ Early /\ "registered" \in Executing
    BY DEF Stages, Early, Executing
  <2> QED BY <1>b, <2>1, <2>2, <2>3, RunMovesOn
<1>2. CASE Preflight(r)
  <2>1. pc[r] = "registered" /\ UNCHANGED <<status, active, attached, objStatus, result>>
    BY <1>2 DEF Preflight
  <2>2. PICK g \in {"start", "aborted"} : Goto(r, g)
    BY <1>2 DEF Preflight
  <2>3. g \in Stages \ Early /\ "registered" \in Executing /\ g # "save"
    BY DEF Stages, Early, Executing
  <2> QED BY <1>b, <2>1, <2>2, <2>3, RunMovesOn
<1>3. CASE StartMain(r)
  <2>1. /\ pc[r] = "start" /\ Goto(r, "launch") /\ Write(ExecOf[r], "running")
        /\ UNCHANGED <<active, attached, objStatus, result>>
    BY <1>3 DEF StartMain
  <2>2. "launch" \in Stages \ Early /\ "start" \in Executing /\ "running" \in Statuses
    BY DEF Stages, Early, Executing, Statuses
  <2>3. /\ status' \in [Execs -> Statuses]
        /\ \A d \in Execs \ {ExecOf[r]} : status'[d] = status[d]
        /\ status'[ExecOf[r]] \in {status[ExecOf[r]], "running"}
    BY <1>a, <2>1, <2>2, WriteFacts
  <2>4. status[ExecOf[r]] # status'[ExecOf[r]] => status'[ExecOf[r]] # "waiting"
    BY <2>3
  <2> QED BY <1>b, <2>1, <2>2, <2>3, <2>4, RunMovesOn
<1>4. CASE Finish(r)
  <2>1. /\ pc[r] = "run" /\ Goto(r, "save")
        /\ UNCHANGED <<status, active, attached, objStatus>>
    BY <1>4 DEF Finish
  <2>2. PICK s \in {"success", "error"} : result' = [result EXCEPT ![r] = s]
    BY <1>4 DEF Finish
  <2>3. result' \in [Callers -> Statuses] /\ result'[r] # "waiting"
        /\ \A w \in Callers \ {r} : result'[w] = result[w]
    BY <1>b, <2>2 DEF Statuses
  <2>4. "save" \in Stages \ Early /\ "run" \in Executing
    BY DEF Stages, Early, Executing
  <2> QED BY <1>b, <2>1, <2>3, <2>4, RunMovesOn
<1> QED BY <1>1, <1>2, <1>3, <1>4

\* The engine of the run in use is attached; no other run becomes cancelable.
LEMMA LaunchStep ==
    ASSUME RegistryInv, NEW r \in Callers, Launch(r)
    PROVE  RegistryInv'
<1> DEFINE e == ExecOf[r]
           q == active[e]
<1>a. RegistryTypeOK /\ e \in Execs /\ r # NoRun
  BY RegistryAssumption DEF RegistryInv
<1>b. UNCHANGED <<status, active, objStatus, result>> /\ pc[r] = "launch"
  BY DEF Launch
<1>c. /\ pc' \in [Callers -> Stages] /\ pc'[r] = "run"
      /\ \A w \in Callers \ {r} : pc'[w] = pc[w]
  BY <1>a, GotoFacts DEF Launch, Stages
<1>d. q \in Callers \cup {NoRun} /\ (q # NoRun => ExecOf[q] = e)
  BY <1>a DEF RegistryTypeOK
<1>e. attached' = IF q = NoRun THEN attached ELSE [attached EXCEPT ![q] = r]
  BY DEF Launch
<1> HIDE DEF q
<1>f. /\ attached' \in [Callers -> Callers \cup {NoRun}]
      /\ \A x \in Callers : x # q => attached'[x] = attached[x]
      /\ q # NoRun => attached'[q] = r
  BY <1>a, <1>d, <1>e DEF RegistryTypeOK
<1>1. RegistryTypeOK'
  <2>1. ASSUME NEW x \in Callers, attached'[x] # NoRun
        PROVE  ExecOf[attached'[x]] = ExecOf[x]
    <3>1. CASE x = q
      BY <1>d, <1>f, <3>1, RegistryAssumption
    <3>2. CASE x # q
      BY <1>a, <1>f, <2>1, <3>2 DEF RegistryTypeOK
    <3> QED BY <3>1, <3>2
  <2> QED BY <1>a, <1>b, <1>c, <1>f, <2>1 DEF RegistryTypeOK
<1>2. ASSUME NEW w \in Callers \ {r}, Cancelable(w)' PROVE Cancelable(w) /\ ExecOf[w] # e
  <2>1. ExecOf[w] \in Execs /\ w # NoRun
    BY RegistryAssumption
  <2>2. /\ active[ExecOf[w]] # NoRun /\ attached'[active[ExecOf[w]]] = w
        /\ objStatus[active[ExecOf[w]]] # "waiting"
    BY <1>2, <1>b DEF Cancelable
  <2>3. active[ExecOf[w]] \in Callers /\ ExecOf[active[ExecOf[w]]] = ExecOf[w]
    BY <1>a, <2>1, <2>2 DEF RegistryTypeOK
  <2>4. ExecOf[w] # e
    BY <1>2, <1>f, <2>2 DEF q
  <2>5. active[ExecOf[w]] # q
    BY <1>d, <2>2, <2>3, <2>4
  <2>6. attached[active[ExecOf[w]]] = w
    BY <1>f, <2>2, <2>3, <2>5
  <2> QED BY <2>2, <2>4, <2>6 DEF Cancelable
<1>3. \A w \in Callers : InUse(w)' => InUse(w)
  BY <1>2, <1>b, <1>c DEF InUse, Executing
<1>4. WaitIsFinal'
  <2> SUFFICES ASSUME NEW w \in Callers, pc'[w] = "save", result'[w] = "waiting"
               PROVE  ~Cancelable(w)'
    BY DEF WaitIsFinal
  <2>1. w # r /\ pc[w] = "save" /\ result[w] = "waiting"
    BY <1>b, <1>c
  <2> QED BY <1>2, <2>1 DEF RegistryInv, WaitIsFinal
<1>5. \A s \in Fresh : pc'[s] \in Early => pc[s] \in Early /\ CreatorRow(s)'
  BY <1>b, <1>c, RegistryAssumption DEF Early, CreatorRow, RegistryInv, CreatorIsFirst
<1> QED BY <1>1, <1>3, <1>4, <1>5, <1>b, QuietStep

\* A run that waits puts itself out of reach of stops first.
LEMMA PutToWaitStep ==
    ASSUME RegistryInv, NEW r \in Callers, PutToWait(r)
    PROVE  RegistryInv'
<1> DEFINE e == ExecOf[r]
           q == active[e]
<1>a. RegistryTypeOK /\ e \in Execs
  BY RegistryAssumption DEF RegistryInv
<1>b. UNCHANGED <<status, active, attached>> /\ pc[r] = "run"
  BY DEF PutToWait
<1>c. /\ pc' \in [Callers -> Stages] /\ pc'[r] = "save"
      /\ \A w \in Callers \ {r} : pc'[w] = pc[w]
  BY <1>a, GotoFacts DEF PutToWait, Stages
<1>d. q \in Callers \cup {NoRun}
  BY <1>a DEF RegistryTypeOK
<1>e. /\ objStatus' = IF q = NoRun THEN objStatus ELSE [objStatus EXCEPT ![q] = "waiting"]
      /\ result' = [result EXCEPT ![r] = IF q = NoRun THEN "error" ELSE "waiting"]
  BY DEF PutToWait
<1> HIDE DEF q
<1>f. /\ objStatus' \in [Callers -> {"running", "waiting"}]
      /\ \A x \in Callers : objStatus'[x] # "waiting" => objStatus[x] # "waiting"
      /\ q # NoRun => objStatus'[q] = "waiting"
  BY <1>a, <1>d, <1>e DEF RegistryTypeOK
<1>g. /\ result' \in [Callers -> Statuses]
      /\ \A w \in Callers \ {r} : result'[w] = result[w]
  BY <1>a, <1>e DEF RegistryTypeOK, Statuses
<1>1. RegistryTypeOK'
  BY <1>a, <1>b, <1>c, <1>f, <1>g DEF RegistryTypeOK
<1>2. ASSUME NEW w \in Callers, Cancelable(w)' PROVE Cancelable(w)
  <2>1. /\ active[ExecOf[w]] # NoRun /\ attached[active[ExecOf[w]]] = w
        /\ objStatus'[active[ExecOf[w]]] # "waiting"
    BY <1>2, <1>b DEF Cancelable
  <2>2. active[ExecOf[w]] \in Callers
    BY <1>a, <2>1, RegistryAssumption DEF RegistryTypeOK
  <2> QED BY <1>f, <2>1, <2>2 DEF Cancelable
<1>3. \A w \in Callers : InUse(w)' => InUse(w)
  BY <1>2, <1>b, <1>c DEF InUse, Executing
<1>4. WaitIsFinal'
  <2> SUFFICES ASSUME NEW w \in Callers, pc'[w] = "save", result'[w] = "waiting",
                      Cancelable(w)'
               PROVE  FALSE
    BY DEF WaitIsFinal
  <2>1. CASE w = r
    BY <1>b, <1>f, <2>1 DEF Cancelable, q
  <2>2. CASE w # r
    BY <1>2, <1>c, <1>g, <2>2 DEF RegistryInv, WaitIsFinal
  <2> QED BY <2>1, <2>2
<1>5. \A s \in Fresh : pc'[s] \in Early => pc[s] \in Early /\ CreatorRow(s)'
  BY <1>b, <1>c, RegistryAssumption DEF Early, CreatorRow, RegistryInv, CreatorIsFirst
<1> QED BY <1>1, <1>3, <1>4, <1>5, <1>b, QuietStep

\* A row goes back to waiting only when its run is done with it.
LEMMA SaveStep ==
    ASSUME RegistryInv, NEW r \in Callers, Save(r)
    PROVE  RegistryInv'
<1> DEFINE e == ExecOf[r]
<1>a. RegistryTypeOK /\ e \in Execs
  BY RegistryAssumption DEF RegistryInv
<1>b. UNCHANGED <<active, attached, objStatus, result>> /\ pc[r] = "save"
  BY DEF Save
<1>c. PICK g \in {"done", "finalize"} : Goto(r, g)
  BY DEF Save
<1>d. g \in Stages \ Early /\ pc[r] \in Executing /\ g # "save"
  BY <1>b DEF Stages, Early, Executing
<1>e. result[r] \in Statuses /\ "deleted" \in Statuses /\ status \in [Execs -> Statuses]
  BY <1>a DEF RegistryTypeOK, Statuses
<1>f. /\ status' \in [Execs -> Statuses]
      /\ \A d \in Execs \ {e} : status'[d] = status[d]
      /\ status'[e] = "waiting" => status[e] = "waiting" \/ result[r] = "waiting"
  <2>1. CASE status' = status
    BY <1>e, <2>1
  <2>2. CASE Write(e, result[r])
    BY <1>a, <1>e, <2>2, WriteFacts
  <2>3. CASE Write(e, "deleted")
    BY <1>a, <1>e, <2>3, WriteFacts
  <2> QED BY <2>1, <2>2, <2>3 DEF Save
<1>g. result' \in [Callers -> Statuses]
  BY <1>a, <1>b DEF RegistryTypeOK
<1>1. CASE status'[e] # "waiting" \/ status[e] = "waiting"
  <2>1. status[e] # status'[e] => status'[e] # "waiting"
    BY <1>1
  <2> QED BY <1>b, <1>c, <1>d, <1>f, <1>g, <2>1, RunMovesOn
<1>2. CASE result[r] = "waiting"
  <2>1. /\ pc' \in [Callers -> Stages] /\ pc'[r] = g
        /\ \A w \in Callers \ {r} : pc'[w] = pc[w]
    BY <1>a, <1>c, <1>d, GotoFacts
  <2>2. \A w \in Callers : Cancelable(w)' <=> Cancelable(w)
    BY <1>b, EntriesKept
  <2>3. ~Cancelable(r) /\ InUse(r)
    BY <1>2, <1>b, <1>d DEF RegistryInv, WaitIsFinal, InUse
  <2>4. \A w \in Callers : InUse(w)' => InUse(w) /\ w # r
    BY <1>c, <2>1, <2>2, <2>3 DEF InUse, Executing
  <2>5. OneInUse'
    BY <2>4 DEF RegistryInv, OneInUse
  <2>6. InUseNotWaiting'
    <3> SUFFICES ASSUME NEW w \in Callers, InUse(w)' PROVE status'[ExecOf[w]] # "waiting"
      BY DEF InUseNotWaiting
    <3>1. InUse(w) /\ ExecOf[w] # e /\ ExecOf[w] \in Execs
      BY <2>3, <2>4, RegistryAssumption DEF RegistryInv, OneInUse
    <3> QED BY <1>f, <3>1 DEF RegistryInv, InUseNotWaiting
  <2>7. WaitIsFinal'
    BY <1>b, <1>d, <2>1, <2>2 DEF RegistryInv, WaitIsFinal
  <2>8. CreatorIsFirst'
    <3> SUFFICES ASSUME NEW s \in Fresh, pc'[s] \in Early
                 PROVE  /\ CreatorRow(s)'
                        /\ \A w \in Callers : ExecOf[w] = ExecOf[s] => ~InUse(w)'
      BY DEF CreatorIsFirst, CreatorRow, Early
    <3>1. s \in Callers /\ ExecOf[s] \in Execs /\ pc'[s] = pc[s]
      BY <1>d, <2>1, RegistryAssumption
    <3>2. status'[ExecOf[s]] = status[ExecOf[s]]
      BY <1>f, <2>3, <3>1, InUseNotEarly
    <3> QED BY <2>4, <3>1, <3>2 DEF CreatorRow, RegistryInv, CreatorIsFirst, Early
  <2>9. RegistryTypeOK'
    BY <1>a, <1>b, <1>f, <1>g, <2>1, TypesKept
  <2> QED BY <2>5, <2>6, <2>7, <2>8, <2>9 DEF RegistryInv
<1> QED BY <1>1, <1>2, <1>f

\* Taking entries away and canceling what is in use, rows left as they are.
LEMMA StopIsCalm ==
    ASSUME RegistryInv, Shrinks, OnlyCancels, status' = status, objStatus' = objStatus
    PROVE  RegistryInv'
<1>a. RegistryTypeOK
  BY DEF RegistryInv
<1>1. RegistryTypeOK'
  BY <1>a, ShrinkTypes DEF OnlyCancels
<1>2. \A w \in Callers : Cancelable(w)' => Cancelable(w)
  BY <1>a, ShrinkFrees
<1>3. \A w \in Callers :
        /\ pc'[w] \in Executing => InUse(w)
        /\ pc'[w] = "finalize" => pc[w] \in Executing \cup {"finalize"}
        /\ pc'[w] = "save" /\ result'[w] = "waiting" =>
             pc[w] = "save" /\ result[w] = "waiting"
  BY DEF OnlyCancels, InUse, Executing
<1>4. ASSUME NEW s \in Fresh, pc'[s] \in Early PROVE pc[s] \in Early /\ CreatorRow(s)'
  <2>1. s \in Callers /\ pc'[s] = pc[s]
    BY <1>4, RegistryAssumption DEF OnlyCancels, Early
  <2> QED BY <1>4, <2>1 DEF CreatorRow, RegistryInv, CreatorIsFirst
<1> QED BY <1>1, <1>2, <1>3, <1>4, CalmStep

\* Finalizing settles the entry that is registered, whoever's it is.
LEMMA FinalizeStep ==
    ASSUME RegistryInv, NEW r \in Callers, Finalize(r)
    PROVE  RegistryInv'
<1>a. RegistryTypeOK /\ ExecOf[r] \in Execs
  BY RegistryAssumption DEF RegistryInv
<1>b. UNCHANGED <<status, objStatus, result>> /\ pc[r] = "finalize"
  BY DEF Finalize
<1>c. /\ pc' \in [Callers -> Stages] /\ pc'[r] = "done"
      /\ \A w \in Callers \ {r} : pc'[w] = pc[w]
  BY <1>a, GotoFacts DEF Finalize, Stages
<1>d. Shrinks
  <2>1. CASE active[ExecOf[r]] = NoRun
    BY <1>a, <2>1 DEF Finalize, Shrinks, RegistryTypeOK
  <2>2. CASE active[ExecOf[r]] # NoRun
    <3>1. active[ExecOf[r]] \in Callers /\ Settle(active[ExecOf[r]])
      BY <1>a, <2>2 DEF Finalize, RegistryTypeOK
    <3> QED BY <1>a, <3>1, SettleShrinks
  <2> QED BY <2>1, <2>2
<1>1. RegistryTypeOK'
  BY <1>a, <1>b, <1>c, <1>d, ShrinkTypes DEF RegistryTypeOK
<1>2. \A w \in Callers : Cancelable(w)' => Cancelable(w)
  BY <1>a, <1>b, <1>d, ShrinkFrees
<1>3. \A w \in Callers :
        /\ pc'[w] \in Executing => InUse(w)
        /\ pc'[w] = "finalize" => pc[w] \in Executing \cup {"finalize"}
        /\ pc'[w] = "save" /\ result'[w] = "waiting" =>
             pc[w] = "save" /\ result[w] = "waiting"
  BY <1>b, <1>c DEF InUse, Executing
<1>4. \A s \in Fresh : pc'[s] \in Early => pc[s] \in Early /\ CreatorRow(s)'
  BY <1>b, <1>c, RegistryAssumption DEF Early, CreatorRow, RegistryInv, CreatorIsFirst
<1> QED BY <1>1, <1>2, <1>3, <1>4, <1>b, CalmStep

\* Nothing of the registry or the rows changes.
LEMMA RegistryIdle ==
    ASSUME RegistryInv, UNCHANGED <<status, active, objStatus, attached, pc, result>>
    PROVE  RegistryInv'
BY DEF RegistryInv, RegistryTypeOK, OneInUse, InUseNotWaiting, WaitIsFinal,
       CreatorIsFirst, InUse, Cancelable

\* The timer of a run and the steps of a user's stop.
LEMMA StopSteps ==
    ASSUME RegistryInv,
           \/ \E r \in Callers : Timeout(r)
           \/ \E e \in Execs : StopRead(e) \/ StopInRegularMode(e) \/ StopWrite(e)
    PROVE  RegistryInv'
<1>a. RegistryTypeOK
  BY DEF RegistryInv
<1>1. ASSUME NEW r \in Callers, Timeout(r) PROVE RegistryInv'
  <2>1. StopExecution(ExecOf[r]) /\ ExecOf[r] \in Execs /\ UNCHANGED <<status, objStatus>>
    BY <1>1, RegistryAssumption DEF Timeout
  <2> QED BY <1>a, <2>1, StopShrinks, StopIsCalm
<1>2. ASSUME NEW e \in Execs, StopRead(e) PROVE RegistryInv'
  BY <1>2, RegistryIdle DEF StopRead
<1>3. ASSUME NEW e \in Execs, StopInRegularMode(e) PROVE RegistryInv'
  <2>1. UNCHANGED <<status, objStatus>>
    BY <1>3 DEF StopInRegularMode
  <2>2. CASE UNCHANGED <<active, attached, pc, result>>
    BY <2>1, <2>2, RegistryIdle
  <2>3. CASE StopExecution(e)
    BY <1>a, <2>1, <2>3, StopShrinks, StopIsCalm
  <2> QED BY <1>3, <2>2, <2>3 DEF StopInRegularMode
<1>4. ASSUME NEW e \in Execs, StopWrite(e) PROVE RegistryInv'
  <2>1. UNCHANGED <<active, attached, objStatus, pc, result>> /\ Write(e, "canceled")
    BY <1>4 DEF StopWrite
  <2>2. /\ status' \in [Execs -> Statuses]
        /\ \A d \in Execs \ {e} : status'[d] = status[d]
        /\ status'[e] = IF status[e] \in {"none", "deleted"} THEN status[e] ELSE "canceled"
    BY <1>a, <2>1, WriteFacts DEF Statuses
  <2>3. RegistryTypeOK'
    BY <1>a, <2>1, <2>2, TypesKept DEF RegistryTypeOK
  <2>4. \A w \in Callers : (Cancelable(w)' => Cancelable(w)) /\ (InUse(w)' => InUse(w))
    BY <2>1 DEF Cancelable, InUse
  <2>5. WaitIsFinal'
    BY <2>1, <2>4 DEF RegistryInv, WaitIsFinal
  <2>6. \A d \in Execs : status'[d] = "waiting" => status[d] = "waiting"
    BY <2>2
  <2>7. ASSUME NEW s \in Fresh, pc'[s] \in Early PROVE pc[s] \in Early /\ CreatorRow(s)'
    <3>1. ExecOf[s] \in Execs /\ pc'[s] = pc[s]
      BY <2>1, RegistryAssumption
    <3>2. CreatorRow(s)
      BY DEF CreatorRow, RegistryInv, CreatorIsFirst
    <3>3. CASE ExecOf[s] = e
      BY <2>2, <2>7, <3>1, <3>2, <3>3 DEF CreatorRow, Early
    <3>4. CASE ExecOf[s] # e
      BY <2>2, <2>7, <3>1, <3>2, <3>4 DEF CreatorRow
    <3> QED BY <3>3, <3>4
  <2> QED BY <2>3, <2>4, <2>5, <2>6, <2>7, QuietStep
<1> QED BY <1>1, <1>2, <1>3, <1>4

\* A shutdown drops entries; a restart drops all of them and the runs too.
LEMMA ProcessSteps ==
    ASSUME RegistryInv, Shutdown \/ ShutdownDone \/ Restart
    PROVE  RegistryInv'
<1>a. RegistryTypeOK
  BY DEF RegistryInv
<1>1. CASE Shutdown
  <2>1. Shrinks
    BY <1>1, <1>a DEF Shutdown, Shrinks, RegistryTypeOK
  <2>2. OnlyCancels
    BY <1>1, <1>a DEF Shutdown, OnlyCancels, RegistryTypeOK
  <2> QED BY <1>1, <2>1, <2>2, StopIsCalm DEF Shutdown
<1>2. CASE ShutdownDone
  BY <1>2, RegistryIdle DEF ShutdownDone
<1>3. CASE Restart
  <2>1. /\ UNCHANGED <<objStatus, attached, result>>
        /\ active' = [e \in Execs |-> NoRun]
        /\ status' = [e \in Execs |-> Recovered(status[e])]
        /\ pc' = [r \in Callers |-> IF pc[r] \in {"off", "done", "failed", "aborted"}
                                    THEN pc[r] ELSE "lost"]
    BY <1>3 DEF Restart
  <2>2. \A e \in Execs : status'[e] \in Statuses /\ (status'[e] = "waiting" => status[e] = "waiting")
                         /\ (status[e] = "none" => status'[e] = "none")
    BY <1>a, <2>1 DEF RegistryTypeOK, Recovered, Statuses
  <2>3. RegistryTypeOK'
    <3>1. status' \in [Execs -> Statuses]
      BY <2>1, <2>2
    <3>2. pc' \in [Callers -> Stages]
      BY <1>a, <2>1 DEF RegistryTypeOK, Stages
    <3> QED BY <1>a, <2>1, <3>1, <3>2 DEF RegistryTypeOK
  <2>4. \A w \in Callers : ~Cancelable(w)'
    BY <2>1, RegistryAssumption DEF Cancelable
  <2>5. \A w \in Callers : pc'[w] \notin Executing \cup {"finalize"}
    BY <2>1 DEF Executing
  <2>6. WaitIsFinal'
    BY <2>4 DEF WaitIsFinal
  <2>7. \A w \in Callers : InUse(w)' => InUse(w)
    BY <2>5 DEF InUse
  <2>8. ASSUME NEW s \in Fresh, pc'[s] \in Early PROVE pc[s] \in Early /\ CreatorRow(s)'
    <3>1. s \in Callers /\ ExecOf[s] \in Execs
      BY RegistryAssumption
    <3>2. pc[s] = "off" /\ pc'[s] = "off"
      BY <2>1, <2>8, <3>1 DEF Early
    <3> QED BY <2>2, <3>1, <3>2 DEF CreatorRow, Early, RegistryInv, CreatorIsFirst
  <2> QED BY <2>2, <2>3, <2>6, <2>7, <2>8, QuietStep
<1> QED BY <1>1, <1>2, <1>3

\* Nobody runs anything when n8n is first started.
LEMMA RegistryInvInit == RegistryInit => RegistryInv
<1> SUFFICES ASSUME RegistryInit PROVE RegistryInv
  OBVIOUS
<1>1. RegistryTypeOK
  BY RegistryAssumption DEF RegistryInit, RegistryTypeOK, Statuses, Stages
<1>2. \A w \in Callers : pc[w] = "off" /\ ~InUse(w)
  BY DEF RegistryInit, InUse, Executing
<1>3. \A r \in Fresh : status[ExecOf[r]] = "none"
  BY RegistryAssumption DEF RegistryInit
<1> QED BY <1>1, <1>2, <1>3, RegistryAssumption
        DEF RegistryInv, OneInUse, InUseNotWaiting, WaitIsFinal, CreatorIsFirst

\* Every step keeps the invariant.
LEMMA RegistryInvNext == RegistryInv /\ [Next]_vars => RegistryInv'
<1> SUFFICES ASSUME RegistryInv, [Next]_vars PROVE RegistryInv'
  OBVIOUS
<1>1. ASSUME NEW r \in Callers, Create(r) \/ RunStep(r) \/ Timeout(r) PROVE RegistryInv'
  <2>1. CASE Create(r) \/ Reserve(r) \/ UpdateRefused(r)
    BY <2>1, EarlySteps
  <2>2. CASE UpdateRow(r)
    BY <2>2, UpdateRowStep
  <2>3. CASE Register(r)
    BY <2>3, RegisterStep
  <2>4. CASE FailExecution(r) \/ Preflight(r) \/ StartMain(r) \/ Finish(r)
    BY <2>4, MainSteps
  <2>5. CASE Launch(r)
    BY <2>5, LaunchStep
  <2>6. CASE PutToWait(r)
    BY <2>6, PutToWaitStep
  <2>7. CASE Save(r)
    BY <2>7, SaveStep
  <2>8. CASE Finalize(r)
    BY <2>8, FinalizeStep
  <2>9. CASE Timeout(r)
    BY <2>9, StopSteps
  <2> QED BY <1>1, <2>1, <2>2, <2>3, <2>4, <2>5, <2>6, <2>7, <2>8, <2>9 DEF RunStep
<1>2. ASSUME NEW e \in Execs, StopRead(e) \/ StopInRegularMode(e) \/ StopWrite(e)
      PROVE  RegistryInv'
  BY <1>2, StopSteps
<1>3. CASE Shutdown \/ ShutdownDone \/ Restart
  BY <1>3, ProcessSteps
<1>4. CASE UNCHANGED vars
  BY <1>4, RegistryIdle DEF vars
<1> QED BY <1>1, <1>2, <1>3, <1>4 DEF Next

\* RegistryInv holds throughout: its types, and one run in use per execution.
THEOREM RegistryInvariant == Spec => []RegistryInv
BY RegistryInvInit, RegistryInvNext, PTL DEF Spec

\* However many runs resume an execution, and whatever stops, timeouts,
\* shutdowns and crashes come between, add() lets one of them run it at a time.
THEOREM OneRunPerExecution == Spec => []ExclusiveExecution
<1>1. RegistryInv => ExclusiveExecution
  BY DEF RegistryInv, OneInUse, ExclusiveExecution, InUse
<1> QED BY <1>1, RegistryInvariant, PTL

\* A step that changes what a canceled row says is one of a run that has not
\* been launched, or deletes the row.
LEMMA CanceledStays ==
    ASSUME RegistryInv, Next, NEW e \in Execs, status[e] = "canceled",
           \A r \in Callers : ExecOf[r] = e =>
             pc[r] \notin {"created", "update", "register", "registered", "start"}
    PROVE  status'[e] \in {"canceled", "deleted"}
<1>a. RegistryTypeOK /\ status \in [Execs -> Statuses]
  BY DEF RegistryInv, RegistryTypeOK
<1>1. ASSUME NEW r \in Callers, Create(r) \/ UpdateRow(r) \/ StartMain(r)
      PROVE  status'[e] = "canceled"
  <2>1. ExecOf[r] \in Execs
    BY RegistryAssumption
  <2>2. ExecOf[r] # e
    BY <1>1 DEF Create, UpdateRow, Reserved, StartMain, RegistryInv, CreatorIsFirst
  <2>3. status' = [status EXCEPT ![ExecOf[r]] = "new"] \/ Write(ExecOf[r], "running")
    BY <1>1 DEF Create, UpdateRow, StartMain
  <2> QED BY <1>a, <2>1, <2>2, <2>3 DEF Write
<1>2. ASSUME NEW r \in Callers, Save(r) PROVE status'[e] \in {"canceled", "deleted"}
  <2>1. ExecOf[r] \in Execs
    BY RegistryAssumption
  <2>2. CASE ExecOf[r] = e
    <3>1. status' = status \/ Write(e, "deleted")
      BY <1>2, <2>2 DEF Save, Saveable
    <3> QED BY <1>a, <3>1 DEF Write
  <2>3. CASE ExecOf[r] # e
    <3>1. status' = status \/ Write(ExecOf[r], result[r]) \/ Write(ExecOf[r], "deleted")
      BY <1>2 DEF Save
    <3> QED BY <1>a, <2>1, <2>3, <3>1 DEF Write
  <2> QED BY <2>2, <2>3
<1>3. ASSUME NEW d \in Execs, StopWrite(d) PROVE status'[e] = "canceled"
  BY <1>3, <1>a DEF StopWrite, Write
<1>4. CASE Restart
  BY <1>4 DEF Restart, Recovered
<1>5. CASE status' = status
  BY <1>5
<1> QED BY <1>1, <1>2, <1>3, <1>4, <1>5
        DEF Next, RunStep, Reserve, UpdateRefused, Register, FailExecution, Preflight,
            Launch, Finish, PutToWait, Finalize, Timeout, StopRead, StopInRegularMode,
            Shutdown, ShutdownDone

\* "A completed run must never overwrite a status the user already canceled":
\* the conditional update that saves a result keeps it, for the runs that are
\* past the two setRunning() calls.
THEOREM CanceledIsFinal == Spec => CanceledIsFinalOnceLaunched
<1>1. ASSUME RegistryInv, [Next]_vars
      PROVE  [\A e \in Execs :
                (/\ status[e] = "canceled"
                 /\ \A r \in Callers : ExecOf[r] = e =>
                      pc[r] \notin {"created", "update", "register", "registered", "start"})
                => status'[e] \in {"canceled", "deleted"}]_vars
  <2>1. CASE Next
    BY <1>1, <2>1, CanceledStays
  <2>2. CASE UNCHANGED vars
    BY <2>2
  <2> QED BY <1>1, <2>1, <2>2
<1> QED BY <1>1, RegistryInvariant, PTL DEF Spec, CanceledIsFinalOnceLaunched

-----------------------------------------------------------------------------
(* The gate under the registry *)

\* A settled promise gives its slot back once.
LEMMA SettleIsGateStep ==
    ASSUME NEW q \in Callers, Settle(q)
    PROVE  [GateNext]_gateVars
BY DEF Settle, GateNext

\* A stop settles the promise of the entry it finds, or touches no slot.
LEMMA StopIsGateStep ==
    ASSUME RegistryInv, NEW e \in Execs, StopExecution(e)
    PROVE  [GateNext]_gateVars
<1>1. CASE active[e] = NoRun \/ objStatus[active[e]] = "waiting"
  BY <1>1 DEF StopExecution
<1>2. CASE active[e] # NoRun /\ objStatus[active[e]] # "waiting"
  <2>1. active[e] \in Callers /\ Settle(active[e])
    BY <1>2 DEF StopExecution, RegistryInv, RegistryTypeOK
  <2> QED BY <2>1, SettleIsGateStep
<1> QED BY <1>1, <1>2

\* Every step of the registry is a step of the gate, or builds a new one.
LEMMA RegistryStepsGate ==
    ASSUME RegistryInv, [Next]_vars
    PROVE  [GateNext]_gateVars \/ GateReset
<1>1. ASSUME NEW r \in Callers, Create(r) \/ RunStep(r) \/ Timeout(r)
      PROVE  [GateNext]_gateVars
  <2>1. CASE Reserve(r) \/ UpdateRefused(r)
    BY <2>1 DEF Reserve, UpdateRefused, GateNext
  <2>2. CASE Finalize(r)
    <3>1. CASE active[ExecOf[r]] = NoRun
      BY <2>2, <3>1 DEF Finalize
    <3>2. CASE active[ExecOf[r]] # NoRun
      <4>1. active[ExecOf[r]] \in Callers
        BY <3>2, RegistryAssumption DEF RegistryInv, RegistryTypeOK
      <4>2. Settle(active[ExecOf[r]])
        BY <2>2, <3>2 DEF Finalize
      <4> QED BY <4>1, <4>2, SettleIsGateStep
    <3> QED BY <3>1, <3>2
  <2>3. CASE Timeout(r)
    <3>1. ExecOf[r] \in Execs /\ StopExecution(ExecOf[r])
      BY <2>3, RegistryAssumption DEF Timeout
    <3> QED BY <3>1, StopIsGateStep
  <2>4. CASE UNCHANGED gateVars
    BY <2>4
  <2> QED BY <1>1, <2>1, <2>2, <2>3, <2>4
          DEF RunStep, Create, UpdateRow, Register, FailExecution, Preflight, StartMain,
              Launch, Finish, PutToWait, Save
<1>2. ASSUME NEW e \in Execs, StopRead(e) \/ StopInRegularMode(e) \/ StopWrite(e)
      PROVE  [GateNext]_gateVars
  <2>1. CASE StopRead(e) \/ StopWrite(e)
    BY <2>1 DEF StopRead, StopWrite
  <2>2. CASE StopInRegularMode(e)
    <3>1. CASE StopExecution(e)
      BY <3>1, StopIsGateStep
    <3>2. CASE \E r \in QueuedRuns(e) : Evict(r)
      BY <3>2 DEF QueuedRuns, GateNext
    <3> QED BY <2>2, <3>1, <3>2 DEF StopInRegularMode
  <2> QED BY <1>2, <2>1, <2>2
<1>3. CASE Shutdown \/ ShutdownDone
  BY <1>3 DEF Shutdown, ShutdownDone, GateNext
<1>4. CASE Restart
  BY <1>4 DEF Restart
<1>5. CASE UNCHANGED vars
  BY <1>5 DEF vars
<1> QED BY <1>1, <1>2, <1>3, <1>4, <1>5 DEF Next

\* A new gate is in its initial state.
LEMMA ResetIsInit == GateReset => GateInit'
<1> SUFFICES ASSUME GateReset PROVE GateInit'
  OBVIOUS
<1>1. [t \in QueueTypes |-> BaseCapacity(t)] =
        [production |-> ProductionLimit,
         evaluation |-> IF EvaluationLimit > 0 THEN EvaluationLimit ELSE LicensedLimit]
  BY DEF QueueTypes, BaseCapacity
<1> QED BY <1>1 DEF GateReset, GateInit

\* The gate's invariant survives the registry: what runs, stops, timeouts and
\* shutdowns make of it, and a restart with a new gate.
THEOREM GateUnderRegistry == Spec => []GateInv
<1>1. RegistryInit => GateInv
  BY GateInvInit DEF RegistryInit
<1>2. GateInit' => GateInv'
  BY GateInvInit, PTL
<1>3. RegistryInv /\ GateInv /\ [Next]_vars => GateInv'
  BY <1>2, RegistryStepsGate, ResetIsInit, GateInvNext
<1> QED BY <1>1, <1>3, RegistryInvariant, PTL DEF Spec

\* Stops, timeouts, failed runs and restarts lose no slot and make none up:
\* whatever the registry does, the gate's accounts add up.
THEOREM RegistryConservesSlots == Spec => []CapacityConserved
<1>1. GateInv => CapacityConserved
  BY DEF GateInv, SlotsAccounted, CapacityConserved, LimitsFinal
<1> QED BY <1>1, GateUnderRegistry, PTL

\* Under the registry too nobody queues while a slot is unused.
THEOREM RegistryKeepsQueueMoving == Spec => []NoIdleCapacity
BY QueueNeedsHolders, GateUnderRegistry, PTL

-----------------------------------------------------------------------------
(* Running rows, where no run resumes another's row *)

\* Rows that say 'running' stay owned when every run that stops executing has
\* saved something else, or leaves a stop about to write.
LEMMA OwnedKept ==
    ASSUME RunningRowIsOwned, phase = "down" => phase' = "down",
           \A e \in Execs :
             /\ status'[e] = "running" => status[e] = "running"
             /\ stop[e] = "write" => stop'[e] = "write",
           \A r \in Callers : pc[r] \in Executing =>
             \/ pc'[r] \in Executing
             \/ status'[ExecOf[r]] # "running"
             \/ stop'[ExecOf[r]] = "write"
    PROVE  RunningRowIsOwned'
BY DEF RunningRowIsOwned

\* A stop changes the entry of its own execution only.
LEMMA StopIsLocal ==
    ASSUME RegistryTypeOK, NEW d \in Execs, StopExecution(d)
    PROVE  \A e \in Execs \ {d} : active'[e] = active[e]
<1>1. CASE active[d] = NoRun \/ objStatus[active[d]] = "waiting"
  BY <1>1 DEF StopExecution, RegistryTypeOK
<1>2. CASE active[d] # NoRun /\ objStatus[active[d]] # "waiting"
  <2>1. active[d] \in Callers /\ ExecOf[active[d]] = d /\ Settle(active[d])
    BY <1>2 DEF StopExecution, RegistryTypeOK
  <2> QED BY <2>1 DEF Settle, RegistryTypeOK
<1> QED BY <1>1, <1>2

\* Registered runs keep their entries in a step that leaves each its entry, or
\* writes 'write' to stop for it.
LEMMA EntriesStay ==
    ASSUME EntryUntilStopped,
           \A r \in Callers : pc'[r] = "registered" =>
             /\ pc[r] = "registered" /\ objStatus'[r] = objStatus[r]
             /\ \/ active'[ExecOf[r]] = active[ExecOf[r]]
                \/ stop'[ExecOf[r]] = "write",
           \A e \in Execs :
             /\ status'[e] = "running" => status[e] = "running"
             /\ stop[e] = "write" => stop'[e] = "write"
    PROVE  EntryUntilStopped'
<1> SUFFICES ASSUME NEW r \in Callers, pc'[r] = "registered"
             PROVE  /\ objStatus'[r] = "running"
                    /\ \/ active'[ExecOf[r]] = r
                       \/ stop'[ExecOf[r]] = "write"
                       \/ status'[ExecOf[r]] # "running"
  BY DEF EntryUntilStopped
<1>1. ExecOf[r] \in Execs
  BY RegistryAssumption
<1> QED BY <1>1 DEF EntryUntilStopped

\* The steps of a run.
LEMMA OwnedRunStep ==
    ASSUME Fresh = Callers, RegistryInv, RegistryTypeOK', Owned,
           NEW r \in Callers, Create(r) \/ RunStep(r)
    PROVE  Owned'
<1> DEFINE e == ExecOf[r]
<1>a. /\ RegistryTypeOK /\ e \in Execs /\ r # NoRun
      /\ \A s \in Callers : ExecOf[s] \in Execs /\ (ExecOf[s] = e => s = r)
  BY RegistryAssumption DEF RegistryInv
<1>b. /\ stop' = stop /\ phase' = phase
      /\ \A s \in Callers \ {r} : pc'[s] = pc[s]
  BY <1>a DEF Create, RunStep, Reserve, UpdateRow, UpdateRefused, Register, FailExecution,
         Preflight, StartMain, Launch, Finish, PutToWait, Save, Finalize, procVars, Goto,
         RegistryTypeOK
<1>c. EntryUntilStopped /\ SavesAnEnd /\ RunningRowIsOwned
  BY DEF Owned
<1>d. \A d \in Execs \ {e} : status'[d] = status[d]
  BY <1>a DEF Create, RunStep, Reserve, UpdateRow, UpdateRefused, Register, FailExecution,
         Preflight, StartMain, Launch, Finish, PutToWait, Save, Finalize, Write,
         RegistryTypeOK
<1>e. \A s \in Callers \ {r} :
        pc[s] = "registered" => objStatus'[s] = objStatus[s] /\ active'[ExecOf[s]] = active[ExecOf[s]]
  <2> SUFFICES ASSUME NEW s \in Callers \ {r}, pc[s] = "registered"
               PROVE  objStatus'[s] = objStatus[s] /\ active'[ExecOf[s]] = active[ExecOf[s]]
    OBVIOUS
  <2>1. ExecOf[s] \in Execs /\ ExecOf[s] # e
    BY <1>a
  <2>2. CASE Register(r)
    BY <1>a, <2>1, <2>2 DEF Register, RegistryTypeOK
  <2>3. CASE PutToWait(r)
    <3>1. active[e] # s
      BY <1>a, <2>1, RegistryAssumption DEF RegistryTypeOK
    <3> QED BY <1>a, <2>3, <3>1 DEF PutToWait, RegistryTypeOK
  <2>4. CASE Finalize(r)
    <3>1. CASE active[e] = NoRun
      BY <2>4, <3>1 DEF Finalize
    <3>2. CASE active[e] # NoRun
      <4>1. active[e] \in Callers /\ ExecOf[active[e]] = e /\ Settle(active[e])
        BY <1>a, <2>4, <3>2 DEF Finalize, RegistryTypeOK
      <4> QED BY <1>a, <2>1, <2>4, <4>1 DEF Settle, Finalize, RegistryTypeOK
    <3> QED BY <3>1, <3>2
  <2>5. CASE UNCHANGED <<active, objStatus>>
    BY <2>5
  <2> QED BY <2>2, <2>3, <2>4, <2>5
          DEF Create, RunStep, Reserve, UpdateRow, UpdateRefused, FailExecution,
              Preflight, StartMain, Launch, Finish, Save
<1>1. SavesAnEnd'
  <2>1. CASE FailExecution(r) \/ Finish(r) \/ PutToWait(r)
    <3>1. \A s \in Callers : result'[s] # "running" \/ (s # r /\ result'[s] = result[s])
      BY <1>a, <2>1 DEF FailExecution, FailedRunStatus, Finish, PutToWait, RegistryTypeOK
    <3> QED BY <1>b, <1>c, <3>1 DEF SavesAnEnd
  <2>2. CASE result' = result /\ pc'[r] # "save"
    BY <1>b, <1>c, <2>2 DEF SavesAnEnd
  <2> QED BY <1>a, <2>1, <2>2
          DEF Create, RunStep, Reserve, UpdateRow, UpdateRefused, Register, Preflight,
              StartMain, Launch, Save, Finalize, Goto, RegistryTypeOK
<1>2. CASE pc'[r] \in Executing /\ Register(r)
  <2>1. /\ pc'[r] = "registered" /\ active'[e] = r /\ objStatus'[r] = "running"
        /\ status' = status
    BY <1>a, <1>2 DEF Register, Goto, RegistryTypeOK
  <2>2. EntryUntilStopped'
    BY <1>a, <1>b, <1>c, <1>e, <2>1 DEF EntryUntilStopped
  <2>3. RunningRowIsOwned'
    BY <1>b, <1>c, <1>2, <2>1, OwnedKept
  <2> QED BY <1>b, <1>1, <2>2, <2>3 DEF Owned
<1>3. CASE pc'[r] \in Executing \ {"registered"}
  <2>1. EntryUntilStopped'
    <3> SUFFICES ASSUME NEW s \in Callers, pc'[s] = "registered"
                 PROVE  /\ objStatus'[s] = "running"
                        /\ \/ active'[ExecOf[s]] = s
                           \/ stop'[ExecOf[s]] = "write"
                           \/ status'[ExecOf[s]] # "running"
      BY DEF EntryUntilStopped
    <3>1. s # r /\ pc[s] = "registered" /\ ExecOf[s] # e /\ ExecOf[s] \in Execs
      BY <1>3, <1>a, <1>b
    <3> QED BY <1>b, <1>c, <1>d, <1>e, <3>1 DEF EntryUntilStopped
  <2>2. RunningRowIsOwned'
    <3> SUFFICES ASSUME NEW d \in Execs, status'[d] = "running"
                 PROVE  \/ \E s \in Callers : ExecOf[s] = d /\ pc'[s] \in Executing
                        \/ stop'[d] = "write"
                        \/ phase' = "down"
      BY DEF RunningRowIsOwned
    <3>1. CASE d = e
      BY <1>3, <3>1
    <3>2. CASE d # e
      BY <1>b, <1>c, <1>d, <3>2 DEF RunningRowIsOwned
    <3> QED BY <3>1, <3>2
  <2> QED BY <1>b, <1>1, <2>1, <2>2 DEF Owned
<1>4. CASE pc'[r] \notin Executing
  <2>1. pc[r] \in Executing => status'[e] # "running" \/ stop'[e] = "write"
    <3>1. CASE Save(r)
      <4>1. pc[r] = "save" /\ result[r] # "running"
        BY <1>c, <3>1 DEF Save, SavesAnEnd
      <4>2. \/ status' = status /\ status[e] = "canceled"
            \/ Write(e, result[r])
            \/ Write(e, "deleted")
        BY <3>1 DEF Save, Saveable
      <4> QED BY <1>a, <4>1, <4>2 DEF Write, RegistryTypeOK
    <3>2. CASE Preflight(r)
      <4>1. pc[r] = "registered" /\ active[e] = NoRun /\ status' = status
        BY <1>4, <1>a, <3>2 DEF Preflight, Goto, RegistryTypeOK, Executing
      <4> QED BY <1>a, <1>b, <1>c, <4>1 DEF EntryUntilStopped
    <3>3. CASE pc[r] \notin Executing
      BY <3>3
    <3> QED BY <1>4, <1>a, <3>1, <3>2, <3>3
            DEF Create, RunStep, Reserve, UpdateRow, Reserved, UpdateRefused, Register,
                FailExecution, StartMain, Launch, Finish, PutToWait, Finalize, Goto,
                RegistryTypeOK, Executing
  <2>2. status'[e] = "running" => status[e] = "running"
    <3>1. CASE pc[r] \in Executing
      <4>1. CASE Save(r)
        <5>1. pc[r] = "save" /\ result[r] # "running"
          BY <1>c, <4>1 DEF Save, SavesAnEnd
        <5>2. status' = status \/ Write(e, result[r]) \/ Write(e, "deleted")
          BY <4>1 DEF Save
        <5> QED BY <1>a, <5>1, <5>2 DEF Write, RegistryTypeOK
      <4>2. CASE status' = status
        BY <4>2
      <4> QED BY <1>4, <1>a, <3>1, <4>1, <4>2
              DEF Create, RunStep, Reserve, UpdateRow, UpdateRefused, Register,
                  FailExecution, Preflight, StartMain, Launch, Finish, PutToWait, Finalize,
                  Goto, RegistryTypeOK, Executing
    <3>2. CASE pc[r] \notin Executing
      BY <1>4, <1>a, <3>2
         DEF Create, RunStep, Reserve, UpdateRow, UpdateRefused, Register, FailExecution,
             Preflight, StartMain, Launch, Finish, PutToWait, Save, Finalize, Goto,
             RegistryTypeOK, Executing
    <3> QED BY <3>1, <3>2
  <2>3. \A d \in Execs : status'[d] = "running" => status[d] = "running"
    BY <1>d, <2>2
  <2>4. RunningRowIsOwned'
    BY <1>a, <1>b, <1>c, <2>1, <2>3, OwnedKept
  <2>5. EntryUntilStopped'
    BY <1>4, <1>b, <1>c, <1>e, <2>3, EntriesStay DEF Executing
  <2> QED BY <1>b, <1>1, <2>4, <2>5 DEF Owned
<1>5. pc'[r] = "registered" => Register(r)
  BY <1>a DEF Create, RunStep, Reserve, UpdateRow, UpdateRefused, Register, FailExecution,
         Preflight, StartMain, Launch, Finish, PutToWait, Save, Finalize, Goto,
         RegistryTypeOK
<1> QED BY <1>2, <1>3, <1>4, <1>5 DEF Executing

\* The steps of stops, timers and the process.
LEMMA OwnedOtherStep ==
    ASSUME Fresh = Callers, RegistryInv, Owned,
           \/ \E r \in Callers : Timeout(r)
           \/ \E d \in Execs : StopRead(d) \/ StopInRegularMode(d) \/ StopWrite(d)
           \/ Shutdown \/ ShutdownDone \/ Restart
    PROVE  Owned'
<1>a. RegistryTypeOK /\ \A s \in Callers : ExecOf[s] \in Execs
  BY RegistryAssumption DEF RegistryInv
<1>b. EntryUntilStopped /\ SavesAnEnd /\ RunningRowIsOwned
      /\ stop \in [Execs -> {"none", "read", "write", "done"}]
  BY DEF Owned
<1>c. ASSUME OnlyCancels PROVE SavesAnEnd' /\ \A s \in Callers : pc[s] \in Executing => pc'[s] \in Executing
  <2>1. SavesAnEnd'
    BY <1>b, <1>c DEF OnlyCancels, SavesAnEnd
  <2>2. \A s \in Callers : pc[s] \in Executing => pc'[s] \in Executing
    BY <1>c DEF OnlyCancels, Executing
  <2> QED BY <2>1, <2>2
<1>1. ASSUME NEW r \in Callers, Timeout(r) PROVE Owned'
  <2>1. /\ StopExecution(ExecOf[r]) /\ pc[r] \in {"run", "save", "finalize"}
        /\ UNCHANGED <<status, objStatus, stop, phase>>
    BY <1>1 DEF Timeout, procVars
  <2>2. OnlyCancels /\ \A e \in Execs \ {ExecOf[r]} : active'[e] = active[e]
    BY <1>a, <2>1, StopShrinks, StopIsLocal
  <2>3. \A s \in Callers : pc'[s] = "registered" =>
          pc[s] = "registered" /\ active'[ExecOf[s]] = active[ExecOf[s]]
    BY <1>a, <2>1, <2>2, RegistryAssumption DEF OnlyCancels
  <2>4. EntryUntilStopped'
    BY <1>b, <2>1, <2>3, EntriesStay
  <2>5. RunningRowIsOwned'
    BY <1>b, <1>c, <2>1, <2>2, OwnedKept
  <2> QED BY <1>b, <1>c, <2>1, <2>2, <2>4, <2>5 DEF Owned
<1>2. ASSUME NEW d \in Execs, StopRead(d) \/ StopInRegularMode(d) PROVE Owned'
  <2>1. UNCHANGED <<status, objStatus, phase>>
    BY <1>2 DEF StopRead, StopInRegularMode, procVars
  <2>2. /\ stop' \in [Execs -> {"none", "read", "write", "done"}]
        /\ \A e \in Execs : stop[e] = "write" => stop'[e] = "write"
    BY <1>2, <1>b DEF StopRead, StopInRegularMode
  <2>3. OnlyCancels /\ \A e \in Execs : active'[e] = active[e] \/ stop'[e] = "write"
    <3>1. CASE UNCHANGED <<active, pc, result>>
      BY <1>a, <3>1 DEF OnlyCancels, RegistryTypeOK
    <3>2. CASE StopExecution(d) /\ stop' = [stop EXCEPT ![d] = "write"]
      BY <1>a, <1>b, <3>2, StopShrinks, StopIsLocal
    <3> QED BY <1>2, <3>1, <3>2 DEF StopRead, StopInRegularMode
  <2>4. \A s \in Callers : pc'[s] = "registered" => pc[s] = "registered"
    BY <2>3 DEF OnlyCancels
  <2>5. EntryUntilStopped'
    BY <1>a, <1>b, <2>1, <2>2, <2>3, <2>4, EntriesStay
  <2>6. RunningRowIsOwned'
    BY <1>b, <1>c, <2>1, <2>2, <2>3, OwnedKept
  <2> QED BY <1>c, <2>2, <2>3, <2>5, <2>6 DEF Owned
<1>3. ASSUME NEW d \in Execs, StopWrite(d) PROVE Owned'
  <2>1. UNCHANGED <<active, objStatus, pc, result, phase>>
    BY <1>3 DEF StopWrite, procVars
  <2>2. /\ stop' \in [Execs -> {"none", "read", "write", "done"}]
        /\ \A e \in Execs \ {d} : stop'[e] = stop[e] /\ status'[e] = status[e]
        /\ status'[d] # "running"
    BY <1>3, <1>a, <1>b DEF StopWrite, Write, RegistryTypeOK
  <2>3. EntryUntilStopped'
    BY <1>a, <1>b, <2>1, <2>2 DEF EntryUntilStopped
  <2>4. RunningRowIsOwned'
    BY <1>b, <2>1, <2>2 DEF RunningRowIsOwned
  <2>5. SavesAnEnd'
    BY <1>b, <2>1 DEF SavesAnEnd
  <2> QED BY <2>2, <2>3, <2>4, <2>5 DEF Owned
<1>4. CASE Shutdown
  <2>1. UNCHANGED <<status, objStatus, pc, result, stop>> /\ phase # "down"
    BY <1>4 DEF Shutdown
  <2>2. ASSUME NEW s \in Callers, pc[s] = "registered" PROVE active'[ExecOf[s]] = active[ExecOf[s]] \/ active[ExecOf[s]] # s
    BY <1>4, <1>a, <1>b, <2>2 DEF Shutdown, EntryUntilStopped
  <2>3. EntryUntilStopped'
    BY <1>b, <2>1, <2>2 DEF EntryUntilStopped
  <2>4. RunningRowIsOwned'
    BY <1>b, <2>1 DEF RunningRowIsOwned
  <2>5. SavesAnEnd'
    BY <1>b, <2>1 DEF SavesAnEnd
  <2> QED BY <1>b, <2>1, <2>3, <2>4, <2>5 DEF Owned
<1>5. CASE ShutdownDone
  <2>1. UNCHANGED <<status, active, objStatus, pc, result, stop>> /\ phase' = "down"
    BY <1>5 DEF ShutdownDone
  <2> QED BY <1>b, <2>1 DEF Owned, EntryUntilStopped, SavesAnEnd, RunningRowIsOwned
<1>6. CASE Restart
  <2>1. \A e \in Execs : status'[e] # "running"
    BY <1>6 DEF Restart, Recovered
  <2>2. \A s \in Callers : pc'[s] \notin {"registered", "save"}
    BY <1>6 DEF Restart
  <2>3. stop' \in [Execs -> {"none", "read", "write", "done"}]
    BY <1>6 DEF Restart
  <2> QED BY <2>1, <2>2, <2>3 DEF Owned, EntryUntilStopped, SavesAnEnd, RunningRowIsOwned
<1> QED BY <1>1, <1>2, <1>3, <1>4, <1>5, <1>6

\* Where every run creates its own execution, no stop, refused start, failed
\* check, shutdown, crash or recovery leaves a row 'running' that nobody runs.
\* (With resumes it is false: see README.)
THEOREM RunningRowsAreOwned ==
    ASSUME Fresh = Callers
    PROVE  Spec => []RunningRowIsOwned
<1>1. RegistryInit => Owned
  <2> SUFFICES ASSUME RegistryInit PROVE Owned
    OBVIOUS
  <2>1. \A e \in Execs : status[e] # "running"
    BY DEF RegistryInit
  <2>2. \A r \in Callers : pc[r] = "off"
    BY DEF RegistryInit
  <2>3. stop \in [Execs -> {"none", "read", "write", "done"}]
    BY DEF RegistryInit
  <2> QED BY <2>1, <2>2, <2>3 DEF Owned, EntryUntilStopped, SavesAnEnd, RunningRowIsOwned
<1>2. RegistryInv /\ Owned /\ [Next]_vars => Owned'
  <2> SUFFICES ASSUME RegistryInv, Owned, [Next]_vars PROVE Owned'
    OBVIOUS
  <2>1. RegistryTypeOK'
    BY RegistryInvNext DEF RegistryInv
  <2>2. CASE UNCHANGED vars
    BY <2>2 DEF vars, procVars, Owned, EntryUntilStopped, SavesAnEnd, RunningRowIsOwned
  <2>3. CASE Next
    BY <2>1, <2>3, OwnedRunStep, OwnedOtherStep DEF Next
  <2> QED BY <2>2, <2>3
<1>3. Owned => RunningRowIsOwned
  BY DEF Owned
<1> QED BY <1>1, <1>2, <1>3, RegistryInvariant, PTL DEF Spec

=============================================================================
