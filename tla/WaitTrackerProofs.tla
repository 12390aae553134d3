-------------------------- MODULE WaitTrackerProofs --------------------------
(***************************************************************************)
(* For any mains, executions, numbers of waits, webhooks, takeovers and    *)
(* faults: a wait is resumed once, and a timer that is early is one that   *)
(* was set for an earlier wait.                                            *)
(***************************************************************************)
EXTENDS WaitTracker, TLAPS

Statuses == {"none", "waiting", "running", "success", "canceled"}
Times == {"far", "soon", "due", "never"}
Sources == {"timer", "webhook"} \cup Executions

\* The resumes under way are those of executions, runs and promises those of
\* sub-executions.
ResumeTypeOK ==
    /\ resumes \in [Mains -> SUBSET [exec : Executions, source : Sources, wait : Nat]]
    /\ running \in [Mains -> SUBSET Children]
    /\ finalizing \in [Mains -> SUBSET [exec : Children, wait : Nat, ended : BOOLEAN]]
    /\ attached \in [Mains -> SUBSET [exec : Children, wait : Nat]]

\* The rows, and what was resumed of them.
RowTypeOK ==
    /\ status \in [Executions -> Statuses]
    /\ wait \in [Executions -> Nat]
    /\ \A e \in Executions : wait[e] <= MaxWaits[e] /\ (status[e] = "waiting" => wait[e] # 0)
    /\ resumed \in [Executions -> [Waits -> Nat]]

\* A wait that has not come, or is not over, was not resumed.
NotYetResumed ==
    \A e \in Executions, n \in Waits :
        \/ n > wait[e]
        \/ n = wait[e] /\ status[e] = "waiting"
        => resumed[e][n] = 0

ResumeInv == ResumeTypeOK /\ RowTypeOK /\ NotYetResumed /\ ResumedOnce

\* An entry, or a row a query has found, is of a wait the execution has come to.
EntryOK ==
    /\ entry \in [Mains -> [Executions -> [timer : {"none", "set", "cleared"}, wait : Nat]]]
    /\ \A m \in Mains, e \in Executions :
         entry[m][e].wait <= wait[e] /\ (entry[m][e].timer = "set" => entry[m][e].wait # 0)
FetchedOK ==
    /\ fetched \in [Mains -> SUBSET [exec : Executions, wait : Nat]]
    /\ \A m \in Mains : \A x \in fetched[m] : x.wait <= wait[x.exec] /\ x.wait # 0

\* A resume by a timer is of a wait that is over, or that is due.
InTime(r) ==
    \/ r.wait < wait[r.exec]
    \/ r.wait = wait[r.exec] /\ r.wait # 0 /\ time[r.exec][r.wait] = "due"
FiredInTime ==
    \A m \in Mains : \A r \in resumes[m] : r.source = "timer" => InTime(r)

TimerInv ==
    /\ time \in [Executions -> [Waits -> Times]]
    /\ EntryOK /\ FetchedOK /\ FiredInTime

-----------------------------------------------------------------------------
(* ResumeInv is inductive *)

\* The number of the wait a row is in is one of Waits.
LEMMA WaitIsCounted ==
    ASSUME NEW e \in Executions, NEW n \in Nat \ {0}, n <= MaxWaits[e]
    PROVE  n \in Waits
<1>1. n \in 1 .. MaxWaits[e]
  BY WaitAssumption
<1> QED BY <1>1 DEF Waits

\* All executions run for the first time and none was resumed.
LEMMA ResumeInvInit == WaitInit => ResumeInv
<1> SUFFICES ASSUME WaitInit PROVE ResumeInv
  OBVIOUS
<1>1. ResumeTypeOK
  BY DEF WaitInit, StartOf, ResumeTypeOK
<1>2. RowTypeOK
  BY WaitAssumption DEF WaitInit, StartOf, RowTypeOK, Statuses
<1>3. NotYetResumed /\ ResumedOnce
  BY DEF WaitInit, StartOf, NotYetResumed, ResumedOnce
<1> QED BY <1>1, <1>2, <1>3 DEF ResumeInv

\* A compare-and-set on the row lets one resume of a wait through.
LEMMA RunOnce ==
    ASSUME ResumeInv, NEW m \in Mains, Run(m)
    PROVE  ResumeInv'
<1> USE DEF ResumeInv
<1>1. PICK r \in resumes[m] :
        /\ resumes' = [resumes EXCEPT ![m] = @ \ {r}]
        /\ UNCHANGED <<wait, time>>
        /\ UNCHANGED finalizing
        /\ \/ /\ Resumable(r.exec)
              /\ status' = [status EXCEPT ![r.exec] = "running"]
              /\ resumed' = [resumed EXCEPT ![r.exec][wait[r.exec]] = @ + 1]
              /\ running' = [running EXCEPT ![m] = @ \cup ({r.exec} \cap Children)]
              /\ attached' = Attached(m, r)
           \/ UNCHANGED <<status, resumed, running, attached>>
  BY DEF Run
<1>2. r.exec \in Executions
  BY DEF ResumeTypeOK
<1>3. ResumeTypeOK'
  <2>1. /\ resumes' \in [Mains -> SUBSET [exec : Executions, source : Sources, wait : Nat]]
        /\ running' \in [Mains -> SUBSET Children]
        /\ finalizing' \in [Mains -> SUBSET [exec : Children, wait : Nat, ended : BOOLEAN]]
    BY <1>1 DEF ResumeTypeOK
  <2>2. {[exec |-> c, wait |-> wait[c]] : c \in {r.exec} \cap Children} \subseteq [exec : Children, wait : Nat]
    BY <1>2 DEF RowTypeOK
  <2>3. Attached(m, r) \in [Mains -> SUBSET [exec : Children, wait : Nat]]
    BY <2>2 DEF ResumeTypeOK, Attached
  <2> QED BY <1>1, <2>1, <2>3 DEF ResumeTypeOK
<1>4. CASE UNCHANGED <<status, resumed>>
  BY <1>1, <1>3, <1>4 DEF RowTypeOK, NotYetResumed, ResumedOnce
<1>5. CASE /\ Resumable(r.exec)
           /\ status' = [status EXCEPT ![r.exec] = "running"]
           /\ resumed' = [resumed EXCEPT ![r.exec][wait[r.exec]] = @ + 1]
  <2>1. wait[r.exec] \in Waits
    BY <1>2, <1>5, WaitIsCounted DEF RowTypeOK, Resumable
  <2>2. resumed[r.exec][wait[r.exec]] = 0
    BY <1>2, <1>5, <2>1 DEF NotYetResumed, Resumable
  <2>3. RowTypeOK'
    BY <1>1, <1>2, <1>5, <2>1 DEF RowTypeOK, Statuses
  <2>4. \A e \in Executions, n \in Waits :
          resumed'[e][n] = IF e = r.exec /\ n = wait[r.exec] THEN 1 ELSE resumed[e][n]
    BY <1>2, <1>5, <2>1, <2>2 DEF RowTypeOK
  <2>5. \A e \in Executions : status'[e] = IF e = r.exec THEN "running" ELSE status[e]
    BY <1>2, <1>5 DEF RowTypeOK
  <2>6. NotYetResumed'
    BY <1>1, <2>1, <2>4, <2>5 DEF NotYetResumed, RowTypeOK, Waits
  <2>7. ResumedOnce'
    BY <2>4 DEF ResumedOnce
  <2> QED BY <1>3, <2>3, <2>6, <2>7
<1> QED BY <1>1, <1>4, <1>5

\* Every other step leaves what was resumed alone; a row waits again only
\* with a new wait.
LEMMA ResumeInvNext ==
    ASSUME ResumeInv, TimerInv, [WaitNext]_vars
    PROVE  ResumeInv'
<1> USE DEF ResumeInv, rowVars, trackVars, runVars
<1>1. ASSUME UNCHANGED <<status, wait, resumed>>, ResumeTypeOK' PROVE ResumeInv'
  BY <1>1 DEF RowTypeOK, NotYetResumed, ResumedOnce
<1>2. ASSUME UNCHANGED <<resumes, running, finalizing, attached>> PROVE ResumeTypeOK'
  BY <1>2 DEF ResumeTypeOK
<1>0. ASSUME NEW e \in Executions, NEW ended \in BOOLEAN, Saved(e, ended), UNCHANGED <<resumes, attached>>
      PROVE  ResumeTypeOK'
  <2>1. \A m \in Mains : {[exec |-> x, wait |-> wait[x], ended |-> ended] : x \in {e} \cap running[m]}
                           \subseteq [exec : Children, wait : Nat, ended : BOOLEAN]
    BY DEF ResumeTypeOK, RowTypeOK
  <2>2. finalizing' \in [Mains -> SUBSET [exec : Children, wait : Nat, ended : BOOLEAN]]
    BY <1>0, <2>1 DEF Saved, ResumeTypeOK
  <2>3. running' \in [Mains -> SUBSET Children]
    BY <1>0 DEF Saved, ResumeTypeOK
  <2> QED BY <1>0, <2>2, <2>3 DEF ResumeTypeOK
<1>3. ASSUME NEW e \in Executions, WaitAgain(e) PROVE ResumeInv'
  <2>1. ResumeTypeOK'
    BY <1>0, <1>3 DEF WaitAgain
  <2>2. RowTypeOK'
    <3> MaxWaits[e] \in Nat /\ wait[e] \in Nat
      BY WaitAssumption DEF RowTypeOK
    <3>1. wait[e] + 1 \in Nat \ {0} /\ wait[e] + 1 <= MaxWaits[e]
      BY <1>3 DEF WaitAgain
    <3>2. status' \in [Executions -> Statuses] /\ wait' \in [Executions -> Nat]
      BY <1>3, <3>1 DEF WaitAgain, WithStatus, RowTypeOK, Statuses
    <3>3. \A x \in Executions : wait'[x] <= MaxWaits[x] /\ (status'[x] = "waiting" => wait'[x] # 0)
      BY <1>3, <3>1 DEF WaitAgain, WithStatus, RowTypeOK
    <3> QED BY <1>3, <3>2, <3>3 DEF WaitAgain, RowTypeOK
  <2>3. NotYetResumed' /\ ResumedOnce'
    <3>1. \A x \in Executions : /\ wait'[x] = (IF x = e THEN wait[x] + 1 ELSE wait[x])
                                /\ x # e => status'[x] = status[x]
      BY <1>3 DEF WaitAgain, WithStatus, RowTypeOK
    <3> QED BY <1>3, <3>1 DEF WaitAgain, NotYetResumed, ResumedOnce, RowTypeOK, Waits
  <2> QED BY <2>1, <2>2, <2>3
<1>4. ASSUME NEW e \in Executions, End(e) \/ StopDuringRun(e) PROVE ResumeInv'
  <2>0. ResumeTypeOK' /\ UNCHANGED <<wait, resumed>>
    BY <1>0, <1>2, <1>4 DEF End, StopDuringRun
  <2>1. status' \in [Executions -> Statuses] /\ \A x \in Executions : status'[x] = "waiting" => status[x] = "waiting"
    BY <1>4 DEF End, StopDuringRun, WithStatus, RowTypeOK, Statuses
  <2> QED BY <2>0, <2>1 DEF RowTypeOK, NotYetResumed, ResumedOnce
<1>5. ASSUME NEW e \in Executions, NEW n \in Waits, Tick(e, n) PROVE ResumeInv'
  BY <1>1, <1>2, <1>5 DEF Tick
<1>6. ASSUME NEW m \in Mains, StartTracking(m) \/ Query(m) \/ SetTimers(m) \/ StopTracking(m)
      PROVE  ResumeInv'
  BY <1>1, <1>2, <1>6 DEF StartTracking, Query, SetTimers, StopTracking
<1>7. ASSUME NEW m \in Mains, ResumeFails(m) PROVE ResumeInv'
  <2>1. ResumeTypeOK'
    BY <1>7 DEF ResumeFails, ResumeTypeOK
  <2> QED BY <1>1, <1>7, <2>1 DEF ResumeFails
<1>8. ASSUME NEW m \in Mains, Restart(m) PROVE ResumeInv'
  <2>1. ResumeTypeOK'
    BY <1>8 DEF Restart, ResumeTypeOK
  <2> QED BY <1>1, <1>8, <2>1 DEF Restart
<1>9. ASSUME NEW m \in Mains, NEW e \in Executions, StopExecution(m, e) PROVE ResumeInv'
  <2>1. ResumeTypeOK'
    BY <1>9 DEF StopExecution, ResumeTypeOK
  <2> QED BY <1>1, <1>9, <2>1 DEF StopExecution
<1>10. ASSUME NEW m \in Mains, Finalize(m) PROVE ResumeInv'
  <2>1. PICK x \in finalizing[m] :
          /\ finalizing' = [finalizing EXCEPT ![m] = @ \ {x}]
          /\ attached' = [attached EXCEPT ![m] = @ \ Promises(m, x.exec)]
          /\ resumes' = [resumes EXCEPT ![m] = @ \cup
                            {Resume(Parent[p.exec], p.exec, 0) : p \in IF x.ended THEN Promises(m, x.exec) ELSE {}}]
          /\ UNCHANGED <<status, wait, resumed, running>>
    BY <1>10 DEF Finalize
  <2>2. \A c \in Children : Resume(Parent[c], c, 0) \in [exec : Executions, source : Sources, wait : Nat]
    BY WaitAssumption DEF Children, Resume, Sources
  <2>3. \A p \in Promises(m, x.exec) : p.exec \in Children
    BY DEF Promises, ResumeTypeOK
  <2>4. {Resume(Parent[p.exec], p.exec, 0) : p \in IF x.ended THEN Promises(m, x.exec) ELSE {}}
          \subseteq [exec : Executions, source : Sources, wait : Nat]
    BY <2>2, <2>3
  <2>5. resumes' \in [Mains -> SUBSET [exec : Executions, source : Sources, wait : Nat]]
    BY <2>1, <2>4 DEF ResumeTypeOK
  <2>6. ResumeTypeOK'
    BY <2>1, <2>5 DEF ResumeTypeOK
  <2> QED BY <1>1, <2>1, <2>6
<1>11. ASSUME NEW m \in Mains, NEW e \in Executions, Webhook(m, e) PROVE ResumeInv'
  <2>1. Resume(e, "webhook", wait[e]) \in [exec : Executions, source : Sources, wait : Nat]
    BY DEF RowTypeOK, Resume, Sources
  <2>2. ResumeTypeOK'
    BY <1>11, <2>1 DEF Webhook, ResumeTypeOK
  <2> QED BY <1>1, <1>11, <2>2 DEF Webhook
<1>12. ASSUME NEW m \in Mains, NEW e \in Executions, Fire(m, e) PROVE ResumeInv'
  <2>1. Resume(e, "timer", entry[m][e].wait) \in [exec : Executions, source : Sources, wait : Nat]
    BY <1>12 DEF TimerInv, EntryOK, Resume, Sources
  <2>2. ResumeTypeOK'
    BY <1>12, <2>1 DEF Fire, ResumeTypeOK
  <2> QED BY <1>1, <1>12, <2>2 DEF Fire
<1>13. CASE UNCHANGED vars
  BY <1>1, <1>2, <1>13 DEF vars
<1> QED
  BY RunOnce, <1>3, <1>4, <1>5, <1>6, <1>7, <1>8, <1>9, <1>10, <1>11, <1>12, <1>13 DEF WaitNext

-----------------------------------------------------------------------------
(* TimerInv is inductive *)

\* No timer is set yet.
LEMMA TimerInvInit == WaitInit => TimerInv
<1> SUFFICES ASSUME WaitInit PROVE TimerInv
  OBVIOUS
<1>1. time \in [Executions -> [Waits -> Times]]
  BY DEF WaitInit, Times
<1>2. EntryOK
  BY DEF WaitInit, EntryOK, NoEntry
<1>3. FetchedOK /\ FiredInTime
  BY DEF WaitInit, FetchedOK, FiredInTime
<1> QED BY <1>1, <1>2, <1>3 DEF TimerInv

\* A step that sets no clock back, nor the number of a row's wait.
Onward ==
    /\ time' \in [Executions -> [Waits -> Times]]
    /\ \A e \in Executions : wait'[e] >= wait[e]
    /\ \A e \in Executions, n \in Waits : time[e][n] = "due" => time'[e][n] = "due"

\* Every step of the tracker, of the rows and of time is one.
LEMMA TimePasses ==
    ASSUME ResumeInv, TimerInv, [WaitNext]_vars
    PROVE  Onward
<1> USE DEF ResumeInv, RowTypeOK, TimerInv, Onward, rowVars, trackVars, runVars
<1>1. ASSUME UNCHANGED <<wait, time>> PROVE Onward
  BY <1>1
<1>2. ASSUME NEW e \in Executions, WaitAgain(e) PROVE Onward
  BY <1>2 DEF WaitAgain
<1>3. ASSUME NEW e \in Executions, NEW n \in Waits, Tick(e, n) PROVE Onward
  <2>1. wait' = wait /\ \E t \in {"soon", "due"} : time' = [time EXCEPT ![e][n] = t]
    BY <1>3 DEF Tick
  <2>2. time[e][n] = "due" => FALSE
    BY <1>3 DEF Tick
  <2> QED BY <2>1, <2>2 DEF Times
<1>4. ASSUME NEW e \in Executions, End(e) \/ StopDuringRun(e) PROVE Onward
  BY <1>1, <1>4 DEF End, StopDuringRun
<1>5. ASSUME NEW m \in Mains,
             \/ StartTracking(m) \/ Query(m) \/ SetTimers(m) \/ StopTracking(m)
             \/ ResumeFails(m) \/ Run(m) \/ Finalize(m) \/ Restart(m)
      PROVE  Onward
  BY <1>1, <1>5 DEF StartTracking, Query, SetTimers, StopTracking, ResumeFails, Run, Finalize, Restart
<1>6. ASSUME NEW m \in Mains, NEW e \in Executions,
             Fire(m, e) \/ Webhook(m, e) \/ StopExecution(m, e)
      PROVE  Onward
  BY <1>1, <1>6 DEF Fire, Webhook, StopExecution
<1>7. CASE UNCHANGED vars
  BY <1>1, <1>7 DEF vars
<1> QED BY <1>2, <1>3, <1>4, <1>5, <1>6, <1>7 DEF WaitNext

\* Entries and found rows come from the rows, and stay behind them.
LEMMA EntriesNext ==
    ASSUME ResumeInv, TimerInv, [WaitNext]_vars
    PROVE  EntryOK' /\ FetchedOK'
<1> USE DEF ResumeInv, RowTypeOK, TimerInv, rowVars, trackVars, runVars
<1>0. \A e \in Executions : wait'[e] >= wait[e] /\ wait[e] \in Nat /\ wait'[e] \in Nat
  BY TimePasses, ResumeInvNext DEF Onward
<1>1. ASSUME UNCHANGED entry PROVE EntryOK'
  BY <1>0, <1>1 DEF EntryOK
<1>2. ASSUME UNCHANGED fetched PROVE FetchedOK'
  BY <1>0, <1>2 DEF FetchedOK
<1>3. ASSUME NEW m \in Mains, NEW e \in Executions, entry' = WithoutEntry(m, e) PROVE EntryOK'
  BY <1>0, <1>3 DEF EntryOK, WithoutEntry, NoEntry
<1>4. ASSUME NEW e \in Executions,
             WaitAgain(e) \/ End(e) \/ StopDuringRun(e) \/ \E n \in Waits : Tick(e, n)
      PROVE  EntryOK' /\ FetchedOK'
  BY <1>1, <1>2, <1>4 DEF WaitAgain, End, StopDuringRun, Tick
<1>5. ASSUME NEW m \in Mains, StartTracking(m) \/ ResumeFails(m) \/ Finalize(m) PROVE EntryOK' /\ FetchedOK'
  BY <1>1, <1>2, <1>5 DEF StartTracking, ResumeFails, Finalize
<1>6. ASSUME NEW m \in Mains, Query(m) PROVE EntryOK' /\ FetchedOK'
  <2>1. /\ fetched' = [fetched EXCEPT ![m] = fetched'[m]] /\ wait' = wait
        /\ \A x \in fetched'[m] : /\ x.exec \in Executions /\ x = [exec |-> x.exec, wait |-> wait[x.exec]]
                                   /\ status[x.exec] = "waiting"
    BY <1>6 DEF Query, FetchedOK
  <2> QED BY <1>0, <1>1, <1>6, <2>1 DEF Query, FetchedOK
<1>7. ASSUME NEW m \in Mains, SetTimers(m) PROVE EntryOK' /\ FetchedOK'
  <2>1. FetchedOK'
    BY <1>0, <1>7 DEF SetTimers, FetchedOK
  <2>2. ASSUME NEW e \in Executions, NEW x \in fetched[m], x.exec = e
        PROVE  LET y == CHOOSE y \in fetched[m] : y.exec = e
               IN  y.wait \in Nat /\ y.wait <= wait[e] /\ y.wait # 0
    BY <2>2 DEF FetchedOK
  <2>3. ASSUME NEW n \in Mains, NEW e \in Executions
        PROVE  /\ entry'[n][e] \in [timer : {"none", "set", "cleared"}, wait : Nat]
               /\ entry'[n][e].wait <= wait[e] /\ (entry'[n][e].timer = "set" => entry'[n][e].wait # 0)
    BY <1>7, <2>2 DEF SetTimers, EntryOK
  <2>4. entry' \in [Mains -> [Executions -> [timer : {"none", "set", "cleared"}, wait : Nat]]]
    BY <1>7, <2>3 DEF SetTimers, EntryOK
  <2> QED BY <1>0, <1>7, <2>1, <2>3, <2>4 DEF SetTimers, EntryOK
<1>8. ASSUME NEW m \in Mains, StopTracking(m) PROVE EntryOK' /\ FetchedOK'
  <2>1. EntryOK'
    BY <1>0, <1>8 DEF StopTracking, EntryOK, NoEntry
  <2> QED BY <1>2, <1>8, <2>1 DEF StopTracking
<1>9. ASSUME NEW m \in Mains, Run(m) PROVE EntryOK' /\ FetchedOK'
  <2>1. \A r \in resumes[m] : r.exec \in Executions
    BY DEF ResumeTypeOK
  <2> QED BY <1>1, <1>2, <1>3, <1>9, <2>1 DEF Run
<1>10. ASSUME NEW m \in Mains, Restart(m) PROVE EntryOK' /\ FetchedOK'
  BY <1>0, <1>10 DEF Restart, EntryOK, FetchedOK, NoEntry
<1>11. ASSUME NEW m \in Mains, NEW e \in Executions,
              Fire(m, e) \/ Webhook(m, e) \/ StopExecution(m, e)
       PROVE  EntryOK' /\ FetchedOK'
  BY <1>1, <1>2, <1>3, <1>11 DEF Fire, Webhook, StopExecution
<1>12. CASE UNCHANGED vars
  BY <1>1, <1>2, <1>12 DEF vars
<1> QED
  BY <1>4, <1>5, <1>6, <1>7, <1>8, <1>9, <1>10, <1>11, <1>12 DEF WaitNext

\* A timer that fires is due, and what is due stays due.
LEMMA FiredNext ==
    ASSUME ResumeInv, TimerInv, [WaitNext]_vars
    PROVE  FiredInTime'
<1> USE DEF ResumeInv, TimerInv, rowVars, trackVars, runVars
<1>1. ASSUME NEW m \in Mains, NEW r \in resumes[m], r.source = "timer" PROVE InTime(r)'
  <2>1. r.exec \in Executions /\ r.wait \in Nat
    BY DEF ResumeTypeOK
  <2>2. wait[r.exec] \in Nat /\ wait'[r.exec] \in Nat /\ (wait[r.exec] # 0 => wait[r.exec] \in Waits)
    BY <2>1, WaitIsCounted, ResumeInvNext DEF RowTypeOK
  <2>3. wait'[r.exec] >= wait[r.exec]
    BY <2>1, TimePasses DEF Onward
  <2>4. wait[r.exec] # 0 /\ time[r.exec][wait[r.exec]] = "due" => time'[r.exec][wait[r.exec]] = "due"
    BY <2>1, <2>2, TimePasses DEF Onward
  <2>5. InTime(r)
    BY <1>1 DEF FiredInTime
  <2>6. CASE r.wait < wait'[r.exec]
    BY <2>6 DEF InTime
  <2>7. CASE ~(r.wait < wait'[r.exec])
    <3>1. r.wait = wait[r.exec] /\ wait'[r.exec] = wait[r.exec]
      BY <2>1, <2>2, <2>3, <2>5, <2>7 DEF InTime
    <3>2. wait[r.exec] # 0 /\ time[r.exec][wait[r.exec]] = "due"
      BY <2>2, <2>5, <3>1 DEF InTime
    <3> QED BY <2>4, <3>1, <3>2 DEF InTime
  <2> QED BY <2>6, <2>7
<1>2. ASSUME \A n \in Mains : resumes'[n] \subseteq resumes[n] PROVE FiredInTime'
  BY <1>1, <1>2 DEF FiredInTime
<1>3. ASSUME NEW m \in Mains, NEW r, resumes' = [resumes EXCEPT ![m] = @ \cup {r}],
             r.source = "timer" => InTime(r)'
      PROVE  FiredInTime'
  <2>1. \A n \in Mains : \A x \in resumes'[n] : x \in resumes[n] \/ x = r
    BY <1>3 DEF ResumeTypeOK
  <2> QED BY <1>1, <1>3, <2>1 DEF FiredInTime
<1>4. ASSUME NEW m \in Mains, NEW e \in Executions, Fire(m, e) PROVE FiredInTime'
  <2>1. PICK n \in Nat : n = entry[m][e].wait
    BY DEF EntryOK
  <2>2. wait[e] \in Nat /\ n <= wait[e] /\ n # 0 /\ time[e][n] = "due" /\ UNCHANGED <<wait, time>>
    BY <1>4, <2>1 DEF Fire, Fires, EntryOK, RowTypeOK
  <2>3. InTime(Resume(e, "timer", n))'
    BY <2>2 DEF Resume, InTime
  <2> QED BY <1>3, <1>4, <2>1, <2>3 DEF Fire
<1>5. ASSUME NEW m \in Mains, NEW e \in Executions, Webhook(m, e) PROVE FiredInTime'
  <2>1. PICK n : n = wait[e]
    OBVIOUS
  <2>2. Resume(e, "webhook", n).source # "timer"
    BY DEF Resume
  <2> QED BY <1>3, <1>5, <2>1, <2>2 DEF Webhook
<1>6. ASSUME NEW m \in Mains, Finalize(m) PROVE FiredInTime'
  <2>1. PICK x \in finalizing[m] :
          resumes' = [resumes EXCEPT ![m] = @ \cup
                        {Resume(Parent[p.exec], p.exec, 0) : p \in IF x.ended THEN Promises(m, x.exec) ELSE {}}]
    BY <1>6 DEF Finalize
  <2>2. \A p \in Promises(m, x.exec) : p.exec \in Executions
    BY DEF Promises, ResumeTypeOK, Children
  <2>3. ASSUME NEW n \in Mains, NEW r \in resumes'[n], r.source = "timer", r \notin resumes[n]
        PROVE  InTime(r)'
    <3>1. PICK p \in Promises(m, x.exec) : r = Resume(Parent[p.exec], p.exec, 0)
      BY <2>1, <2>3 DEF ResumeTypeOK
    <3>2. p.exec \in Children
      BY <3>1 DEF Promises, ResumeTypeOK
    <3>3. r.source \in Executions
      BY <2>2, <3>1 DEF Resume
    <3> QED BY <2>3, <3>3, WaitAssumption
  <2> QED BY <1>1, <2>3 DEF FiredInTime
<1>7. ASSUME NEW m \in Mains, ResumeFails(m) \/ Run(m) \/ Restart(m) PROVE FiredInTime'
  <2>1. \A n \in Mains : resumes'[n] \subseteq resumes[n]
    BY <1>7 DEF ResumeFails, Run, Restart, ResumeTypeOK
  <2> QED BY <1>2, <2>1
<1>8. ASSUME NEW e \in Executions,
             WaitAgain(e) \/ End(e) \/ StopDuringRun(e) \/ \E n \in Waits : Tick(e, n)
      PROVE  FiredInTime'
  BY <1>2, <1>8 DEF WaitAgain, End, StopDuringRun, Tick
<1>9. ASSUME NEW m \in Mains,
             \/ StartTracking(m) \/ Query(m) \/ SetTimers(m) \/ StopTracking(m)
             \/ \E e \in Executions : StopExecution(m, e)
      PROVE  FiredInTime'
  BY <1>2, <1>9 DEF StartTracking, Query, SetTimers, StopTracking, StopExecution
<1>10. CASE UNCHANGED vars
  BY <1>2, <1>10 DEF vars
<1> QED BY <1>4, <1>5, <1>6, <1>7, <1>8, <1>9, <1>10 DEF WaitNext

-----------------------------------------------------------------------------
(* Theorems *)

\* The inductive invariant: rows, resumes and timers fit together.
THEOREM WaitInvariant == Spec => [](ResumeInv /\ TimerInv)
<1>1. WaitInit => ResumeInv /\ TimerInv
  BY ResumeInvInit, TimerInvInit
<1>2. ResumeInv /\ TimerInv /\ [WaitNext]_vars => (ResumeInv /\ TimerInv)'
  <2> SUFFICES ASSUME ResumeInv, TimerInv, [WaitNext]_vars PROVE (ResumeInv /\ TimerInv)'
    OBVIOUS
  <2> QED BY ResumeInvNext, TimePasses, EntriesNext, FiredNext DEF TimerInv, Onward
<1> QED BY <1>1, <1>2, PTL DEF Spec

\* However many timers, webhooks and sub-executions of however many mains race
\* for it, ActiveExecutions.add() lets one resume of a wait through.
THEOREM WaitResumesOnce == Spec => []ResumedOnce
<1>1. ResumeInv => ResumedOnce
  BY DEF ResumeInv
<1> QED BY <1>1, WaitInvariant, PTL

\* The one way a timer of addTimer() resumes an execution before its time is
\* that it was set for an earlier wait.
THEOREM EarlyTimersAreOld == Spec => EarlyOnlyByOldTimer
<1>1. ASSUME ResumeInv, TimerInv
      PROVE  \A r \in EarlyResumes : r.wait < wait[r.exec]
  <2> SUFFICES ASSUME NEW m \in Mains, NEW r \in resumes[m], r.source = "timer",
                      time[r.exec][wait[r.exec]] # "due"
               PROVE  r.wait < wait[r.exec]
    BY DEF EarlyResumes
  <2> QED BY <1>1 DEF TimerInv, FiredInTime, InTime
<1> QED BY <1>1, WaitInvariant, PTL DEF EarlyOnlyByOldTimer
=============================================================================
