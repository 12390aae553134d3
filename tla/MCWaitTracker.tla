--------------------------- MODULE MCWaitTracker ---------------------------
(* A sub-execution that waits for a time, and the parent that waits for it; *)
(* or an execution of its own.                                              *)
EXTENDS WaitTracker

CONSTANTS child, parent, alone

MCExecutions == {child, parent, alone}
MCParent == [e \in MCExecutions |-> IF e = child THEN parent ELSE NoParent]
MCMaxWaits == [e \in MCExecutions |-> IF e = parent THEN 1 ELSE 2]

\* Leaders change while one execution waits; resumes fail, stop and are lost
\* while a parent waits.
MCScenarios ==
    {[executions |-> {alone}, takeovers |-> 2, webhooks |-> 1, faults |-> 1],
     [executions |-> {alone}, takeovers |-> 1, webhooks |-> 0, faults |-> 2],
     [executions |-> {child, parent}, takeovers |-> 0, webhooks |-> 1, faults |-> 2]}

\* One webhook and nothing else.
MCQuiet == {[executions |-> {alone}, takeovers |-> 0, webhooks |-> 1, faults |-> 0]}
=============================================================================
