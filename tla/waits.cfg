SPECIFICATION FairSpec
CONSTANTS
    child = child
    parent = parent
    alone = alone
    Mains = {m1, m2}
    Leader = m1
    Executions <- MCExecutions
    Parent <- MCParent
    NoParent = NoParent
    MaxWaits <- MCMaxWaits
    Stoppable = {child, alone}
    Scenarios <- MCScenarios
    Ops = {"retake", "webhook", "fail", "restart"}
CHECK_DEADLOCK FALSE
INVARIANTS
    ResumedOnce
PROPERTIES
    EarlyOnlyByOldTimer
    DueWaitEnds
    ParentResumes
