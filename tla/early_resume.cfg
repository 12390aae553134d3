SPECIFICATION Spec
CONSTANTS
    child = child
    parent = parent
    alone = alone
    Mains = {m1}
    Leader = m1
    Executions <- MCExecutions
    Parent <- MCParent
    NoParent = NoParent
    MaxWaits <- MCMaxWaits
    Stoppable = {child, alone}
    Scenarios <- MCQuiet
    Ops = {"retake", "webhook", "fail", "restart"}
CHECK_DEADLOCK FALSE
PROPERTIES
    StartedAtTheCorrectTime
