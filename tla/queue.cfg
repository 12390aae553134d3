SPECIFICATION FairSpec
CONSTANTS
    Mains = {m1, m2}
    Leader = m1
    Workers = {k1, k2}
    Executions = {e1}
    NoMain = NoMain
    MaxStops = 1
    MaxFaults = 2
    Ops = {"addfail", "fail", "workercrash", "maincrash", "lapse", "handover", "discard"}
CHECK_DEADLOCK FALSE
INVARIANTS
    StartedOnce
PROPERTIES
    CrashedMeansAbsent
    CancelledRunStaysCanceled
    InProgressRowEnds
    EntryIsReleased
