SPECIFICATION FairSpec
CONSTANTS
    NoMain = NoMain
    Mains = {m1, m2, m3}
    MaxTimeouts = 1
    MaxLapses = 1
    MaxStops = 1
CHECK_DEADLOCK FALSE
INVARIANTS
    ElectionTypeOK
    LeadersBounded
PROPERTIES
    ImplementsLease
    OneLeaderEventually
