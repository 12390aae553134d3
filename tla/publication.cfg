SPECIFICATION FairSpec
CONSTANTS
    v1 = v1
    v2 = v2
    Mains = {m1, m2}
    Workflows = {w1}
    Versions = {v1, v2}
    TriggersOf <- MCTriggersOf
    NoVersion = NoVersion
    NoRecord = NoRecord
    Ids = {1, 2, 3, 4}
    MaxEdits = 2
    MaxTakeovers = 2
    MaxFaults = 1
    Ops = {"crash", "shutdown", "fail", "unreported", "timeout", "runtime", "wakeup"}
CHECK_DEADLOCK FALSE
INVARIANTS
    NoTriggerOnFollower
    LeaderRunsPublished
PROPERTIES
    PublishedFollowsRequests
    PublicationConverges
