SPECIFICATION FairSpec
CONSTANTS
    CasesA = {a1}
    CasesB = {b1, b2}
    Callers <- MCCallers
    ModeOf <- MCModeOf
    Runs <- MCRuns
    RunOf <- MCRunOf
    ProductionLimit <- Unlimited
    EvaluationLimit <- Unlimited
    LicensedLimit = 1
    Concurrency = 1
    MultiMain = TRUE
    MaxCancels = 2
    Faults = TRUE
CHECK_DEADLOCK FALSE
INVARIANTS FinishedCaseHoldsNoSlot EndedRunHasNoPendingCase
PROPERTIES EndedRunIsFinal RunEnds
