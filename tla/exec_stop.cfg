SPECIFICATION FairSpec
CONSTANTS
    Creates = {a, b}
    Resumes = {}
    Callers <- MCCallers
    ModeOf <- MCModeOf
    Execs = {a, b}
    ExecOf <- MCExecOf
    Fresh = {a, b}
    NoRun = NoRun
    ProductionLimit = 1
    EvaluationLimit = 1
    LicensedLimit = 1
    Ops = {"stop", "timeout", "reject", "dbfail", "shutdown"}
    MaxRestarts = 0
CHECK_DEADLOCK FALSE
PROPERTIES CanceledIsFinalOnceLaunched ThrottledRunProceeds SlotComesBack ShutdownCompletes
