SPECIFICATION Spec
CONSTANTS
    Creates = {a, b}
    Resumes = {}
    Callers <- MCCallers
    ModeOf <- MCModeOf
    Execs = {a, b}
    ExecOf <- MCExecOf
    Fresh = {a, b}
    NoRun = NoRun
    ProductionLimit = 1
    EvaluationLimit = 1
    LicensedLimit = 1
    Ops = {"wait", "stop", "timeout", "reject", "discard", "shutdown", "crash"}
    MaxRestarts = 1
CHECK_DEADLOCK FALSE
SYMMETRY CreateSymmetry
INVARIANTS RunningRowIsOwned
