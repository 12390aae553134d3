SPECIFICATION Spec
CONSTANTS
    Creates = {a}
    Resumes = {r1, r2}
    Callers <- MCCallers
    ModeOf <- MCModeOf
    Execs = {a}
    ExecOf <- MCExecOf
    Fresh = {a}
    NoRun = NoRun
    ProductionLimit = 2
    EvaluationLimit = 1
    LicensedLimit = 1
    Ops = {"wait", "stop", "shutdown", "crash"}
    MaxRestarts = 1
CHECK_DEADLOCK FALSE
SYMMETRY ResumeSymmetry
INVARIANTS ExclusiveExecution
