SPECIFICATION GateSpec
CONSTANTS
    Production = {p1, p2, p3, p4}
    Evaluation = {e1, e2, e3}
    Manual = {m1}
    Callers <- MCCallers
    ModeOf <- MCModeOf
    ProductionLimit = 2
    EvaluationLimit <- Unlimited
    LicensedLimit = 1
CHECK_DEADLOCK FALSE
SYMMETRY Symmetry
INVARIANTS CapacityConserved NoIdleCapacity GateTypeOK GateInv
PROPERTIES OnlyEvictionOverAdmits
