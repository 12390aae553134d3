SPECIFICATION Spec
CONSTANTS
    JsRequests = {q1, q2}
    PyRequests = {q3}
    JsRunners = {r1, r2}
    PyRunners = {}
    Requests <- MCRequests
    Runners <- MCRunners
    TypeOf <- MCTypeOf
    MaxConcurrency = 1
    OfferIds = {1}
    TaskIds = {t1, t2}
    Nothing = Nothing
    Ops = {"expire", "acceptTimeout", "stale", "cancel", "disconnect", "stop"}
CHECK_DEADLOCK FALSE
SYMMETRY Symmetry
INVARIANTS BrokerTypeOK OrphanMeansExpired ExecutedOnce SettingsAreExpected NoOvercommitment
