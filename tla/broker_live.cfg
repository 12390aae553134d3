SPECIFICATION FairSpec
CONSTANTS
    JsRequests = {q1, q2}
    PyRequests = {}
    JsRunners = {r1}
    PyRunners = {}
    Requests <- MCRequests
    Runners <- MCRunners
    TypeOf <- MCTypeOf
    MaxConcurrency = 1
    OfferIds = {1}
    TaskIds = {t1, t2}
    Nothing = Nothing
    Ops = {"expire", "acceptTimeout", "taskTimeout", "disconnect", "drain"}
CHECK_DEADLOCK FALSE
PROPERTIES RequestIsAnswered RunnerSlotComesBack DrainingEnds
