\* gRPC: one call that always fails and two that are healthy, three attempts
\* each, as in the source: the healthy ones cut each other too.  HTTP: two
\* calls in one batch or two.  Fair scheduling.
SPECIFICATION ClientsFairSpec
CONSTANTS
    c1 = c1
    c2 = c2
    c3 = c3
    v1 = v1
    Calls = {c1, c2, c3}
    HttpCalls = {c1, c2}
    Faulty = {c1}
    Values = {v1}
    RetryLimit = 3
    Nil = Nil
    Error = Error
    MaxFaults = 1
INVARIANTS ClientsTypeOK HealthyCallSurvives  FailureHasCause
PROPERTY AllCallsEnd
CHECK_DEADLOCK FALSE
