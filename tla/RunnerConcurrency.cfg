\* Two lines at a time, one permit.
SPECIFICATION Spec
CONSTANTS
    Payloads <- MCPayloads
    LineConcurrency = 2
    Concurrency = 1
    Printed = {"1", "0"}
    Value <- MCWithZero
    Unit = 1
    Scale = 2
INVARIANT ConcurrencyRespected
CHECK_DEADLOCK FALSE
