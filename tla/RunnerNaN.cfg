\* A checker that prints "nan".
SPECIFICATION Spec
CONSTANTS
    Payloads <- MCPayloads
    LineConcurrency = 2
    Concurrency = 1
    Printed = {"1", "0", "nan"}
    Value <- MCWithZero
    Unit = 1
    Scale = 2
INVARIANT TrueMeansHundred
CHECK_DEADLOCK FALSE
