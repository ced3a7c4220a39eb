\* Two calls of two attempts: one with a blank queue name always fails and cuts
\* the other by reconnecting.  The store sweeps meanwhile; no other failure.
SPECIFICATION Spec
CONSTANTS
    c1 = c1
    c2 = c2
    Calls = {c1, c2}
    RetryLimit = 2
    JobKind <- MCNormal
    QueueName <- MCBlankQueue
    Envlets = {e1}
    ExitCodes = {0}
    WordSize = 256
    TTL = 0
    Minute = 1
    MaxTime = 3
    Nil = Nil
    Error = Error
    MaxFaults = 0
INVARIANTS WaitingJobAlive
PROPERTY ImplementsService
CHECK_DEADLOCK FALSE
