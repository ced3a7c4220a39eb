\* One call of two attempts, two workers, two failures, a job killed by a signal.
SPECIFICATION Spec
CONSTANTS
    c1 = c1
    c2 = c2
    Calls = {c1}
    RetryLimit = 2
    JobKind <- MCNormal
    QueueName <- MCQueueName
    Envlets = {e1, e2}
    ExitCodes <- MCExitCodes
    WordSize = 256
    TTL = 0
    Minute = 1
    MaxTime = 1
    Nil = Nil
    Error = Error
    MaxFaults = 2
SYMMETRY EnvletSymmetry
INVARIANTS WaitingJobAlive StoredIsOrphan NoChannelLeft NoNilResult
PROPERTY ImplementsService
CHECK_DEADLOCK FALSE
