\* Fair scheduling: a call whose job has no binary and one without a queue name,
\* one attempt each, one worker that may be stopped, two failures.
SPECIFICATION FairSpec
CONSTANTS
    c1 = c1
    c2 = c2
    Calls = {c1, c2}
    RetryLimit = 1
    JobKind <- MCNoBinary
    QueueName <- MCEmptyQueue
    Envlets = {e1}
    ExitCodes = {0}
    WordSize = 256
    TTL = 0
    Minute = 1
    MaxTime = 1
    Nil = Nil
    Error = Error
    MaxFaults = 2
PROPERTY AttemptsEnd
CHECK_DEADLOCK FALSE
