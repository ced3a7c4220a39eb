\* Two workers, a job that runs and one with a bad capture pattern, each pushed
\* up to twice, one failure, fair scheduling.
SPECIFICATION FairSpec
CONSTANTS
    j1 = j1
    j2 = j2
    Jobs = {j1, j2}
    Envlets = {e1, e2}
    KindOf <- MCKindOf
    ExitCodes = {0, 1}
    Nil = Nil
    MaxPushes = 2
    MaxFaults = 1
INVARIANTS JobsConserved RunOncePerPush
PROPERTIES StoppedEnds JobsFinish
CHECK_DEADLOCK FALSE
