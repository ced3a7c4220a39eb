\* One worker and one job, no failure, fair scheduling: does SIGTERM end it?
SPECIFICATION FairSpec
CONSTANTS
    j1 = j1
    j2 = j2
    Jobs = {j1}
    Envlets = {e1}
    KindOf <- MCKindOf
    ExitCodes = {0, 1}
    Nil = Nil
    MaxPushes = 1
    MaxFaults = 0
PROPERTY SigtermExits
CHECK_DEADLOCK FALSE
