\* Three batches: good problems and a blank line; a line that does not parse
\* before a problem worth 50 points; a sub-task without cases.  Two lines at a time, one permit.
\* Scores may be no numbers, and stderr may be no text.
SPECIFICATION FairSpec
CONSTANTS
    Payloads <- MCPayloads
    LineConcurrency = 2
    Concurrency = 1
    Printed = {"1", "2", "nan", "bytes"}
    Value <- MCValue
    Unit = 1
    Scale = 2
INVARIANTS TypeOK PermitsConserved TrueIsEarned ExitCodeTrue
PROPERTY RunnerEnds
CHECK_DEADLOCK FALSE
