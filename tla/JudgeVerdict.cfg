\* A submission with three tests, one whose test has a time limit, one without
\* tests, and one that is only compiled.
SPECIFICATION Spec
CONSTANTS
    Problems <- MCProblems
    Nil = Nil
INVARIANTS NoFailureAccepted FirstFailureDecides CompileErrorTold
CHECK_DEADLOCK FALSE
