\* run_test_cases with three test cases and a pool limit of one, so the
\* main thread must park.  The runner stops once it has joined every worker.
CONSTANTS
    NumTests = 3
    Limit = 1
    None = None
SPECIFICATION FairSpec
CHECK_DEADLOCK FALSE
INVARIANT
    TypeOK
    RunningBounded
    FailureReported
PROPERTY
    Terminates
