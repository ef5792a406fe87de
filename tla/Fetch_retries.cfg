\* Every mixture of answers over a scope of three pages, with a data connection
\* that may be lost once.
SPECIFICATION Spec
CONSTANTS
    Total = 5
    PageSize = 3
    Cap = 2
    MaxAttempts = 3
    BackoffBase = 2
    Told <- MCTold
    MaxDrops = 1
INVARIANTS RetriesJustified WaitsAsTold FailureIsRecorded NothingSkipped
PROPERTIES EventuallyLanded
