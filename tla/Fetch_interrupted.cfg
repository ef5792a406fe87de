\* A run that lands an answer without MRData over a page, dies before its
\* checkpoint, and is followed by one that resumes from an older checkpoint.
SPECIFICATION Spec
CONSTANTS
    Total = 5
    PageSize = 3
    Cap = 2
    MaxAttempts = 3
    BackoffBase = 2
    Told <- MCTold
    MaxDrops = 1
INVARIANT WorstCaseIsRefetch
