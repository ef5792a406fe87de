\* Runs one after the other until two overlap or a connection drops, and from then
\* on whatever overlaps and drops.
SPECIFICATION Spec
CONSTANTS
    Procs = {p1, p2}
    MaxInWindow = 2
    Window = 3
    MinInterval = 1
    Margin = 1
    Keep = 3
    Latency = 1
    MaxAttempts = 2
    RetryBackoff = 1
    Concurrent = TRUE
    MayDrop = TRUE
    MaxTime = 8
    StrainedTime = 4
SYMMETRY ProcSymmetry
INVARIANTS TypeOK BudgetKept EveryCallRecorded PruneKeepsWindow
PROPERTY BurstSpacing
