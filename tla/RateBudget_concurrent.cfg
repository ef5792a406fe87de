\* Two processes share the budget, as the design says they may.
SPECIFICATION Spec
CONSTANTS
    Procs = {p1, p2}
    MaxInWindow = 2
    Window = 3
    MinInterval = 1
    Margin = 0
    Keep = 4
    Latency = 0
    MaxAttempts = 3
    RetryBackoff = 1
    Concurrent = TRUE
    MayDrop = FALSE
    MaxTime = 8
    StrainedTime = 8
SYMMETRY ProcSymmetry
INVARIANT WindowBudget
