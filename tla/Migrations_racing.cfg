CONSTANTS
    Runners = {r1, r2}
    NVersions = 2
    FirstOnDisk <- MCFirstOnDisk
    ByHand <- MCByHand
    Rerunnable <- MCRerunnable
    Faulty <- MCFaulty
    Commands <- MCCommands
    MaxEdits = 1
    MaxCrashes = 1
SPECIFICATION FairSpec
INVARIANTS
    TypeOK
    AppliedOnce
    LedgerIsTrue
    EditsAreReported
    ExitZeroMeansRecorded
PROPERTIES
    InOrder
    EventuallyRecorded
