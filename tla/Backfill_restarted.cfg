\* A backfill that is killed, fails and is started again, with either partition.
SPECIFICATION FairSpec
CONSTANTS
    NSeasons = 3
    results = results
    pitstops = pitstops
    d1 = d1
    d2 = d2
    Phases <- MCPhases
    ScheduleNeeded <- MCScheduleNeeded
    Awkward <- MCAwkward
    Dates = {d1, d2}
    MaxConsecutive = 2
    MaxFaults = 2
INVARIANTS TypeOK ExitZeroMeansBackfilled StopRule
PROPERTY PinnedGetsLoaded
