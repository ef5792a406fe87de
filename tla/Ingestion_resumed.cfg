\* The backfill: --resume on every call, one pinned partition, until all is loaded.
SPECIFICATION FairSpec
CONSTANTS
    Procs = {p1}
    races = races
    standings = standings
    d1 = d1
    d2 = d2
    Races = races
    Order <- MCOrder
    RaceScoped <- MCRaceScoped
    NRounds = 2
    Size <- MCSize
    Limit = 1
    BadRows <- MCBadRows
    Runs <- ResumedRuns
    Lag = FALSE
    MaxFaults = 3
INVARIANT ResumeNeverRefetches
PROPERTIES RunsEnd EventuallyLoaded
