\* The daily schedule and --load-only reruns, with results published late.
SPECIFICATION Spec
CONSTANTS
    Procs = {p1}
    races = races
    standings = standings
    d1 = d1
    d2 = d2
    Races = races
    Order <- MCOrder
    RaceScoped <- MCRaceScoped
    NRounds = 2
    Size <- MCSize
    Limit = 1
    BadRows <- MCBadRows
    Runs <- DailyRuns
    Lag = TRUE
    MaxFaults = 2
INVARIANTS TypeOK LakeBacksCheckpoint ExitZeroMeansLoaded WarehouseFromLake RoundsAreScheduled
