\* Two runs at once in one partition, with and without --resume.
SPECIFICATION Spec
CONSTANTS
    Procs = {p1, p2}
    races = races
    standings = standings
    d1 = d1
    d2 = d2
    Races = races
    Order <- MCOrder
    RaceScoped <- MCRaceScoped
    NRounds = 1
    Size <- MCSize
    Limit = 1
    BadRows <- MCBadRows
    Runs <- FetchingRuns
    Lag = FALSE
    MaxFaults = 2
SYMMETRY ProcSymmetry
PROPERTY ImplementsReplica
