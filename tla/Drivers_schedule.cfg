\* An operator and the schedule work at the same time while .env is edited.
SPECIFICATION Spec
CONSTANTS
    Warehouses <- MCWarehouses
    Seasons <- MCSeasons
    Retries = 2
    MaxEdits = 1
    MaxFaults = 1
INVARIANTS OneWarehouse OneAlert
PROPERTIES CorrectionArrives
