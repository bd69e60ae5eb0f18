SPECIFICATION Spec
CONSTANTS
    Chargers <- MCChargers
    Slots = {s1}
    PageSizes = {1, 2, 3}
    PagesPerTick = {1, 2}
    InitialRows = 3
    MaxRows = 4
    MaxRevisions = 1
    MaxKills = 0
    MaxResets = 1
    MaxClock = 4
    SeedSets <- NoSeeds
PROPERTIES FullCycleFinish CycleStartStamped ImplementsRefresh UpsertStoresPage RowsNeverRegress
CHECK_DEADLOCK FALSE
