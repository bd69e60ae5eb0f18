SPECIFICATION Spec
CONSTANTS
    Chargers <- MCChargers
    Slots = {s1}
    PageSizes = {1, 2}
    PagesPerTick = {1}
    InitialRows = 2
    MaxRows = 3
    MaxRevisions = 0
    MaxKills = 1
    MaxResets = 0
    MaxClock = 3
    SeedSets <- NoSeeds
PROPERTIES FullCycleFinish
CHECK_DEADLOCK FALSE
