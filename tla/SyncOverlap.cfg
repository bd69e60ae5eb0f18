SPECIFICATION FairSpec
CONSTANTS
    Chargers <- MCChargers
    Slots = {s1, s2}
    PageSizes = {1}
    PagesPerTick = {1}
    InitialRows = 3
    MaxRows = 3
    MaxRevisions = 0
    MaxKills = 0
    MaxResets = 1
    MaxClock = 3
    SeedSets <- NoSeeds
PROPERTIES CyclesKeepFinishing
CHECK_DEADLOCK FALSE
