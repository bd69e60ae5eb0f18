SPECIFICATION FairSpec
CONSTANTS
    Chargers <- MCChargers
    Slots = {s1}
    PageSizes = {1, 2}
    PagesPerTick = {1, 3}
    InitialRows = 3
    MaxRows = 4
    MaxRevisions = 0
    MaxKills = 2
    MaxResets = 1
    MaxClock = 3
    SeedSets <- FirstRowSeed
INVARIANTS TypeOK LockHeldMidCycle ResumePoint OneSizePerCycle IInv
PROPERTIES CursorNeverFallsBack CyclesKeepFinishing
CHECK_DEADLOCK FALSE
