SPECIFICATION Spec
CONSTANTS
    None = None
    Blank = Blank
    a = a
    b = b
    c = c
    gone = gone
    Sidos <- MCSidos
    Bars <- MCBars
    Routes <- MCRoutes
    Unplaced <- MCUnplaced
    Stations <- MCStations
    OnHighway <- MCOnHighway
    EntityList <- MCEntityList
    Newcomers <- MCNewcomers
    Incumbents <- MCIncumbents
    MaxSelected = 3
    Dates <- MCDates
    Highways <- MCBars
    PageNames = {"national", "route", "station", "compare", "trends", "map",
                 "highway", "activity", "operators"}
    Bookmarks <- MCBookmarks
    Faulty = TRUE
    MaxInputs = 2
    db1 = db1
    db2 = db2
    db3 = db3
    Engines = {db1, db2, db3}
INVARIANTS
    TypeOK
    OneSelectionShown
    DiffCoversDates
PROPERTIES
    SpinnerStops
CHECK_DEADLOCK FALSE
