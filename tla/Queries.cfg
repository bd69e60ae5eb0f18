SPECIFICATION Spec
CONSTANTS
    None = None
    Garbled = Garbled
    MinChargers = 2
    Overfetch = 2
    RegionFetch <- MCRegionFetch
    Sido <- MCSido
    Sigungu <- MCSigungu
    BusiId <- MCBusiId
    Chargers <- MCChargers
    Places <- MCPlaces
    Radii = {5, 12}
    Limits = {1, 2}
    Asked <- MCAsked
INVARIANTS
    FiguresAgree
    DiffBalances
    ToolsAnswer
