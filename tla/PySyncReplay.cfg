SPECIFICATION Spec
CONSTANTS
    Syncers = {s1}
    Exporters = {e1}
    PageSizes = {2}
    KillPoints <- BetweenStamps
    InitialRows = 3
    MaxRows = 4
    MaxSyncs = 2
    MaxKills = 1
    MaxDay = 2
PROPERTIES FullSyncFinish 
