CONSTANTS
    GpsMessages <- FewGps
    WorkMessages <- Qualities
    Settings <- MCSettings
    Start <- MCStart
    GpsPeriod = 2
    MaxWaiting = 1
SPECIFICATION Spec
INVARIANTS LevelAsDocumented
CHECK_DEADLOCK FALSE
