CONSTANTS
    GpsMessages <- FewGps
    WorkMessages <- FewMessages
    Settings <- MCSettings
    Start <- MCStart
    GpsPeriod = 2
    MaxWaiting = 1
SPECIFICATION FairSpec
INVARIANTS NoteIsLatest
PROPERTIES RequestAnswered WorkStatusRead
\* The server may end.
CHECK_DEADLOCK FALSE
