SPECIFICATION Spec
CONSTANTS
    Loads <- MCLoads
    MaxReports = 2
INVARIANTS
    NoAnswerToEarlierPhone
    AckNamesLastStart
    OneAnswerPerRequest
    ReportsAsRequested
    MicStopsWhenClosed
    ServiceAsksOnce
\* A session that handled its messages stops.
CHECK_DEADLOCK FALSE
