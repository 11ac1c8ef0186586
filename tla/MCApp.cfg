CONSTANTS
    MaxSessions = 2
    MaxDevices = 2
    MaxClients = 2
    MaxQuits = 2

SPECIFICATION FairSpec

INVARIANTS
    NoOrphanSession
    AlwaysListening

PROPERTIES
    EventuallyEnded
    EventuallyListens

CHECK_DEADLOCK FALSE
