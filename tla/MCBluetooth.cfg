CONSTANTS
    MaxConnections = 2
    MaxMessages = 2
    Interfaces <- MCInterfaces
    Objects <- MCObjects
    Address = "two"
    IntLimit = 4

SPECIFICATION Spec

INVARIANTS
    ConnectionsApart
    NoLeak

PROPERTY EventuallyHandled

\* BlueZ and the phone may be silent.
CHECK_DEADLOCK FALSE
