CONSTANTS
    Flights = 2
    Suites <- MCSuites
    Overhead = 5
    MaxRead = 2
    Plaintext <- MCPlaintext
    MaxChats = 2

SPECIFICATION FairSpec

INVARIANTS
    AsksOnce
    NeverDeaf
    DecryptedWhole
    NothingLeft

PROPERTIES
    EventuallyReady
    EventuallyQuits

CHECK_DEADLOCK FALSE
