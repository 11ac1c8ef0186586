CONSTANTS
    Writers = {"messenger", "sender"}
    MaxPayload = 2
    MaxSize = 5
    MaxMessages = 3
    Loads <- MCLoads

SPECIFICATION FairSpec

INVARIANTS
    ResolvedMeansWhole
    NoInterleaving
    BusyWriterHasFrame
    IteratorIsValid

PROPERTY EventuallySettled

CHECK_DEADLOCK FALSE
