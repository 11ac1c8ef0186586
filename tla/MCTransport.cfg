CONSTANTS
    Chunk = 3
    Sizes = {0, 1, 2, 5}
    MaxBytes = 12
    MaxQueue = 3
    MaxLength = 3
    MaxElements = 3
    Length = 3

SPECIFICATION FairSpec

INVARIANTS
    OneReadAtATime
    BytesInOrder
    ElementsInOrder
    FirstCallWins

PROPERTIES
    EventuallyHanded
    EventuallySettled

\* Everything asked for was received or sent.
CHECK_DEADLOCK FALSE
