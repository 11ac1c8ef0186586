CONSTANTS
    Slots = {"enumerator", "hub"}
    MaxEnumerates = 2
    MaxListed = 3
    MaxPlugged = 2
    MaxCancels = 2
    Apart = TRUE

SPECIFICATION FairSpec

INVARIANTS
    OneStepAtATime
    SwitchedInOrder

PROPERTY EventuallySettled

\* Every device was tried and nothing is asked any more.
CHECK_DEADLOCK FALSE
