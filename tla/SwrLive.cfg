\* A request, a background task, a write that empties the list, one failing command.
CONSTANTS
    r1 = r1  k1 = k1  k2 = k2  None = None
    Readers = {r1}
    Tasks = {k1}
    TTL = 1
    Stale = 1
    Delay = 1
    Retries = 1
    MaxVersion = 1
    MaxFaults = 1
    Blank <- LastBlank
    CleanFirst = FALSE
SPECIFICATION FairSpec
PROPERTIES EveryReadEnds LockComesFree EventuallyCurrent
