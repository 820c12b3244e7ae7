\* A request, two background tasks, one write, one failing command.
CONSTANTS
    r1 = r1  k1 = k1  k2 = k2  None = None
    Readers = {r1}
    Tasks = {k1, k2}
    TTL = 1
    Stale = 1
    Delay = 1
    Retries = 1
    MaxVersion = 1
    MaxFaults = 1
    Blank <- NothingBlank
    CleanFirst = FALSE
SYMMETRY Symmetry
SPECIFICATION Spec
INVARIANTS TypeOK StaleOnlyFromRaces AnswersOnlyStaleFromRaces SingleFlight
