\* Three commands and two connections, so that the last one is raced for.
CONSTANTS
    Commands = {c1, c2, c3}
    Loops = {l1, l2}
    max_connections = 2
    MaxFaults = 3
SPECIFICATION FairSpec
INVARIANTS TypeOK OneLoop HealthyIsUsable
PROPERTIES LostToFaults ComesBack
