SPECIFICATION FairSpec
CONSTANTS
    Procs = {p1, p2, p3, p4}
    Nobody = Nobody
    StartsOverlap = FALSE
    StopsOverlap = FALSE
INVARIANTS
    OneServer
    ServerIsFound
PROPERTIES
    Implements
    StartSucceeds
CHECK_DEADLOCK FALSE
