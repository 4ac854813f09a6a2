SPECIFICATION FairSpec
CONSTANTS
    Procs = {p1, p2, p3}
    Nobody = Nobody
    StartsOverlap = TRUE
    StopsOverlap = TRUE
PROPERTIES
    SentIsExecuted
CHECK_DEADLOCK FALSE
