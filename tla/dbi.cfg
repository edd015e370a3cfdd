CONSTANTS
    Records = {d1, d2, d3}
    Posters = {udp, background}
    NULL = NULL
SPECIFICATION FairSpec
INVARIANTS
    RecordInOnePlace
    LogOpenForStops
PROPERTIES
    Drained
    StopEnds
CHECK_DEADLOCK FALSE
