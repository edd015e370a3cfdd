CONSTANTS
    Records = {d1, d2, d3}
    Posters = {udp, background}
    NULL = NULL
SPECIFICATION Spec
INVARIANT NoRecordLost
CHECK_DEADLOCK FALSE
