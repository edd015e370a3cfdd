CONSTANTS
    Drivers = {d1, d2, d3}
    First = d1
    Readers = {udp, tcp}
    Slots = {s1, s2}
    Keys = 2
    None = None
SPECIFICATION FairSpec
INVARIANTS
    ReadersSeeActive
    ImagesCounted
PROPERTIES
    ReloadEnds
    OldImagePurged
CHECK_DEADLOCK FALSE
