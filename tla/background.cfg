CONSTANTS
    Slots = {s1, s2}
    Armers = {udp}
    Timeouts = {1, 2}
    Inf = 3
    MaxSlack = 2
    NoSlot = NoSlot
SPECIFICATION FairSpec
INVARIANTS
    TypeOK
    NoTimerOverlooked
PROPERTIES
    TimerServed
    ThreadEnds
