CONSTANTS
    udp = udp
    tcp = tcp
    r1 = r1
    r2 = r2
    Slots = {s1}
    Cids = {1, 2}
    Contexts = {udp, tcp}
    Background = background
    ContextOf <- TwoContextOf
    Registries = {r1}
    Limit <- LimitTwo
    Metered = {r1}
    Realm = FALSE
    TIMESLOT_INDEX_SIZE = 2
    NoSlot = NoSlot
    NoRegistry = NoRegistry
SPECIFICATION Spec
INVARIANT EventReachesOwnCall
CHECK_DEADLOCK FALSE
