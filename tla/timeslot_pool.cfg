CONSTANTS
    udp = udp
    tcp = tcp
    r1 = r1
    r2 = r2
    Slots = {s1, s2}
    Cids = {1, 2, 3}
    Contexts = {udp}
    Background = background
    ContextOf <- OneContextOf
    Registries = {r1, r2}
    Limit <- LimitOne
    Metered = {r1}
    Realm = TRUE
    TIMESLOT_INDEX_SIZE = 2
    NoSlot = NoSlot
    NoRegistry = NoRegistry
SPECIFICATION Spec
INVARIANTS
    TypeOK
    FreeListClean
    BusySlotsIndexed
    NoSlotLeaked
    CountersBalanced
    MeteredLimitKept
    CallDetailPaired
    EventReachesOwnCall
    NoCallForgotten
PROPERTIES
    CallKeepsSlot
    ImplementsCallPool
CHECK_DEADLOCK FALSE
