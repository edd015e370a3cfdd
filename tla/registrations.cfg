CONSTANTS
    Registries = {r1, r2}
    Transports = {udp}
    Main = Main
    Background = Background
    NoContext = NoContext
    Nobody = Nobody
    NoRegistry = NoRegistry
SPECIFICATION FairSpec
INVARIANTS
    TypeOK
    LockHeldForMessage
    LibraryAgrees
    AnswerFindsRegistration
PROPERTIES
    LocksFreed
CHECK_DEADLOCK FALSE
