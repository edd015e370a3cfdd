CONSTANTS
    SipThreads = {udp, tcp}
    Clients = {c1}
    Requests = {"level", "dispatch"}
    Signals = {"TERM", "ALRM"}
    FifoSize = 1
    CountMod = 3
    NoTarget = NoTarget
    NoCommand = NoCommand
SPECIFICATION FairSpec
INVARIANTS
    TypeOK
    ReplyMatchesCommand
    ThreadsEndedAtStop
PROPERTIES
    TermStops
CHECK_DEADLOCK FALSE
