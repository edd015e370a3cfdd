CONSTANTS
    Registries = {r1, r2}
    Limit <- MCLimit
    Calls = {c1, c2}
    Tables = 1
    MaxPeriods = 1
    NoNode = NoNode
    Nobody = Nobody
    Main = Main
SYMMETRY Symmetry
SPECIFICATION Spec
INVARIANTS
    TypeOK
    NodeOrdered
    CallsReportedOnce
    SnapshotConsistent
CHECK_DEADLOCK FALSE
