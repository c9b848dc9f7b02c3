SPECIFICATION Spec
CONSTANTS
    Handlers = {h1, h2}
    Readers = {r1}
    Rings = {b1, b2}
    Size = 2
    Metas <- SomeMetas
    MaxAlarms = 2
    MaxReports = 3
    None = None
SYMMETRY Symmetric
INVARIANTS
    TypeOK
    LatestFresh
    MissesOnlyFull
    AlarmsInOrder
CHECK_DEADLOCK FALSE
