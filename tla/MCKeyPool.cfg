SPECIFICATION Spec
CONSTANTS
    Threads = {t, u}
    NoThread = NoThread
    KeyPoolSize = 1
    RefillSizes = {1}
    MaxKeys = 3
    MaxIndex = 3
SYMMETRY Symmetry
INVARIANTS
    PoolSound
    ReservedApart
    RelayedRecorded
