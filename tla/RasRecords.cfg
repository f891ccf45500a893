SPECIFICATION FairSpec
CONSTANTS
    CPU = {0, 1}
    Faulty = {0}
    DEVICE = DEVICE
    RecordDepth = 2
    MaxId = 3
    MaxWork = 2
    MaxResets = 1
INVARIANTS
    BanksReload
    RecordsAnnounced
    NoReplay
PROPERTY RecordServed
CHECK_DEADLOCK FALSE
