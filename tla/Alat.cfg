CONSTANTS
    CPU = {0, 1}
    Loader = {0}
    Reg = {r1}
    Slots = 1
    Byte = {0, 1}
    LoadAccess <- Ranges
    StoreAccess <- Upper
    External = {d1, d2}
    MaxScopes = 1
    MaxExternal = 1
    MaxStores = 2
SYMMETRY DeviceSymmetry
SPECIFICATION Spec
INVARIANT TypeOK
INVARIANT SyncedNotAhead
INVARIANT EntriesCurrent
PROPERTY HitIsCurrent
