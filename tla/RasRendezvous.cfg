SPECIFICATION FairSpec
CONSTANTS
    CPU = {0, 1, 2}
    Machine <- Machines
    Registrar = {0}
    Vectored = {TRUE, FALSE}
    MaxSet = 2
INVARIANT HubReloads
INVARIANT ArrivedWaits
PROPERTY MonarchProceeds
PROPERTY WaiterReleased
CHECK_DEADLOCK FALSE
