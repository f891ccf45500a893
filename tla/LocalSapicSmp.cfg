SPECIFICATION FairSpec
CONSTANTS
    CPU = {0, 1}
    Vector = {33}
    PmiVector = {}
    Mode = {"INT", "INT_REDIRECT"}
    TprValue = {}
    XtpValue <- SmpXtp
    LidValue <- SmpLid
    CmcVector = {}
    PsrValue = {}
    PmiEntry = {}
    SaveArea = {}
    RasWork <- NoRas
    MaxWork = 1
PROPERTY ImplementsPort
PROPERTY QueuedInterruptWakes
