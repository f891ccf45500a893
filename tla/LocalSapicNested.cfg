SPECIFICATION Spec
CONSTANTS
    CPU = {0}
    Vector = {}
    PmiVector = {}
    Mode = {}
    TprValue = {}
    XtpValue = {}
    LidValue <- ResetLid
    CmcVector = {}
    PsrValue <- SpecialPsr
    PmiEntry = {}
    SaveArea = {"GOOD"}
    RasWork <- SpecialRas
    MaxWork = 1
INVARIANT ActiveExclusive
