SPECIFICATION Spec
CONSTANTS
    CPU = {1}
    Vector = {33}
    PmiVector = {}
    Mode = {"INIT"}
    TprValue = {}
    XtpValue = {}
    LidValue <- SmpLid
    CmcVector = {}
    PsrValue <- SmpPsr
    PmiEntry = {}
    SaveArea = {}
    RasWork <- NoRas
    MaxWork = 1
INVARIANT RunningIsNotHalted
