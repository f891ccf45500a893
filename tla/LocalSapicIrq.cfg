SPECIFICATION Spec
CONSTANTS
    CPU = {0}
    Vector = {0, 2, 17, 255}
    PmiVector = {}
    Mode = {"INT"}
    TprValue <- IrqTpr
    XtpValue = {}
    LidValue <- ResetLid
    CmcVector = {}
    PsrValue <- IrqPsr
    PmiEntry = {}
    SaveArea = {}
    RasWork <- NoRas
    MaxWork = 1
INVARIANT TypeOK
INVARIANT HardTracksPending
INVARIANT ServiceStack
INVARIANT DeferralIsInFlight
