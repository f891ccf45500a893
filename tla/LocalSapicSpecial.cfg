SPECIFICATION Spec
CONSTANTS
    CPU = {0}
    Vector = {}
    PmiVector = {1}
    Mode = {"PMI"}
    TprValue = {}
    XtpValue = {}
    LidValue <- ResetLid
    CmcVector = {17}
    PsrValue <- SpecialPsr
    PmiEntry = {TRUE}
    SaveArea = {"GOOD", "BAD"}
    RasWork <- SpecialRas
    MaxWork = 1
INVARIANT ActiveHasContext
INVARIANT CmcNotStranded
PROPERTY MaskedMcaRetained
