SPECIFICATION FairSpec
CONSTANTS
    CPU = {0}
    Resettable = {}
    Pins = 2
    Vector = {17}
    Lid = {1}
    Mode = {"INT"}
INVARIANT LevelServed
INVARIANT RemoteIrrOutstanding
PROPERTY RequestHasCause
PROPERTY LevelReachesHandler
