SPECIFICATION Spec
CONSTANTS
    CPU = {0}
    Resettable = {}
    Pins = 1
    Vector = {1, 17}
    Lid = {0, 1}
    Mode = {"INT", "NMI"}
INVARIANT PinConsistent
INVARIANT LevelServed
INVARIANT RemoteIrrOutstanding
PROPERTY LatchHeld
PROPERTY EdgeHeld
PROPERTY RequestHasCause
