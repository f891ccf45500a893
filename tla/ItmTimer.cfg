SPECIFICATION Spec
CONSTANTS
    Half = 16
    Frequency = 2
    Second = 3
    ItmValue = {31, 2}
    ItcValue = {30, 1}
    Span = 2
    MaxNow = 6
    MaxQueued = 2
INVARIANT NoDrift
INVARIANT FutureIsArmed
INVARIANT DeadlineNotEarly
PROPERTY RaisedOnce
PROPERTY ArmedEndsInMatch
