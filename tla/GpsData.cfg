CONSTANTS
    RingLength = 3
    Timeout = 2
    Offset = 1
    MaxTime = 5
    MaxLink = 1
    ClockMayStep = TRUE
    NoSample = NoSample
SPECIFICATION Spec
INVARIANTS TypeOK NearestSample SilenceShown
