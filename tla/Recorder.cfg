CONSTANTS
    Streams = {s0, s1}
    LiveStream = s0
    MaxStarts = 3
    MaxFrames = 3
SPECIFICATION FairSpec
CHECK_DEADLOCK FALSE
INVARIANTS WritesInsideFile UndisturbedWalk CleanRecording
PROPERTY CommandEnds
