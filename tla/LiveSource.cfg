CONSTANTS
    FrameNumbers = 3
    MaxSources = 3
SPECIFICATION FairSpec
INVARIANTS WholeFrames WildOnlyByOverlap
PROPERTY WaitingClientServed
