CONSTANTS
    Buffers = {b1, b2, b3}
    Phys = FALSE
    SendMayFail = TRUE
    NoBuf = NoBuf
SPECIFICATION FairSpec
INVARIANTS TypeOK SampleReadable
PROPERTIES FramesComeBack ImplementsContract
