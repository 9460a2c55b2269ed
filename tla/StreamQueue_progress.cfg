CONSTANTS
    Nodes = {n1, n2}
    PoolSize = 2
    Buffers = {b1, b2}
    Releasers = {r1, r2}
    MaxCount = 2
    MaxOpens = 2
    Faults = {"send", "unregister"}
    NoNode = NoNode
    NoBuf = NoBuf
    NoOne = NoOne
SPECIFICATION FairSpec
PROPERTIES ImplementsContract CloseReturns FramesComeBack
