CONSTANTS
    Nodes = {n1, n2, n3, n4}
    PoolSize = 2
    Buffers = {b1, b2, b3}
    Releasers = {r1, r2}
    MaxCount = 2
    MaxOpens = 3
    Faults = {"open", "malloc", "thread", "register", "unregister", "send", "oversize", "reopen"}
    NoNode = NoNode
    NoBuf = NoBuf
    NoOne = NoOne
SPECIFICATION Spec
SYMMETRY Symmetry
INVARIANTS TypeOK NodesApart HeldFramesPinned LoansDistinct NoLoanForgotten CountExact
    NothingQueuedAfterStop CleanClose QueueHasOneReader
