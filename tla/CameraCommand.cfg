CONSTANTS
    Cmds = {c1, c2}
    MaxCalls = 3
    Faults = {"open", "send"}
    NoCmd = NoCmd
SPECIFICATION FairSpec
CHECK_DEADLOCK FALSE
INVARIANTS TypeOK RightAnswer WokenByOwnAck
PROPERTY CallReturns
