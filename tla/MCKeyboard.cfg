SPECIFICATION Spec
CONSTANTS
    a = a
    b = b
    NoKey = NoKey
    Keys <- TwoKeys
    RepeatMax = 2
    MaxPresses = 3
    Boards <- SomeBoards
    MaxReports = 3
    Links <- TheHandle
    NoLink = NoLink
    MaxEnc = 1
    MaxFaults = 1
    MaxCalls = 1
    MaxResets = 1
CHECK_DEADLOCK FALSE
INVARIANT LinkKept
INVARIANT TypedAsPressed
PROPERTY LinkSettles
