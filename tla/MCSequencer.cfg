SPECIFICATION AllSpec
CONSTANTS
    none = none
    off = off
    Periods <- TwoTempos
    WaitMin = 1
    Second = 2
    Slides <- LateOrEarly
    Jumps <- AheadOrBehind
    NoGrid = none
    Off = off
    MaxNow = 8
    MaxLate = 1
    MaxCalls = 3
    l1 = l1
    l2 = l2
    NoNote = NoNote
    Lanes = {l1}
    NChans = 2
    NOffs = 1
    Cap = 2
    Keep = 1
    Sync = FALSE
    KeepsUp = FALSE
    Switches = TRUE
    Rebinds = TRUE
CHECK_DEADLOCK FALSE
INVARIANT TimerAlive
INVARIANT OnTheBar
INVARIANT StuckOnlyByLoss
