SPECIFICATION Spec
CONSTANTS
    Tokens = {"x", "_", ".", "[", "]", "<", ">", ",", "%50", " ", "/2", "!4"}
    MaxLen = 6
    MaxSlots = 8
    MaxDepth = 2
    MaxLeaves = 4
    MaxPer = 4
    MaxTail = 4
    TicksPerStep = 3
    StepTicks = 24
    Divs = {1, 2, 5, 7}
    Slots = {2, 3, 14}
    Counts = {0, 2}
    Swings = {50, 60, 67, 75}
    WrittenAt = {0, 31}
    LastTick = 120
    Rates <- SomeRates
CHECK_DEADLOCK FALSE
INVARIANT PatternIsMeant
 
PROPERTY EachSlotInTurn
