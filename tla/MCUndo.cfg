SPECIFICATION UndoSpec
CONSTANTS
    NoEdit = none
    Pages = {0, 1}
    OutSlot = 1
    Letters = {a}
    Spaces = {sp}
    Steps = 2
    RunMax = 2
    Capacity = 3
    MaxEdits = 4
    Closes = TRUE
INVARIANT LogKept
