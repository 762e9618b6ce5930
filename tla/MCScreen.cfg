SPECIFICATION Spec
CONSTANTS
    TextCols = 3
    TextRows = 2
    PaneRows = 1
    WrapBack = 5
    MaxLines = 5
    MaxText = 10
    MaxKeys = 4
    Texts <- SomeTexts
    DocSlots = {0, 1, 2}
    MaxEdits = 1
    MaxSecret = 1
    Width = 8
    Height = 60
    MarginX = 0
    MarginTop = 12
    DmgMax = 2
    Faces <- TwoFaces
    Spots <- SomeSpots
    CursorAt <- Corner
    PinAt <- Start
CHECK_DEADLOCK FALSE
 
INVARIANT DeskKept
INVARIANT GlassIsTrue
