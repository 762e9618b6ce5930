SPECIFICATION BothSpec
CONSTANTS
    scratch = scratch
    song = song
    garbled = garbled
    empty = empty
    short = short
    long = long
    none = none
    Names <- MCNames
    Texts <- MCTexts
    Chunks <- MCChunks
    Scratch = scratch
    Garbled = garbled
    None = none
    NSectors = 4
    MaxNames = 3
    MaxSeq = 3
 
INVARIANT WalkReachesAll
 
INVARIANT LiveExact
 
