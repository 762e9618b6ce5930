SPECIFICATION CommandsSpec
CONSTANTS
    scratch = scratch
    out = out
    song = song
    DocNames <- FewNames
    Stored <- FewStored
    NoName = scratch
    Out = out
    NoText = none
    MaxBuffers = 3
    MaxDocs = 2
    MaxVer = 1
    Restarts = TRUE
    ReadFails = TRUE
    MallocFails = FALSE
    Words = {"a", "b"}
    Pictures = {"disc"}
    Verbs = {"play"}
    Addresses <- SomeAddresses
    Sources <- SomeSources
    Definitions <- SomeDefinitions
    Patterns = {"one"}
    MaxNames = 1
    MaxInputs = 1
    MaxLanes = 2
    Specs <- SomeSpecs
    Degrees = {0, 6, 9}
    Octaves = {3, 8}
    BootTexts <- SomeBoot
    SongTexts <- SomeSongs
    Typed <- SomeTyped
    Written <- SomeWritten
    MaxPages = 4
    MaxLines = 2
    MaxOut = 2
    MaxWalks = 3
INVARIANT EveryKeyIsTaken
