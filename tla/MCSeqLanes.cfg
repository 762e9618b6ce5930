SPECIFICATION Spec
CONSTANTS
    kick = kick
    disc = disc
    rim = rim
    NoName = NoName
    Names = {kick, disc, rim}
    MaxLanes = 3
    Pats <- LoopAndCount
    MaxTick = 3
    MaxEdits = 4
    MaxAdopts = 1
SYMMETRY Alike
INVARIANT PatternWhole
INVARIANT HeardOnTheTick
 
